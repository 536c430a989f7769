--------------------------- MODULE AccountsProofs ---------------------------
(***************************************************************************)
(* Accounts for any number of requests, user names, passwords and crashes. *)
(* The invariant carries what a handler checked before its transaction to  *)
(* the transaction itself.                                                 *)
(***************************************************************************)
EXTENDS Accounts, TLAPS

\* None is no value of any table.
LEMMA NoneDiffers ==
    /\ None \notin Name /\ None \notin Password /\ None \notin Setting
    /\ None \notin Input /\ None \notin Session /\ None \notin Req
BY NoneIsNothing

\* normalizeMode: disabled exactly when OPDS is.
LEMMA ModeNormal ==
    ASSUME NEW mode \in Mode, NEW enabled \in BOOLEAN
    PROVE  /\ NormalizeMode(mode, enabled) \in Mode
           /\ enabled <=> NormalizeMode(mode, enabled) # "disabled"
BY DEF NormalizeMode, Mode

\* What validatedSetting accepts makes a sound row of settings.
LEMMA ValidatedSound ==
    ASSUME NEW in \in Input, NEW existing \in Password \cup {None},
           Acceptable(in, existing)
    PROVE  /\ Sound(Validated(in, existing))
           /\ Validated(in, existing).mode = "http_and_https" => in.confirm
<1>1. /\ in.mode \in Mode /\ in.enabled \in BOOLEAN
      /\ in.password \in Password \cup {None}
  BY DEF Input
<1>2. /\ NormalizeMode(in.mode, in.enabled) \in Mode
      /\ in.enabled <=> NormalizeMode(in.mode, in.enabled) # "disabled"
  BY <1>1, ModeNormal
<1>3. NewHash(in, existing) \in Password \cup {None}
  BY <1>1 DEF NewHash
<1>4. QED
  BY <1>1, <1>2, <1>3 DEF Sound, Validated, Acceptable, Setting

\* So does the default of an installation from before.
LEMMA DefaultSound ==
    ASSUME NEW d \in Defaults
    PROVE  Sound(DefaultSetting(d))
<1>1. /\ d.mode \in Mode /\ d.enabled \in BOOLEAN /\ d.named \in BOOLEAN
      /\ d.password \in Password \cup {None}
  BY DEF Defaults
<1>2. /\ NormalizeMode(d.mode, d.enabled) \in Mode
      /\ d.enabled <=> NormalizeMode(d.mode, d.enabled) # "disabled"
  BY <1>1, ModeNormal
<1>3. QED
  BY <1>1, <1>2 DEF Sound, DefaultSetting, Setting, Mode

\* The invariant holds initially.
LEMMA InvInit == Init => IInv
<1> SUFFICES ASSUME Init PROVE IInv  OBVIOUS
<1> USE NoneDiffers
<1>1. TypeOK
  <2>1. NoArg \in Arg
    BY DEF NoArg, Arg
  <2>2. users \in [Name -> Password \cup {None}]
    BY DEF Init
  <2>3. crashes \in 0..MaxCrashes
    BY AccountBounds DEF Init
  <2>4. QED BY <2>1, <2>2, <2>3 DEF Init, TypeOK
<1>2. OneAdmin BY InputsAssumption DEF Init, OneAdmin, Accounted
<1>3. Shapes
  BY DEF Init, Shapes, SetupSteps, LoginSteps, ChangeSteps, SettingsSteps
<1>4. Installed /\ Drafts /\ Settings
  BY DEF Init, Installed, SetUp, Running, Drafts, Settings
<1>5. QED BY <1>1, <1>2, <1>3, <1>4 DEF IInv

USE DEF SetupSteps, LoginSteps, ChangeSteps, SettingsSteps

\* A request that is refused writes nothing.
LEMMA InvRefuse ==
    ASSUME IInv, NEW r \in Req, pc[r] \in Running, Refuse(r)
    PROVE  IInv'
<1> USE DEF Refuse, Go, memory, tables, world, IInv
<1>1. TypeOK' BY DEF TypeOK, Ended
<1>2. Shapes' BY DEF TypeOK, Shapes, Accounted
<1>3. OneAdmin' BY DEF OneAdmin, Accounted
<1>4. Installed' BY DEF TypeOK, Installed, SetUp, Running, Accounted
<1>5. Drafts' BY DEF TypeOK, Drafts
<1>6. Settings' BY DEF TypeOK, Settings, SetUp, Running
<1>7. QED BY <1>1, <1>2, <1>3, <1>4, <1>5, <1>6

\* A step from one label of a handler to the next that writes no table.
LEMMA InvRead ==
    ASSUME IInv, NEW r \in Req, NEW l \in Running, Go(r, l), pc[r] \in Running,
           UNCHANGED <<arg, tables, world>>,
           TypeOK', Shapes', Drafts'
    PROVE  IInv'
<1> USE DEF Go, tables, world, IInv
<1>1. OneAdmin' BY DEF OneAdmin, Accounted
<1>2. l # "ok" BY DEF Running
<1>3. Installed' BY <1>2 DEF TypeOK, Installed, SetUp, Accounted
<1>4. Settings' BY <1>2 DEF TypeOK, Settings, SetUp, Running
<1>5. QED BY <1>1, <1>3, <1>4

\* Initialize: the user and the settings come together, or neither.
LEMMA InvSetup ==
    ASSUME IInv, NEW r \in Req, SCount(r) \/ STx(r)
    PROVE  IInv'
<1>r. Refuse(r) /\ pc[r] \in Running => IInv'
  BY InvRefuse
<1>1. CASE SCount(r) /\ ~Refuse(r)
  <2>1. /\ pc[r] = "s_count" /\ Go(r, "s_tx") /\ UNCHANGED <<memory, tables, world>>
        /\ Acceptable(arg[r].input, None)
    BY <1>1 DEF SCount
  <2>2. TypeOK' BY <2>1 DEF IInv, TypeOK, Go, memory, tables, world, Running
  <2>3. Shapes' BY <2>1 DEF IInv, TypeOK, Shapes, Accounted, Go, memory, tables, world
  <2>4. Drafts' BY <2>1 DEF IInv, TypeOK, Drafts, Go, memory, tables, world
  <2>5. QED BY <2>1, <2>2, <2>3, <2>4, InvRead DEF Running, memory
<1>2. CASE STx(r) /\ ~Refuse(r)
  <2> DEFINE n == arg[r].name
             row == Validated(arg[r].input, None)
  <2>1. /\ pc[r] = "s_tx" /\ Go(r, "ok") /\ UNCHANGED <<memory, sessions, world>>
        /\ setting = None
        /\ users' = [users EXCEPT ![n] = arg[r].password]
        /\ setting' = row
    BY <1>2 DEF STx
  <2>2. /\ n \in Name /\ arg[r].password \in Password /\ arg[r].input \in Input
        /\ arg[r].op = "setup"
    BY <2>1 DEF IInv, Shapes
  <2>3. Sound(row) /\ (row.mode = "http_and_https" => arg[r].input.confirm)
    BY <2>1, <2>2, ValidatedSound DEF IInv, Drafts
  <2>4. row \in Setting /\ row # None
    BY <2>3, NoneDiffers DEF Sound
  <2>5. Accounted = {} /\ up
    BY <2>1 DEF IInv, Installed, Running
  <2>6. Accounted' = {n}
    BY <2>1, <2>2, <2>5, NoneDiffers DEF IInv, TypeOK, Accounted
  <2> HIDE DEF n, row
  <2>7. TypeOK'
    BY <2>1, <2>2, <2>4 DEF IInv, TypeOK, Go, memory, world, Ended, n
  <2>8. Shapes'
    BY <2>1, <2>5, <2>6 DEF IInv, TypeOK, Shapes, Go, memory, world
  <2>9. OneAdmin'
    BY <2>6 DEF OneAdmin
  <2>10. Installed'
    BY <2>1, <2>4, <2>6 DEF IInv, TypeOK, Installed, Running, Go, world
  <2>11. Drafts'
    BY <2>1, <2>4 DEF IInv, TypeOK, Drafts, Go, memory, world
  <2>12. Settings'
    BY <2>1, <2>2, <2>3 DEF IInv, TypeOK, Settings, Go, memory, world
  <2>13. QED BY <2>7, <2>8, <2>9, <2>10, <2>11, <2>12 DEF IInv
<1>3. QED BY <1>r, <1>1, <1>2 DEF SCount, STx, Running

\* A step that ends a request well, or writes sessions or passwords only.
LEMMA InvTables ==
    ASSUME IInv, NEW r \in Req, pc[r] \in Running, NEW l \in {"ok"},
           Go(r, l), arg[r].op # "setup",
           UNCHANGED <<memory, setting, expired, up, crashes>>,
           overtaken' \subseteq Req,
           Accounted' = Accounted,
           users' \in [Name -> Password \cup {None}],
           sessions' \in [Req -> Session \cup {None}]
    PROVE  IInv'
<1> USE DEF Go, memory, world, IInv
<1>1. TypeOK' BY DEF TypeOK, Ended
<1>2. Shapes' BY DEF TypeOK, Shapes
<1>3. OneAdmin' BY DEF OneAdmin
<1>4. Installed' BY DEF TypeOK, Installed, SetUp, Running
<1>5. Drafts' BY DEF TypeOK, Drafts
<1>6. Settings' BY DEF TypeOK, Settings, SetUp, Running
<1>7. QED BY <1>1, <1>2, <1>3, <1>4, <1>5, <1>6

\* Logging in, out and being recognised leave users and settings alone.
LEMMA InvSessions ==
    ASSUME IInv, NEW r \in Req, LFind(r) \/ LStore(r) \/ XDelete(r)
    PROVE  IInv'
<1>r. Refuse(r) /\ pc[r] \in Running => IInv'
  BY InvRefuse
<1>1. CASE LFind(r) /\ ~Refuse(r)
  <2>1. /\ pc[r] = "l_find" /\ Go(r, "l_store") /\ UNCHANGED <<memory, tables, world>>
    BY <1>1 DEF LFind
  <2>2. TypeOK' BY <2>1 DEF IInv, TypeOK, Go, memory, tables, world, Running
  <2>3. Shapes' BY <2>1 DEF IInv, TypeOK, Shapes, Accounted, Go, memory, tables, world
  <2>4. Drafts' BY <2>1 DEF IInv, TypeOK, Drafts, Go, memory, tables, world
  <2>5. QED BY <2>1, <2>2, <2>3, <2>4, InvRead DEF Running, memory
<1>2. CASE LStore(r) /\ ~Refuse(r)
  <2> DEFINE s == [user |-> arg[r].name, password |-> arg[r].password]
  <2>1. /\ pc[r] = "l_store" /\ Go(r, "ok")
        /\ UNCHANGED <<memory, users, setting, world>>
        /\ sessions' = [sessions EXCEPT ![r] = s]
    BY <1>2 DEF LStore
  <2>2. arg[r].op = "login" /\ s \in Session
    BY <2>1 DEF IInv, Shapes, Session
  <2>3. sessions' \in [Req -> Session \cup {None}]
    BY <2>1, <2>2 DEF IInv, TypeOK
  <2>4. users' \in [Name -> Password \cup {None}] /\ Accounted' = Accounted
    BY <2>1 DEF IInv, TypeOK, Accounted
  <2>5. overtaken' \subseteq Req BY <2>1 DEF world, IInv, TypeOK
  <2>6. QED BY <2>1, <2>2, <2>3, <2>4, <2>5, InvTables DEF Running, world
<1>3. CASE XDelete(r) /\ ~Refuse(r)
  <2>1. /\ pc[r] = "x_delete" /\ Go(r, "ok")
        /\ UNCHANGED <<memory, users, setting, world>>
        /\ sessions' = [sessions EXCEPT ![arg[r].token] = None]
    BY <1>3 DEF XDelete
  <2>2. arg[r].op = "logout"
    BY <2>1 DEF IInv, Shapes
  <2>3. sessions' \in [Req -> Session \cup {None}]
    BY <2>1 DEF IInv, TypeOK
  <2>4. users' \in [Name -> Password \cup {None}] /\ Accounted' = Accounted
    BY <2>1 DEF IInv, TypeOK, Accounted
  <2>5. overtaken' \subseteq Req BY <2>1 DEF world, IInv, TypeOK
  <2>6. QED BY <2>1, <2>2, <2>3, <2>4, <2>5, InvTables DEF Running, world
<1>4. QED BY <1>r, <1>1, <1>2, <1>3 DEF LFind, LStore, XDelete, Running

\* RequireUser, and what the handlers read before they write.
LEMMA InvReads ==
    ASSUME IInv, NEW r \in Req, ASession(r) \/ AUser(r) \/ CFind(r) \/ OCurrent(r)
    PROVE  IInv'
<1>r. Refuse(r) /\ pc[r] \in Running => IInv'
  BY InvRefuse
<1>1. CASE ASession(r) /\ ~Refuse(r)
  <2>1. /\ pc[r] = "a_session" /\ Go(r, "a_user") /\ LiveSession(arg[r].token)
        /\ user' = [user EXCEPT ![r] = sessions[arg[r].token].user]
        /\ UNCHANGED <<arg, hash, draft, tables, world>>
    BY <1>1 DEF ASession
  <2>2. sessions[arg[r].token].user \in Name
    BY <2>1, NoneDiffers DEF IInv, TypeOK, Shapes, LiveSession, Session
  <2>3. TypeOK' BY <2>1, <2>2 DEF IInv, TypeOK, Go, tables, world, Running
  <2>4. Shapes' BY <2>1 DEF IInv, TypeOK, Shapes, Accounted, Go, tables, world
  <2>5. Drafts' BY <2>1 DEF IInv, TypeOK, Drafts, Go, tables, world
  <2>6. QED BY <2>1, <2>3, <2>4, <2>5, InvRead DEF Running
<1>2. CASE AUser(r) /\ ~Refuse(r)
  <2> DEFINE l == Handler[arg[r].op]
  <2>1. /\ pc[r] = "a_user" /\ Go(r, l) /\ user[r] \in Accounted
        /\ hash' = [hash EXCEPT ![r] = users[user[r]]]
        /\ UNCHANGED <<arg, user, draft, tables, world>>
    BY <1>2 DEF AUser
  <2>2. \/ arg[r].op = "logout" /\ l = "x_delete"
        \/ arg[r].op = "change" /\ l = "c_find"
        \/ arg[r].op = "settings" /\ l = "o_current"
    BY <2>1 DEF IInv, Shapes, Handler
  <2>3. users[user[r]] \in Password \cup {None}
    BY <2>1 DEF IInv, TypeOK, Accounted
  <2> HIDE DEF l
  <2>4. l \in Running
    BY <2>2 DEF Running
  <2>5. TypeOK' BY <2>1, <2>3, <2>4 DEF IInv, TypeOK, Go, tables, world
  <2>6. Shapes' BY <2>1, <2>2 DEF IInv, TypeOK, Shapes, Accounted, Go, tables, world
  <2>7. Drafts' BY <2>1, <2>2 DEF IInv, TypeOK, Drafts, Go, tables, world
  <2>8. QED BY <2>1, <2>4, <2>5, <2>6, <2>7, InvRead DEF Running
<1>3. CASE CFind(r) /\ ~Refuse(r)
  <2>1. /\ pc[r] = "c_find" /\ Go(r, "c_tx") /\ UNCHANGED <<memory, tables, world>>
    BY <1>3 DEF CFind
  <2>2. TypeOK' BY <2>1 DEF IInv, TypeOK, Go, memory, tables, world, Running
  <2>3. Shapes' BY <2>1 DEF IInv, TypeOK, Shapes, Accounted, Go, memory, tables, world
  <2>4. Drafts' BY <2>1 DEF IInv, TypeOK, Drafts, Go, memory, tables, world
  <2>5. QED BY <2>1, <2>2, <2>3, <2>4, InvRead DEF Running, memory
<1>4. CASE OCurrent(r) /\ ~Refuse(r)
  <2> DEFINE row == Validated(arg[r].input, setting.hash)
  <2>1. /\ pc[r] = "o_current" /\ Go(r, "o_save") /\ setting # None
        /\ Acceptable(arg[r].input, setting.hash)
        /\ draft' = [draft EXCEPT ![r] = row]
        /\ UNCHANGED <<arg, user, hash, tables, world>>
    BY <1>4 DEF OCurrent
  <2>2. arg[r].input \in Input /\ setting.hash \in Password \cup {None}
    BY <2>1 DEF IInv, TypeOK, Shapes, Setting
  <2>3. Sound(row) /\ (row.mode = "http_and_https" => arg[r].input.confirm)
    BY <2>1, <2>2, ValidatedSound
  <2>4. row \in Setting
    BY <2>3 DEF Sound
  <2> HIDE DEF row
  <2>5. TypeOK' BY <2>1, <2>4 DEF IInv, TypeOK, Go, tables, world, Running
  <2>6. Shapes' BY <2>1 DEF IInv, TypeOK, Shapes, Accounted, Go, tables, world
  <2>7. Drafts' BY <2>1, <2>3 DEF IInv, TypeOK, Drafts, Go, tables, world
  <2>8. QED BY <2>1, <2>5, <2>6, <2>7, InvRead DEF Running
<1>5. QED BY <1>r, <1>1, <1>2, <1>3, <1>4 DEF ASession, AUser, CFind, OCurrent, Running

\* ChangePassword and Update write to rows that are there.
LEMMA InvChanges ==
    ASSUME IInv, NEW r \in Req, CTx(r) \/ OSave(r)
    PROVE  IInv'
<1>r. Refuse(r) /\ pc[r] \in Running => IInv'
  BY InvRefuse
<1>1. CASE CTx(r) /\ ~Refuse(r)
  <2>1. /\ pc[r] = "c_tx" /\ Go(r, "ok")
        /\ UNCHANGED <<memory, setting, expired, up, crashes>>
        /\ overtaken' \subseteq Req
        /\ users' = [users EXCEPT ![user[r]] = arg[r].new]
        /\ sessions' = [t \in Req |->
                          IF sessions[t] # None /\ sessions[t].user = user[r]
                          THEN None ELSE sessions[t]]
    BY <1>1 DEF CTx, Overtake, IInv, TypeOK
  <2>2. /\ arg[r].op = "change" /\ arg[r].new \in Password
        /\ user[r] \in Accounted /\ user[r] \in Name
    BY <2>1 DEF IInv, Shapes, Accounted
  <2>3. users' \in [Name -> Password \cup {None}] /\ Accounted' = Accounted
    BY <2>1, <2>2, NoneDiffers DEF IInv, TypeOK, Accounted
  <2>4. sessions' \in [Req -> Session \cup {None}]
    BY <2>1 DEF IInv, TypeOK
  <2>5. QED BY <2>1, <2>2, <2>3, <2>4, InvTables DEF Running
<1>2. CASE OSave(r) /\ ~Refuse(r)
  <2> DEFINE row == draft[r]
  <2>1. /\ pc[r] = "o_save" /\ Go(r, "ok") /\ setting' = row
        /\ UNCHANGED <<memory, users, sessions, world>>
    BY <1>2 DEF OSave
  <2>2. /\ setting # None /\ Sound(row) /\ arg[r].op = "settings"
        /\ row.mode = "http_and_https" => arg[r].input.confirm
    BY <2>1 DEF IInv, Drafts, Shapes
  <2>3. row \in Setting /\ row # None
    BY <2>2, NoneDiffers DEF Sound
  <2> HIDE DEF row
  <2>4. TypeOK' BY <2>1, <2>3 DEF IInv, TypeOK, Go, memory, world, Ended
  <2>5. Shapes' BY <2>1 DEF IInv, TypeOK, Shapes, Accounted, Go, memory, world
  <2>6. OneAdmin' BY <2>1 DEF IInv, OneAdmin, Accounted
  <2>7. Installed'
    BY <2>1, <2>2, <2>3 DEF IInv, TypeOK, Installed, SetUp, Running, Accounted,
       Go, memory, world
  <2>8. Drafts' BY <2>1, <2>3 DEF IInv, TypeOK, Drafts, Go, memory, world
  <2>9. Settings'
    BY <2>1, <2>2, <2>3 DEF IInv, TypeOK, Settings, Go, memory, world
  <2>10. QED BY <2>4, <2>5, <2>6, <2>7, <2>8, <2>9 DEF IInv
<1>3. QED BY <1>r, <1>1, <1>2 DEF CTx, OSave, Running

\* EnsureExistingInstall gives an old installation sound settings.
LEMMA InvBoot ==
    ASSUME IInv, Boot
    PROVE  IInv'
<1>1. /\ ~up /\ up' = TRUE
      /\ UNCHANGED <<pc, memory, users, sessions, expired, crashes, overtaken>>
  BY DEF Boot
<1>2. CASE Accounted # {} /\ setting = None
  <2>1. PICK d \in Defaults : setting' = DefaultSetting(d)
    BY <1>2 DEF Boot
  <2>2. Sound(setting') /\ setting' \in Setting /\ setting' # None
    BY <2>1, DefaultSound, NoneDiffers DEF Sound
  <2>3. ~SetUp /\ ~SetUp'
    BY <1>1, <1>2 DEF IInv, Installed, SetUp, memory
  <2>4. TypeOK' BY <1>1, <2>2 DEF IInv, TypeOK, memory
  <2>5. Shapes' BY <1>1 DEF IInv, Shapes, Accounted, memory
  <2>6. OneAdmin' BY <1>1 DEF IInv, OneAdmin, Accounted
  <2>7. Installed'
    BY <1>1, <1>2, <2>2, <2>3 DEF IInv, Installed, Accounted, memory
  <2>8. Drafts' BY <1>1, <2>2 DEF IInv, Drafts, memory
  <2>9. Settings' BY <2>2, <2>3 DEF Settings
  <2>10. QED BY <2>4, <2>5, <2>6, <2>7, <2>8, <2>9 DEF IInv
<1>3. CASE ~(Accounted # {} /\ setting = None)
  <2>1. UNCHANGED setting
    BY <1>3 DEF Boot
  <2>2. TypeOK' BY <1>1, <2>1 DEF IInv, TypeOK, memory
  <2>3. Shapes' BY <1>1 DEF IInv, Shapes, Accounted, memory
  <2>4. OneAdmin' BY <1>1 DEF IInv, OneAdmin, Accounted
  <2>5. Installed'
    BY <1>1, <1>3, <2>1 DEF IInv, Installed, SetUp, Accounted, memory
  <2>6. Drafts' BY <1>1, <2>1 DEF IInv, Drafts, memory
  <2>7. Settings' BY <1>1, <2>1 DEF IInv, Settings, SetUp, memory
  <2>8. QED BY <2>2, <2>3, <2>4, <2>5, <2>6, <2>7 DEF IInv
<1>4. QED BY <1>2, <1>3

\* A crash ends the running requests.
LEMMA InvCrash ==
    ASSUME IInv, Crash
    PROVE  IInv'
<1>1. /\ up' = FALSE /\ crashes < MaxCrashes /\ crashes' = crashes + 1
      /\ pc' = [r \in Req |-> IF r \in InFlight THEN "lost" ELSE pc[r]]
      /\ UNCHANGED <<memory, tables, expired, overtaken>>
  BY DEF Crash
<1>2. \A r \in Req : /\ pc'[r] \notin Running
                     /\ pc'[r] = "ok" <=> pc[r] = "ok"
                     /\ pc'[r] \in Ended \cup {"idle"}
  BY <1>1 DEF IInv, TypeOK, InFlight, Running, Ended
<1>3. SetUp' <=> SetUp
  BY <1>1, <1>2 DEF SetUp, memory
<1>4. TypeOK'
  <2>1. crashes' \in 0..MaxCrashes BY <1>1, AccountBounds DEF IInv, TypeOK
  <2>2. QED BY <1>1, <1>2, <2>1 DEF IInv, TypeOK, memory, tables
<1>5. Shapes' /\ Drafts'
  BY <1>2 DEF Shapes, Drafts, Running
<1>6. OneAdmin' BY <1>1 DEF IInv, OneAdmin, Accounted, tables
<1>7. Installed' BY <1>1, <1>2, <1>3 DEF IInv, Installed, Accounted, tables
<1>8. Settings' BY <1>1, <1>2, <1>3 DEF IInv, Settings, tables, memory
<1>9. QED BY <1>4, <1>5, <1>6, <1>7, <1>8 DEF IInv

\* The end of a session changes nothing else.
LEMMA InvExpire ==
    ASSUME IInv, NEW t \in Req, Expire(t)
    PROVE  IInv'
<1> USE DEF Expire, memory, tables, IInv
<1>1. TypeOK' BY DEF TypeOK
<1>2. Shapes' BY DEF Shapes, Accounted
<1>3. OneAdmin' BY DEF OneAdmin, Accounted
<1>4. Installed' BY DEF Installed, SetUp, Accounted
<1>5. Drafts' BY DEF Drafts
<1>6. Settings' BY DEF Settings, SetUp
<1>7. QED BY <1>1, <1>2, <1>3, <1>4, <1>5, <1>6

\* What a client asks for has the shape of its operation.
LEMMA AsksShaped ==
    ASSUME NEW a \in Setups \cup Logins \cup Logouts \cup Changes \cup Updates
    PROVE  /\ a \in Arg /\ a.op \in AllOps
           /\ a.op = "setup" => a.name \in Name /\ a.password \in Password
                                /\ a.input \in Input
           /\ a.op = "login" => a.name \in Name /\ a.password \in Password
           /\ a.op \in {"logout", "change", "settings"} => a.token \in Req
           /\ a.op = "change" => a.new \in Password
           /\ a.op = "settings" => a.input \in Input
<1>1. Inputs \subseteq Input /\ Tokens \subseteq Req
  BY InputsAssumption DEF Tokens
<1>2. QED
  BY <1>1 DEF Setups, Logins, Logouts, Changes, Updates, Arg, AllOps

\* A request starts with what its first step needs.
LEMMA InvStart ==
    ASSUME IInv, NEW r \in Req, Start(r)
    PROVE  IInv'
<1>1. PICK a \in Setups \cup Logins \cup Logouts \cup Changes \cup Updates :
        /\ arg' = [arg EXCEPT ![r] = a]
        /\ Go(r, FirstStep[a.op])
  BY DEF Start
<1>2. up /\ pc[r] = "idle" /\ UNCHANGED <<user, hash, draft, tables, world>>
  BY DEF Start
<1> DEFINE l == FirstStep[a.op]
<1>3. /\ a.op = "setup" => l = "s_count"
      /\ a.op = "login" => l = "l_find"
      /\ a.op \in {"logout", "change", "settings"} => l = "a_session"
      /\ a.op \in {"setup", "login", "logout", "change", "settings"}
  BY AsksShaped DEF FirstStep, AllOps
<1>4. l \in {"s_count", "l_find", "a_session"} /\ l \in Running
  BY <1>3 DEF Running
<1> HIDE DEF l
<1>5. pc' = [pc EXCEPT ![r] = l]
  BY <1>1 DEF Go, l
<1>6. /\ a \in Arg
      /\ a.op = "setup" => a.name \in Name /\ a.password \in Password
                           /\ a.input \in Input
      /\ a.op = "login" => a.name \in Name /\ a.password \in Password
      /\ a.op \in {"logout", "change", "settings"} => a.token \in Req
      /\ a.op = "change" => a.new \in Password
      /\ a.op = "settings" => a.input \in Input
  BY AsksShaped
<1>7. TypeOK'
  BY <1>1, <1>2, <1>4, <1>5, <1>6 DEF IInv, TypeOK, tables, world
<1>8. Shapes'
  BY <1>1, <1>2, <1>3, <1>5, <1>6 DEF IInv, TypeOK, Shapes, Accounted, tables
<1>9. OneAdmin' BY <1>2 DEF IInv, OneAdmin, Accounted, tables
<1>10. \A q \in Req : pc'[q] = "ok" => pc[q] = "ok" /\ arg'[q] = arg[q]
  BY <1>1, <1>2, <1>4, <1>5 DEF IInv, TypeOK
<1>11. \A q \in Req : pc[q] = "ok" => pc'[q] = "ok" /\ arg'[q] = arg[q]
  BY <1>1, <1>2, <1>5 DEF IInv, TypeOK
<1>12. SetUp' <=> SetUp BY <1>10, <1>11 DEF SetUp
<1>13. Installed'
  BY <1>2, <1>5, <1>12 DEF IInv, TypeOK, Installed, Accounted, tables, world
<1>14. Drafts'
  BY <1>1, <1>2, <1>4, <1>5 DEF IInv, TypeOK, Drafts, tables
<1>15. Settings' BY <1>2, <1>11, <1>12 DEF IInv, Settings, tables
<1>16. QED BY <1>7, <1>8, <1>9, <1>13, <1>14, <1>15 DEF IInv

\* A step that changes nothing keeps the invariant.
LEMMA InvStutter == IInv /\ UNCHANGED vars => IInv'
BY DEF IInv, vars, memory, tables, world, TypeOK, Shapes, OneAdmin, Installed,
       Drafts, Settings, SetUp, Accounted, Sound, Acceptable

\* IInv holds in every state: requests keep the shape of their operation, and
\* a transaction finds what its handler checked before it.
THEOREM Invariance == Spec => []IInv
<1>1. IInv /\ [Next]_vars => IInv'
  <2> SUFFICES ASSUME IInv, [Next]_vars PROVE IInv'  OBVIOUS
  <2>1. CASE Boot BY <2>1, InvBoot
  <2>2. CASE Crash BY <2>2, InvCrash
  <2>3. ASSUME NEW r \in Req, Start(r) PROVE IInv' BY <2>3, InvStart
  <2>4. ASSUME NEW r \in Req, Work(r) PROVE IInv'
    BY <2>4, InvSetup, InvSessions, InvReads, InvChanges DEF Work
  <2>5. ASSUME NEW r \in Req, Expire(r) PROVE IInv' BY <2>5, InvExpire
  <2>6. CASE UNCHANGED vars BY <2>6, InvStutter
  <2>7. QED BY <2>1, <2>2, <2>3, <2>4, <2>5, <2>6 DEF Next
<1>2. QED BY InvInit, <1>1, PTL DEF Spec

\* Rows, sessions and what requests carry have their types.
THEOREM TypeCorrect == Spec => []TypeOK
BY Invariance, PTL DEF IInv

\* However many first initialisations overlap, whatever names they ask for,
\* one administrator is made (settings.Initialize).
THEOREM AdministratorIsOne == Spec => []OneAdmin
BY Invariance, PTL DEF IInv

\* While the server runs it has settings exactly when it has an administrator
\* (settings.Initialize and settings.EnsureExistingInstall).
THEOREM InstalledWhole == Spec => []Initialised
<1>1. IInv => Initialised
  BY DEF IInv, Installed, Initialised
<1>2. QED BY Invariance, <1>1, PTL

\* OPDS is not open without a password, nor to plain HTTP without the
\* confirmation of a request once a request set the server up.
THEOREM OPDSIsGuarded == Spec => []SettingsSound
<1>1. IInv => SettingsSound
  BY DEF IInv, Settings, Sound, SetUp, SettingsSound
<1>2. QED BY Invariance, <1>1, PTL

-----------------------------------------------------------------------------
(* Sessions and password changes.  A step that changes no password leaves   *)
(* `overtaken` alone; a change adds the logins that stand before their      *)
(* session, and what a login was once excused for it stays excused for.     *)

\* Steps that write neither users nor sessions, nor bring a request to the step
\* that stores a session, leave the comparisons of the others as they were.
LEMMA ComparedKept ==
    ASSUME SessionsInv, UNCHANGED <<users, sessions, overtaken>>,
           \A q \in Req : pc'[q] = "l_store" =>
                pc[q] = "l_store" /\ arg'[q] = arg[q]
    PROVE  SessionsInv'
BY DEF SessionsInv, Compared, AllCurrent

\* A first administrator is no user of any session or login.
LEMMA SessionsSetup ==
    ASSUME IInv, SessionsInv, NEW r \in Req, STx(r), ~Refuse(r)
    PROVE  SessionsInv'
<1>1. /\ pc[r] = "s_tx" /\ Go(r, "ok") /\ UNCHANGED <<arg, sessions, overtaken>>
      /\ users[arg[r].name] = None
      /\ users' = [users EXCEPT ![arg[r].name] = arg[r].password]
  BY DEF STx, memory, world
<1>2. \A q \in Req : pc'[q] = "l_store" => pc[q] = "l_store"
  BY <1>1 DEF IInv, TypeOK, Go
<1>3. \A n \in Name : users[n] # None => users'[n] = users[n]
  BY <1>1 DEF IInv, TypeOK
<1>4. Compared'
  <2> SUFFICES ASSUME NEW q \in Req, pc'[q] = "l_store", q \notin overtaken
               PROVE  users'[arg[q].name] = arg[q].password
    BY <1>1 DEF Compared
  <2>1. /\ users[arg[q].name] = arg[q].password
        /\ arg[q].name \in Name /\ arg[q].password \in Password
    BY <1>2 DEF SessionsInv, Compared, IInv, Shapes
  <2>2. QED BY <2>1, <1>3, NoneDiffers
<1>5. AllCurrent'
  <2> SUFFICES ASSUME NEW t \in Req, sessions[t] # None, t \notin overtaken
               PROVE  sessions[t].password = users'[sessions[t].user]
    BY <1>1 DEF AllCurrent
  <2>1. /\ sessions[t].password = users[sessions[t].user]
        /\ sessions[t].user \in Name /\ sessions[t].password \in Password
    BY DEF SessionsInv, AllCurrent, IInv, TypeOK, Session
  <2>2. QED BY <2>1, <1>3, NoneDiffers
<1>6. QED BY <1>4, <1>5 DEF SessionsInv

\* A login compares, and stores the session of the password it compared: that
\* of today, unless it was overtaken.
LEMMA SessionsLogin ==
    ASSUME IInv, SessionsInv, NEW r \in Req, LFind(r) \/ LStore(r), ~Refuse(r)
    PROVE  SessionsInv'
<1>1. CASE LFind(r)
  <2>1. /\ pc[r] = "l_find" /\ Go(r, "l_store")
        /\ UNCHANGED <<arg, users, sessions, overtaken>>
        /\ users[arg[r].name] = arg[r].password
    BY <1>1 DEF LFind, memory, tables, world
  <2>2. \A q \in Req : pc'[q] = "l_store" => q = r \/ pc[q] = "l_store"
    BY <2>1 DEF IInv, TypeOK, Go
  <2>3. QED BY <2>1, <2>2 DEF SessionsInv, Compared, AllCurrent
<1>2. CASE LStore(r)
  <2> DEFINE s == [user |-> arg[r].name, password |-> arg[r].password]
  <2>1. /\ pc[r] = "l_store" /\ Go(r, "ok") /\ UNCHANGED <<arg, users, overtaken>>
        /\ sessions' = [sessions EXCEPT ![r] = s]
    BY <1>2 DEF LStore, memory, world
  <2>2. \A q \in Req : pc'[q] = "l_store" => pc[q] = "l_store"
    BY <2>1 DEF IInv, TypeOK, Go
  <2>3. s.password = users[s.user] \/ r \in overtaken
    BY <2>1 DEF SessionsInv, Compared
  <2>4. \A t \in Req : sessions'[t] = sessions[t] \/ (t = r /\ sessions'[t] = s)
    BY <2>1 DEF IInv, TypeOK
  <2>5. Compared'
    BY <2>1, <2>2 DEF SessionsInv, Compared
  <2>6. AllCurrent'
    BY <2>1, <2>3, <2>4 DEF SessionsInv, AllCurrent
  <2>7. QED BY <2>5, <2>6 DEF SessionsInv
<1>3. QED BY <1>1, <1>2

\* A password change deletes every session of its user, and overtakes every
\* login of the user that stands between its comparison and its session.
LEMMA SessionsChange ==
    ASSUME IInv, SessionsInv, NEW r \in Req, CTx(r), ~Refuse(r)
    PROVE  SessionsInv'
<1>1. /\ pc[r] = "c_tx" /\ Go(r, "ok") /\ arg' = arg
      /\ users' = [users EXCEPT ![user[r]] = arg[r].new]
      /\ sessions' = [t \in Req |->
                        IF sessions[t] # None /\ sessions[t].user = user[r]
                        THEN None ELSE sessions[t]]
      /\ overtaken' = overtaken \cup
                        {q \in Req : pc[q] = "l_store" /\ arg[q].name = user[r]}
  BY DEF CTx, Overtake, memory
<1>2. Compared'
  <2> SUFFICES ASSUME NEW q \in Req, pc'[q] = "l_store", q \notin overtaken'
               PROVE  users'[arg[q].name] = arg[q].password
    BY <1>1 DEF Compared
  <2>1. pc[q] = "l_store"
    BY <1>1 DEF IInv, TypeOK, Go
  <2>2. arg[q].name # user[r] /\ q \notin overtaken
    BY <1>1, <2>1
  <2>3. arg[q].name \in Name
    BY <2>1 DEF IInv, Shapes, LoginSteps
  <2>4. users'[arg[q].name] = users[arg[q].name]
    BY <1>1, <2>2, <2>3 DEF IInv, TypeOK
  <2>5. QED BY <2>1, <2>2, <2>4 DEF SessionsInv, Compared
<1>3. AllCurrent'
  <2> SUFFICES ASSUME NEW t \in Req, sessions'[t] # None, t \notin overtaken'
               PROVE  sessions'[t].password = users'[sessions'[t].user]
    BY DEF AllCurrent
  <2>1. sessions'[t] = sessions[t] /\ sessions[t].user # user[r] /\ sessions[t] # None
    BY <1>1
  <2>2. sessions[t].user \in Name
    BY <2>1 DEF IInv, TypeOK, Session
  <2>3. users'[sessions[t].user] = users[sessions[t].user]
    BY <1>1, <2>1, <2>2 DEF IInv, TypeOK
  <2>4. t \notin overtaken
    BY <1>1
  <2>5. QED BY <2>1, <2>3, <2>4 DEF SessionsInv, AllCurrent
<1>4. QED BY <1>2, <1>3 DEF SessionsInv

\* Every step of a request that runs.
LEMMA SessionsWork ==
    ASSUME IInv, SessionsInv, NEW r \in Req, Work(r)
    PROVE  SessionsInv'
<1>1. ASSUME NEW l \in (Running \cup Ended) \ {"l_store"}, Go(r, l),
             UNCHANGED <<arg, users, sessions, overtaken>>
      PROVE  SessionsInv'
  <2>1. \A q \in Req : pc'[q] = "l_store" => pc[q] = "l_store"
    BY <1>1 DEF IInv, TypeOK, Go
  <2>2. QED BY <1>1, <2>1, ComparedKept
<1>2. CASE Refuse(r)
  BY <1>1, <1>2 DEF Refuse, memory, tables, world, Ended
<1>3. CASE SCount(r) \/ ASession(r) \/ CFind(r) \/ OCurrent(r) \/ OSave(r)
  BY <1>1, <1>2, <1>3 DEF SCount, ASession, CFind, OCurrent, OSave,
     memory, tables, world, Running, Ended
<1>4. CASE AUser(r) /\ ~Refuse(r)
  <2>1. /\ pc[r] = "a_user" /\ Go(r, Handler[arg[r].op])
        /\ UNCHANGED <<arg, users, sessions, overtaken>>
    BY <1>4 DEF AUser, tables, world
  <2>2. Handler[arg[r].op] \in Running \ {"l_store"}
    BY <2>1 DEF IInv, Shapes, Handler, Running
  <2>3. QED BY <1>1, <2>1, <2>2
<1>5. CASE XDelete(r) /\ ~Refuse(r)
  <2>1. /\ Go(r, "ok") /\ UNCHANGED <<arg, users, overtaken>>
        /\ sessions' = [sessions EXCEPT ![arg[r].token] = None]
    BY <1>5 DEF XDelete, memory, world
  <2>2. \A q \in Req : pc'[q] = "l_store" => pc[q] = "l_store"
    BY <2>1 DEF IInv, TypeOK, Go
  <2>3. \A t \in Req : sessions'[t] = sessions[t] \/ sessions'[t] = None
    BY <2>1 DEF IInv, TypeOK
  <2>4. Compared' BY <2>1, <2>2 DEF SessionsInv, Compared
  <2>5. AllCurrent' BY <2>1, <2>3 DEF SessionsInv, AllCurrent
  <2>6. QED BY <2>4, <2>5 DEF SessionsInv
<1>6. CASE /\ STx(r) \/ LFind(r) \/ LStore(r) \/ CTx(r)
           /\ ~Refuse(r)
  BY <1>6, SessionsSetup, SessionsLogin, SessionsChange
<1>7. QED BY <1>2, <1>3, <1>4, <1>5, <1>6 DEF Work

\* A request that begins has compared nothing yet.
LEMMA SessionsStart ==
    ASSUME IInv, SessionsInv, NEW r \in Req, Start(r)
    PROVE  SessionsInv'
<1>1. PICK a \in Setups \cup Logins \cup Logouts \cup Changes \cup Updates :
        /\ arg' = [arg EXCEPT ![r] = a]
        /\ Go(r, FirstStep[a.op])
  BY DEF Start
<1>2. pc[r] = "idle" /\ UNCHANGED <<users, sessions, overtaken>>
  BY DEF Start, tables, world
<1>3. FirstStep[a.op] # "l_store"
  BY AsksShaped DEF FirstStep, AllOps
<1>4. \A q \in Req : pc'[q] = "l_store" => pc[q] = "l_store" /\ arg'[q] = arg[q]
  BY <1>1, <1>2, <1>3 DEF IInv, TypeOK, Go
<1>5. QED BY <1>2, <1>4, ComparedKept

\* Whatever overlaps, a session of an old password is alive only when its login
\* was overtaken between comparison and session: auth.ChangePassword deletes
\* every other session that auth.Login stored.
THEOREM SessionsAreCurrent == Spec => []SessionsCurrent
<1>1. Init => SessionsInv
  BY DEF Init, SessionsInv, Compared, AllCurrent
<1>2. IInv /\ SessionsInv /\ [Next]_vars => SessionsInv'
  <2> SUFFICES ASSUME IInv, SessionsInv, [Next]_vars PROVE SessionsInv'  OBVIOUS
  <2>1. CASE Boot
    BY <2>1, ComparedKept DEF Boot, memory
  <2>2. CASE Crash
    <3>1. /\ pc' = [r \in Req |-> IF r \in InFlight THEN "lost" ELSE pc[r]]
          /\ UNCHANGED <<arg, users, sessions, overtaken>>
      BY <2>2 DEF Crash, memory, tables
    <3>2. QED BY <3>1, ComparedKept
  <2>3. ASSUME NEW r \in Req, Start(r) PROVE SessionsInv'
    BY <2>3, SessionsStart
  <2>4. ASSUME NEW r \in Req, Work(r) PROVE SessionsInv'
    BY <2>4, SessionsWork
  <2>5. ASSUME NEW r \in Req, Expire(r) PROVE SessionsInv'
    BY <2>5, ComparedKept DEF Expire, memory, tables
  <2>6. CASE UNCHANGED vars
    BY <2>6, ComparedKept DEF vars, memory, tables, world
  <2>7. QED BY <2>1, <2>2, <2>3, <2>4, <2>5, <2>6 DEF Next
<1>3. SessionsInv => SessionsCurrent
  BY DEF SessionsInv, AllCurrent, SessionsCurrent, LiveSession
<1>4. QED BY Invariance, <1>1, <1>2, <1>3, PTL DEF Spec
=============================================================================
