------------------------------ MODULE Accounts ------------------------------
(***************************************************************************)
(* The administrator's account, the web sessions and the OPDS settings     *)
(* (internal/auth, internal/settings and their handlers): the first        *)
(* initialisation, logging in and out, changing the password, changing the *)
(* OPDS settings, and what EnsureExistingInstall does when the server      *)
(* starts on the database of a version that had no settings yet.           *)
(*                                                                         *)
(* Handlers run at the same time over one SQLite database.  A step is one  *)
(* query or one transaction with the checks the code makes on what it has  *)
(* read.  A bcrypt hash is the password it was made from, a token is the   *)
(* login that issued it.                                                   *)
(***************************************************************************)
EXTENDS Naturals, FiniteSets

CONSTANTS
    Req,           \* requests, each handled once
    Name,          \* user names
    Password,      \* passwords of 12 characters or more
    Inputs,        \* the OPDS settings that clients send
    OldNames,      \* users that installations of before may have
    Ops,           \* the operations clients use
    MaxInFlight,   \* requests that run at once
    MaxCrashes,    \* times the server stops
    None           \* no password, no row, no argument

Mode    == {"disabled", "https_only", "http_and_https"}
Input   == [enabled : BOOLEAN, mode : Mode, confirm : BOOLEAN,
            password : Password \cup {None}]
Setting == [enabled : BOOLEAN, mode : Mode, hash : Password \cup {None}]
Session == [user : Name, password : Password]

\* OPDS_ENABLED, OPDS_ACCESS_MODE, OPDS_USERNAME (set or not), OPDS_PASSWORD.
Defaults == [enabled : BOOLEAN, mode : Mode, named : BOOLEAN,
             password : Password \cup {None}]

AllOps == {"setup", "login", "logout", "change", "settings"}

ASSUME InputsAssumption == Inputs \subseteq Input /\ OldNames \subseteq Name
ASSUME AccountOpsAssumption == Ops \subseteq AllOps
ASSUME AccountBounds == MaxInFlight \in Nat /\ MaxCrashes \in Nat
ASSUME NoneIsNothing ==
    None \notin Req \cup Name \cup Password \cup Input \cup Setting \cup Session

VARIABLES
    pc,         \* pc[r]: the next step of request r, or how it ended
    arg,        \* arg[r]: what the request asks for
    user,       \* user[r]: the user the request is about
    hash,       \* hash[r]: the password hash it last read
    draft,      \* draft[r]: the settings row it is about to save
    users,      \* users[n]: the password hash of user n, None without a row
    sessions,   \* sessions[t]: the row of token t and the password it took
    expired,    \* the tokens whose time is over
    setting,    \* the row of system_settings
    up,         \* the server runs
    crashes,    \* times it has stopped
    overtaken   \* history: logins that stood between comparison and session
                \* when the password of their user changed

memory == <<arg, user, hash, draft>>
tables == <<users, sessions, setting>>
world  == <<expired, up, crashes, overtaken>>
vars   == <<pc, memory, tables, world>>

Running  == {"s_count", "s_tx", "l_find", "l_store", "a_session", "a_user",
             "c_find", "c_tx", "o_current", "o_save", "x_delete"}
Ended    == {"ok", "error", "lost"}
InFlight == {r \in Req : pc[r] \in Running}

\* RequireUser comes before the handlers of these.
FirstStep ==
    [o \in AllOps |-> CASE o = "setup" -> "s_count"
                        [] o = "login" -> "l_find"
                        [] OTHER       -> "a_session"]
Handler ==
    [o \in {"logout", "change", "settings"} |->
        CASE o = "logout"   -> "x_delete"
          [] o = "change"   -> "c_find"
          [] o = "settings" -> "o_current"]

NoArg == [op |-> None, name |-> None, password |-> None, new |-> None,
          token |-> None, input |-> None]

Arg == [op : AllOps \cup {None}, name : Name \cup {None},
        password : Password \cup {None}, new : Password \cup {None},
        token : Req \cup {None}, input : Input \cup {None}]

Accounted == {n \in Name : users[n] # None}

-----------------------------------------------------------------------------
Go(r, l) == pc' = [pc EXCEPT ![r] = l]

\* A check that does not hold, or a statement that fails: nothing is written.
Refuse(r) == Go(r, "error") /\ UNCHANGED <<memory, tables, world>>

(* settings.normalizeMode and settings.validatedSetting.  The OPDS user    *)
(* name and the public address are checked too, which is one more reason   *)
(* to refuse.                                                              *)
NormalizeMode(mode, enabled) ==
    CASE ~enabled -> "disabled"
      [] enabled /\ mode # "disabled" -> mode
      [] OTHER -> "https_only"

NewHash(in, existing) == IF in.password # None THEN in.password ELSE existing

\* Mutant: the warning about HTTP need not be confirmed.
AcceptableUnconfirmed(in, existing) == in.enabled => NewHash(in, existing) # None

Acceptable(in, existing) ==
    /\ NormalizeMode(in.mode, in.enabled) = "http_and_https" => in.confirm
    /\ in.enabled => NewHash(in, existing) # None

Validated(in, existing) ==
    [enabled |-> in.enabled, mode |-> NormalizeMode(in.mode, in.enabled),
     hash |-> NewHash(in, existing)]

-----------------------------------------------------------------------------
(* settings.Initialize.                                                    *)

SCount(r) ==
    /\ pc[r] = "s_count"
    /\ \/ /\ Accounted = {}
          /\ arg[r].input.enabled => arg[r].input.password # arg[r].password
          /\ Acceptable(arg[r].input, None)
          /\ Go(r, "s_tx")
          /\ UNCHANGED <<memory, tables, world>>
       \/ Refuse(r)

\* Mutant: the settings are saved, not inserted.
STxSaves(r) ==
    /\ pc[r] = "s_tx"
    /\ users[arg[r].name] = None
    /\ users' = [users EXCEPT ![arg[r].name] = arg[r].password]
    /\ setting' = Validated(arg[r].input, None)
    /\ Go(r, "ok")
    /\ UNCHANGED <<memory, sessions, world>>

\* Mutant: the user is committed before the settings are inserted, which fails.
STxUserOnly(r) ==
    /\ pc[r] = "s_tx"
    /\ users[arg[r].name] = None
    /\ users' = [users EXCEPT ![arg[r].name] = arg[r].password]
    /\ Go(r, "error")
    /\ UNCHANGED <<memory, sessions, setting, world>>

\* One transaction: the user name is unique, and the settings have id 1.
STx(r) ==
    /\ pc[r] = "s_tx"
    /\ \/ /\ users[arg[r].name] = None
          /\ setting = None
          /\ users' = [users EXCEPT ![arg[r].name] = arg[r].password]
          /\ setting' = Validated(arg[r].input, None)
          /\ Go(r, "ok")
          /\ UNCHANGED <<memory, sessions, world>>
       \/ Refuse(r)

-----------------------------------------------------------------------------
(* auth.Login, auth.UserForToken (RequireUser) and auth.Logout.            *)

LFind(r) ==
    /\ pc[r] = "l_find"
    /\ \/ /\ arg[r].name \in Accounted
          /\ users[arg[r].name] = arg[r].password
          /\ Go(r, "l_store")
          /\ UNCHANGED <<memory, tables, world>>
       \/ Refuse(r)

LStore(r) ==
    /\ pc[r] = "l_store"
    /\ \/ /\ sessions' = [sessions EXCEPT ![r] =
                            [user |-> arg[r].name, password |-> arg[r].password]]
          /\ Go(r, "ok")
          /\ UNCHANGED <<memory, users, setting, world>>
       \/ Refuse(r)

LiveSession(t) == sessions[t] # None /\ t \notin expired

ASession(r) ==
    /\ pc[r] = "a_session"
    /\ \/ /\ LiveSession(arg[r].token)
          /\ user' = [user EXCEPT ![r] = sessions[arg[r].token].user]
          /\ Go(r, "a_user")
          /\ UNCHANGED <<arg, hash, draft, tables, world>>
       \/ Refuse(r)

AUser(r) ==
    /\ pc[r] = "a_user"
    /\ \/ /\ user[r] \in Accounted
          /\ hash' = [hash EXCEPT ![r] = users[user[r]]]
          /\ Go(r, Handler[arg[r].op])
          /\ UNCHANGED <<arg, user, draft, tables, world>>
       \/ Refuse(r)

XDelete(r) ==
    /\ pc[r] = "x_delete"
    /\ \/ /\ sessions' = [sessions EXCEPT ![arg[r].token] = None]
          /\ Go(r, "ok")
          /\ UNCHANGED <<memory, users, setting, world>>
       \/ Refuse(r)

-----------------------------------------------------------------------------
(* auth.ChangePassword.                                                    *)

CFind(r) ==
    /\ pc[r] = "c_find"
    /\ \/ /\ user[r] \in Accounted
          /\ users[user[r]] = arg[r].password
          /\ Go(r, "c_tx")
          /\ UNCHANGED <<memory, tables, world>>
       \/ Refuse(r)

\* The password of user n changes beside them.
Overtake(n) ==
    overtaken' = overtaken \cup
                    {q \in Req : pc[q] = "l_store" /\ arg[q].name = n}

\* Mutant: only the session of the request is deleted.
CTxOwnSession(r) ==
    /\ pc[r] = "c_tx"
    /\ users' = [users EXCEPT ![user[r]] = arg[r].new]
    /\ sessions' = [sessions EXCEPT ![arg[r].token] = None]
    /\ Overtake(user[r])
    /\ Go(r, "ok")
    /\ UNCHANGED <<memory, setting, expired, up, crashes>>

CTx(r) ==
    /\ pc[r] = "c_tx"
    /\ \/ /\ users' = [users EXCEPT ![user[r]] = arg[r].new]
          /\ sessions' = [t \in Req |->
                            IF sessions[t] # None /\ sessions[t].user = user[r]
                            THEN None ELSE sessions[t]]
          /\ Overtake(user[r])
          /\ Go(r, "ok")
          /\ UNCHANGED <<memory, setting, expired, up, crashes>>
       \/ Refuse(r)

-----------------------------------------------------------------------------
(* settings.Update: the password is compared with the hash RequireUser     *)
(* read, and the whole row is saved.                                       *)

OCurrent(r) ==
    LET in == arg[r].input IN
    /\ pc[r] = "o_current"
    /\ \/ /\ setting # None
          /\ in.password # None => in.password # hash[r]
          /\ Acceptable(in, setting.hash)
          /\ draft' = [draft EXCEPT ![r] = Validated(in, setting.hash)]
          /\ Go(r, "o_save")
          /\ UNCHANGED <<arg, user, hash, tables, world>>
       \/ Refuse(r)

OSave(r) ==
    /\ pc[r] = "o_save"
    /\ \/ /\ setting' = draft[r]
          /\ Go(r, "ok")
          /\ UNCHANGED <<memory, users, sessions, world>>
       \/ Refuse(r)

-----------------------------------------------------------------------------
(* settings.EnsureExistingInstall, before the server listens.              *)

DefaultSetting(d) ==
    IF d.enabled /\ (~d.named \/ d.password = None)
    THEN [enabled |-> FALSE, mode |-> "disabled", hash |-> None]
    ELSE [enabled |-> d.enabled, mode |-> NormalizeMode(d.mode, d.enabled),
          hash |-> d.password]

Boot ==
    /\ ~up
    /\ up' = TRUE
    /\ IF Accounted # {} /\ setting = None
       THEN \E d \in Defaults : setting' = DefaultSetting(d)
       ELSE UNCHANGED setting
    /\ UNCHANGED <<pc, memory, users, sessions, expired, crashes, overtaken>>

Crash ==
    /\ up
    /\ crashes < MaxCrashes
    /\ crashes' = crashes + 1
    /\ up' = FALSE
    /\ pc' = [r \in Req |-> IF r \in InFlight THEN "lost" ELSE pc[r]]
    /\ UNCHANGED <<memory, tables, expired, overtaken>>

Expire(t) ==
    /\ LiveSession(t)
    /\ expired' = expired \cup {t}
    /\ UNCHANGED <<pc, memory, tables, up, crashes, overtaken>>

-----------------------------------------------------------------------------
(* Clients.  A token is one that a login has answered with.                *)

Tokens == {t \in Req : arg[t].op = "login" /\ pc[t] = "ok"}

Setups  == [op : {"setup"}, name : Name, password : Password, new : {None},
            token : {None}, input : Inputs]
Logins  == [op : {"login"}, name : Name, password : Password, new : {None},
            token : {None}, input : {None}]
Logouts == [op : {"logout"}, name : {None}, password : {None}, new : {None},
            token : Tokens, input : {None}]
Changes == [op : {"change"}, name : {None}, password : Password, new : Password,
            token : Tokens, input : {None}]
Updates == [op : {"settings"}, name : {None}, password : {None}, new : {None},
            token : Tokens, input : Inputs]

Start(r) ==
    /\ up
    /\ pc[r] = "idle"
    /\ Cardinality(InFlight) < MaxInFlight
    /\ \E a \in Setups \cup Logins \cup Logouts \cup Changes \cup Updates :
          /\ a.op \in Ops
          /\ arg' = [arg EXCEPT ![r] = a]
          /\ Go(r, FirstStep[a.op])
    /\ UNCHANGED <<user, hash, draft, tables, world>>

Work(r) ==
    \/ SCount(r) \/ STx(r) \/ LFind(r) \/ LStore(r) \/ ASession(r) \/ AUser(r)
    \/ XDelete(r) \/ CFind(r) \/ CTx(r) \/ OCurrent(r) \/ OSave(r)

\* A new installation, or one from before there were settings.
Init ==
    /\ pc = [r \in Req |-> "idle"]
    /\ arg = [r \in Req |-> NoArg]
    /\ user = [r \in Req |-> None]
    /\ hash = [r \in Req |-> None]
    /\ draft = [r \in Req |-> None]
    /\ \/ users = [n \in Name |-> None]
       \/ \E m \in OldNames, p \in Password :
             users = [n \in Name |-> IF n = m THEN p ELSE None]
    /\ sessions = [t \in Req |-> None]
    /\ expired = {}
    /\ setting = None
    /\ up = FALSE
    /\ crashes = 0
    /\ overtaken = {}

Next ==
    \/ Boot \/ Crash
    \/ \E r \in Req : Start(r) \/ Work(r) \/ Expire(r)

Spec == Init /\ [][Next]_vars

-----------------------------------------------------------------------------
\* Every variable has its type; a row of the settings has one of the three modes.
TypeOK ==
    /\ pc \in [Req -> Running \cup Ended \cup {"idle"}]
    /\ arg \in [Req -> Arg]
    /\ user \in [Req -> Name \cup {None}]
    /\ hash \in [Req -> Password \cup {None}]
    /\ draft \in [Req -> Setting \cup {None}]
    /\ users \in [Name -> Password \cup {None}]
    /\ sessions \in [Req -> Session \cup {None}]
    /\ expired \subseteq Req
    /\ setting \in Setting \cup {None}
    /\ up \in BOOLEAN
    /\ crashes \in 0..MaxCrashes
    /\ overtaken \subseteq Req

\* There is one administrator, however many initialisations race past the
\* count of the users.
OneAdmin == \A m, n \in Accounted : m = n

\* A server that runs has settings exactly when it has an administrator, so
\* that nothing ever falls back on the environment again.
Initialised == up => (setting # None <=> Accounted # {})

\* OPDS is never open without a password, and open to plain HTTP only when
\* somebody confirmed the warning, or the environment of an installation that
\* was never set up by a request asked for it.
SettingsSound ==
    setting # None =>
        /\ setting.enabled => setting.hash # None
        /\ setting.enabled <=> setting.mode # "disabled"
        /\ setting.mode = "http_and_https" =>
              \/ \E r \in Req : /\ pc[r] = "ok"
                                /\ arg[r].op \in {"setup", "settings"}
                                /\ arg[r].input.confirm
              \/ \A r \in Req : ~(pc[r] = "ok" /\ arg[r].op = "setup")

\* A session that is still good was opened with the password of today: a
\* password change ends all sessions of the old one, those that other requests
\* open and use beside it too.  The one exception is the login that had
\* compared its password and not yet stored its session when the change
\* committed: auth.Login compares and stores apart (service.go:64 and 72), and
\* its session of the old password lives on.  No other session does.
SessionsCurrent ==
    \A t \in Req :
        LiveSession(t) => \/ sessions[t].password = users[sessions[t].user]
                          \/ t \in overtaken

-----------------------------------------------------------------------------
(* The inductive invariant behind the properties of overlapping requests.  *)

\* What a request carries fits the steps it takes.
SetupSteps    == {"s_count", "s_tx"}
LoginSteps    == {"l_find", "l_store"}
ChangeSteps   == {"c_find", "c_tx"}
SettingsSteps == {"o_current", "o_save"}
Shapes ==
    \A r \in Req :
        /\ pc[r] \in SetupSteps =>
              /\ arg[r].op = "setup"
              /\ arg[r].name \in Name /\ arg[r].password \in Password
              /\ arg[r].input \in Input
        /\ pc[r] \in LoginSteps =>
              /\ arg[r].op = "login"
              /\ arg[r].name \in Name /\ arg[r].password \in Password
        /\ pc[r] = "x_delete" => arg[r].op = "logout" /\ arg[r].token \in Req
        /\ pc[r] \in {"a_session", "a_user"} => arg[r].token \in Req
        /\ pc[r] \in {"a_session", "a_user"} =>
              arg[r].op \in {"logout", "change", "settings"}
        /\ pc[r] \in {"a_session", "a_user"} /\ arg[r].op = "change" =>
              arg[r].new \in Password
        /\ pc[r] \in {"a_session", "a_user"} /\ arg[r].op = "settings" =>
              arg[r].input \in Input
        /\ pc[r] \in ChangeSteps =>
              /\ arg[r].op = "change"
              /\ arg[r].new \in Password /\ user[r] \in Accounted
        /\ pc[r] \in SettingsSteps =>
              arg[r].op = "settings" /\ arg[r].input \in Input

\* A row of settings that validatedSetting or the default made.
Sound(row) ==
    /\ row \in Setting
    /\ row.enabled => row.hash # None
    /\ row.enabled <=> row.mode # "disabled"

SetUp == \E r \in Req : pc[r] = "ok" /\ arg[r].op = "setup"

\* Only a server that has no administrator lets one be made, and the settings
\* come and stay with the administrator.
Installed ==
    /\ setting # None => Accounted # {}
    /\ up /\ setting = None => Accounted = {}
    /\ SetUp => setting # None
    /\ \A r \in Req : pc[r] \in Running => up

Drafts ==
    \A r \in Req :
        /\ pc[r] = "s_tx" => Acceptable(arg[r].input, None)
        /\ pc[r] = "o_save" =>
              /\ setting # None
              /\ Sound(draft[r])
              /\ draft[r].mode = "http_and_https" => arg[r].input.confirm

Settings ==
    setting # None =>
        /\ Sound(setting)
        /\ setting.mode = "http_and_https" =>
              \/ ~SetUp
              \/ \E r \in Req : /\ pc[r] = "ok"
                                /\ arg[r].op \in {"setup", "settings"}
                                /\ arg[r].input.confirm

\* The whole of it: what a transaction finds of what its handler checked before.
IInv == TypeOK /\ Shapes /\ OneAdmin /\ Installed /\ Drafts /\ Settings

\* Why sessions are current: a login that is about to store its session holds
\* the password of today or was overtaken, and a change leaves no session of
\* its user, expired or not.
Compared ==
    \A r \in Req :
        pc[r] = "l_store" => \/ users[arg[r].name] = arg[r].password
                             \/ r \in overtaken

AllCurrent ==
    \A t \in Req :
        sessions[t] # None => \/ sessions[t].password = users[sessions[t].user]
                              \/ t \in overtaken

SessionsInv == Compared /\ AllCurrent
=============================================================================
