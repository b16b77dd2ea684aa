------------------------------ MODULE Accounts ------------------------------
(***************************************************************************)
(* Accounts, sessions and e-mailed codes: auth/store.py behind the /auth   *)
(* handlers of main.py.  Every store method is one or more SQLite          *)
(* transactions on worker threads, with a password hash (a fifth of a      *)
(* second) between some of them, so the requests of a worker interleave at *)
(* each await.  A request in progress is a record in calls, and its        *)
(* transactions are the actions below.                                     *)
(*                                                                         *)
(* Passwords are compared as values, hashes, salts and the random codes    *)
(* are not modelled: tokens and codes are numbered as they are issued, and *)
(* a code can be typed once its mail arrived.  A row lapses at any time    *)
(* (Lapse).  The per-address limits of the handlers only refuse a request  *)
(* before it does anything; they are the subject of module Service.        *)
(***************************************************************************)
EXTENDS Naturals, FiniteSets

CONSTANTS
    Ids,           \* account ids: the uuids that may be drawn
    Names,         \* usernames, lower-cased
    Addresses,     \* e-mail addresses, stripped and lower-cased
    NoAddress,     \* the blank address
    Passwords,
    Databases,     \* what the table of accounts may hold when the worker starts
    Slots,         \* requests a worker has in progress at once
    FailureLimit,  \* LOGIN_FAILURES_PER_USER.count
    MaxCalls,      \* bound: requests made in a behaviour
    MaxLapses,     \* bound: rows that lapse in a behaviour
    Nobody         \* no account

VARIABLES
    accounts,   \* rows of the table accounts, by id
    tokens,     \* rows of tokens
    resetCodes, \* rows of reset_codes
    verifyCodes,\* rows of verify_codes
    failures,   \* hits in the window of login-fail:<username>
    calls,      \* what each request in progress has read and is about to do
    inbox,      \* codes whose mail arrived
    issued,     \* tokens and codes drawn so far
    asked,      \* requests made so far
    lapses,     \* rows lapsed so far
    proven,     \* history: <<account, address>> pairs proved by a code mailed there
    resets      \* history: password resets applied to each account

vars == <<accounts, tokens, resetCodes, verifyCodes, failures, calls, inbox, issued,
          asked, lapses, proven, resets>>
mailVars == <<inbox, proven>>
bounds == <<asked, lapses>>

AnyAddress == Addresses \cup {NoAddress}
Row == [name : Names, email : AnyAddress, verified : BOOLEAN, password : Passwords]

\* A session.  Its era is history: how many resets the account had seen when the password
\* that opened it was read.
Token == [id : Nat, who : Ids, era : Nat, lapsed : BOOLEAN]
Code == [id : Nat, who : Ids, to : Addresses, lapsed : BOOLEAN]

\* The table of an earlier worker: one account of a name, and what counts as verified is an
\* address.
Database(table) ==
    /\ DOMAIN table \subseteq Ids
    /\ \A id \in DOMAIN table : table[id] \in Row
                              /\ (table[id].verified => table[id].email # NoAddress)
    /\ \A a, b \in DOMAIN table : table[a].name = table[b].name => a = b

ASSUME AccountsAssumption ==
    /\ FailureLimit \in Nat \ {0}
    /\ NoAddress \notin Addresses
    /\ Nobody \notin Ids
    /\ \A table \in Databases : Database(table)
    /\ IsFiniteSet(Slots) /\ Slots # {}
    /\ MaxCalls \in Nat /\ MaxLapses \in Nat

\* A request: where it is, and the account, name, address, password and code it carries; its
\* era is that of the password it has read.
Steps == {"idle", "register", "open", "fail", "open_new", "verify", "post", "email",
          "email_write", "confirm", "confirm_write", "reset", "reset_write"}
Call == [at : Steps, who : Ids \cup {Nobody}, name : Names \cup {Nobody},
         addr : AnyAddress, password : Passwords \cup {Nobody}, code : Nat, era : Nat]
Idle == [at |-> "idle", who |-> Nobody, name |-> Nobody, addr |-> NoAddress,
         password |-> Nobody, code |-> 0, era |-> 0]

Init ==
    /\ accounts \in Databases
    /\ tokens = {}
    /\ resetCodes = {}
    /\ verifyCodes = {}
    /\ failures = [n \in Names |-> 0]
    /\ calls = [s \in Slots |-> Idle]
    /\ inbox = {}
    /\ issued = 0
    /\ asked = 0
    /\ lapses = 0
    /\ proven = {<<id, accounts[id].email>> : id \in {a \in DOMAIN accounts : accounts[a].verified}}
    /\ resets = [id \in Ids |-> 0]

-----------------------------------------------------------------------------
(* Requests in progress. *)

Ask(s, call) ==
    /\ calls[s] = Idle
    /\ asked < MaxCalls
    /\ asked' = asked + 1
    /\ calls' = [calls EXCEPT ![s] = call]
    /\ UNCHANGED lapses

\* A request answered without a further transaction.
Answered(s) ==
    /\ calls[s] = Idle
    /\ asked < MaxCalls
    /\ asked' = asked + 1
    /\ UNCHANGED <<calls, lapses>>

Goto(s, call) == calls' = [calls EXCEPT ![s] = call]
Done(s) == Goto(s, Idle)

\* resolve: the accounts a live session speaks for; a lapsed row no longer counts.
SignedIn == {t.who : t \in {u \in tokens : ~u.lapsed}}

\* Another statement of the same transaction sweeps what has lapsed.
Swept(rows) == {r \in rows : ~r.lapsed}
Others(rows, who) == {r \in rows : r.who # who}

-----------------------------------------------------------------------------
(* Registration and sessions. *)

FreshIds == Ids \ (DOMAIN accounts \cup {calls[s].who : s \in Slots})
NameTaken(name) == \E id \in DOMAIN accounts : accounts[id].name = name

\* The handler draws the id and starts the hash of the password.
Register(s, name, addr, password) ==
    /\ FreshIds # {}
    /\ Ask(s, [at |-> "register", who |-> CHOOSE id \in FreshIds : TRUE, name |-> name,
               addr |-> addr, password |-> password, code |-> 0, era |-> 0])
    /\ UNCHANGED <<accounts, tokens, resetCodes, verifyCodes, failures, issued, resets>>
    /\ UNCHANGED mailVars

\* The unique index refuses a name another registration inserted meanwhile.
Insertable(c) == ~NameTaken(c.name)

InsertAccount(s) ==
    LET c == calls[s] IN
    /\ c.at = "register"
    /\ IF Insertable(c)
       THEN /\ accounts' = [id \in DOMAIN accounts \cup {c.who} |->
                             IF id = c.who
                             THEN [name |-> c.name, email |-> c.addr, verified |-> FALSE,
                                   password |-> c.password]
                             ELSE accounts[id]]
            /\ Goto(s, [c EXCEPT !.at = "open_new", !.era = resets[c.who]])
       ELSE /\ Done(s)
            /\ UNCHANGED accounts
    /\ UNCHANGED <<tokens, resetCodes, verifyCodes, failures, issued, resets>>
    /\ UNCHANGED <<mailVars, bounds>>

\* blocked: the hits of the window are counted before the password is looked at.
Gate_AtLimit(name) == failures[name] <= FailureLimit
Gate(name) == failures[name] < FailureLimit

\* login: the gate of the failure window, then the row of that name and the hash of
\* what was typed.  No action touches both the window and the accounts, so the gate
\* and the query are one step.  What is compared after the hash is what was read here:
\* a reset applied meanwhile is not seen.
Login(s, name, password) ==
    /\ Gate(name)
    /\ LET right == {id \in DOMAIN accounts : accounts[id].name = name
                                              /\ accounts[id].password = password}
       IN  \/ /\ right = {}
              /\ Ask(s, [Idle EXCEPT !.at = "fail", !.name = name])
           \/ \E id \in right :
                Ask(s, [Idle EXCEPT !.at = "open", !.name = name, !.who = id,
                                    !.era = resets[id]])
    /\ UNCHANGED <<accounts, tokens, resetCodes, verifyCodes, failures, issued, resets>>
    /\ UNCHANGED mailVars

\* _issue: the token's row, and the lapsed rows swept; then the handler of login clears
\* the failures of the name, and the handler of register goes on to mail a code.
Open(s) ==
    LET c == calls[s]
        t == [id |-> issued + 1, who |-> c.who, era |-> c.era, lapsed |-> FALSE]
    IN
    /\ c.at \in {"open", "open_new"}
    /\ tokens' = Swept(tokens) \cup {t}
    /\ issued' = issued + 1
    /\ IF c.at = "open"
       THEN /\ failures' = [failures EXCEPT ![c.name] = 0]
            /\ Done(s)
       ELSE /\ UNCHANGED failures
            /\ Goto(s, [c EXCEPT !.at = "verify"])
    /\ UNCHANGED <<accounts, resetCodes, verifyCodes, resets>>
    /\ UNCHANGED <<mailVars, bounds>>

\* A wrong password is counted when the check comes back.
LoginFails(s) ==
    LET c == calls[s] IN
    /\ c.at = "fail"
    /\ failures' = [failures EXCEPT ![c.name] = @ + 1]
    /\ Done(s)
    /\ UNCHANGED <<accounts, tokens, resetCodes, verifyCodes, issued, resets>>
    /\ UNCHANGED <<mailVars, bounds>>

\* The oldest hit leaves the window.
FailureAges(name) ==
    /\ failures[name] > 0
    /\ failures' = [failures EXCEPT ![name] = @ - 1]
    /\ UNCHANGED <<accounts, tokens, resetCodes, verifyCodes, calls, issued, resets>>
    /\ UNCHANGED <<mailVars, bounds>>

Logout(s, t) ==
    /\ Answered(s)
    /\ tokens' = tokens \ {t}
    /\ UNCHANGED <<accounts, resetCodes, verifyCodes, failures, issued, resets>>
    /\ UNCHANGED mailVars

-----------------------------------------------------------------------------
(* Proving an address. *)

\* start_verification: one outstanding code per account.
Replaced_Kept(codes, code) == Swept(codes) \cup {code}
Replaced(codes, code) == Swept(Others(codes, code.who)) \cup {code}

SendVerification(s) ==
    LET c == calls[s]
        code == [id |-> issued + 1, who |-> c.who, to |-> c.addr, lapsed |-> FALSE]
    IN
    /\ c.at = "verify"
    /\ IF c.addr = NoAddress
       THEN /\ Done(s)
            /\ UNCHANGED <<verifyCodes, issued>>
       ELSE /\ verifyCodes' = Replaced(verifyCodes, code)
            /\ issued' = issued + 1
            /\ Goto(s, [c EXCEPT !.at = "post", !.code = code.id])
    /\ UNCHANGED <<accounts, tokens, resetCodes, failures, resets>>
    /\ UNCHANGED <<mailVars, bounds>>

\* The mail of a code arrives, or its loss is logged and the request answered all the same.
Post(s) ==
    LET c == calls[s] IN
    /\ c.at = "post"
    /\ inbox' \in {inbox, inbox \cup {c.code}}
    /\ Done(s)
    /\ UNCHANGED <<accounts, tokens, resetCodes, verifyCodes, failures, issued, proven, resets>>
    /\ UNCHANGED bounds

ChangeEmail(s, id, addr) ==
    /\ id \in SignedIn
    /\ Ask(s, [Idle EXCEPT !.at = "email", !.who = id, !.addr = addr])
    /\ UNCHANGED <<accounts, tokens, resetCodes, verifyCodes, failures, issued, resets>>
    /\ UNCHANGED mailVars

\* set_email asks whether another account has the address before it opens the
\* transaction: sqlite3 begins one at the first write.
CheckEmail(s) ==
    LET c == calls[s] IN
    /\ c.at = "email"
    /\ IF c.addr # NoAddress /\ \E id \in DOMAIN accounts : id # c.who
                                                           /\ accounts[id].email = c.addr
       THEN Done(s)
       ELSE Goto(s, [c EXCEPT !.at = "email_write"])
    /\ UNCHANGED <<accounts, tokens, resetCodes, verifyCodes, failures, issued, resets>>
    /\ UNCHANGED <<mailVars, bounds>>

Moved(row, addr) == [row EXCEPT !.email = addr, !.verified = FALSE]

SetEmail(s) ==
    LET c == calls[s] IN
    /\ c.at = "email_write"
    /\ accounts' = [accounts EXCEPT ![c.who] = Moved(@, c.addr)]
    /\ verifyCodes' = Others(verifyCodes, c.who)
    /\ Goto(s, [c EXCEPT !.at = "verify"])
    /\ UNCHANGED <<tokens, resetCodes, failures, issued, resets>>
    /\ UNCHANGED <<mailVars, bounds>>

\* The address is the one the session resolved to.
ResendVerification(s, id) ==
    /\ id \in SignedIn
    /\ Ask(s, [Idle EXCEPT !.at = "verify", !.who = id, !.addr = accounts[id].email])
    /\ UNCHANGED <<accounts, tokens, resetCodes, verifyCodes, failures, issued, resets>>
    /\ UNCHANGED mailVars

\* complete_verification: only a code of the account asking; a lapsed one is deleted.
ConfirmVerification(s, id, n) ==
    /\ id \in SignedIn
    /\ LET found == {r \in verifyCodes : r.id = n /\ r.who = id}
       IN  \/ /\ found \subseteq {r \in found : r.lapsed}
              /\ Answered(s)
              /\ verifyCodes' = verifyCodes \ found
           \/ \E r \in Swept(found) :
                /\ Ask(s, [Idle EXCEPT !.at = "confirm_write", !.who = id, !.addr = r.to,
                                       !.code = n])
                /\ UNCHANGED verifyCodes
    /\ UNCHANGED <<accounts, tokens, resetCodes, failures, issued, resets>>
    /\ UNCHANGED mailVars

\* Only if the account still points at the address the code was sent to.
Confirmed_Any(row, addr) == [row EXCEPT !.verified = TRUE]
Confirmed(row, addr) == [row EXCEPT !.verified = @ \/ row.email = addr]

SetVerified(s) ==
    LET c == calls[s] IN
    /\ c.at = "confirm_write"
    /\ accounts' = [accounts EXCEPT ![c.who] = Confirmed(@, c.addr)]
    /\ verifyCodes' = Others(verifyCodes, c.who)
    /\ proven' = proven \cup {<<c.who, c.addr>>}
    /\ Done(s)
    /\ UNCHANGED <<tokens, resetCodes, failures, issued, inbox, resets>>
    /\ UNCHANGED bounds

-----------------------------------------------------------------------------
(* Resetting a password. *)

\* start_reset: an account that has proved the address; of several, whichever SQLite finds.
Resettable(addr) == {id \in DOMAIN accounts : accounts[id].email = addr
                                              /\ accounts[id].verified}

RequestReset(s, addr) ==
    /\ \/ /\ Resettable(addr) = {}
          /\ Answered(s)
       \/ \E id \in Resettable(addr) :
            Ask(s, [Idle EXCEPT !.at = "reset", !.who = id, !.addr = addr])
    /\ UNCHANGED <<accounts, tokens, resetCodes, verifyCodes, failures, issued, resets>>
    /\ UNCHANGED mailVars

SendReset(s) ==
    LET c == calls[s]
        code == [id |-> issued + 1, who |-> c.who, to |-> c.addr, lapsed |-> FALSE]
    IN
    /\ c.at = "reset"
    /\ resetCodes' = Replaced(resetCodes, code)
    /\ issued' = issued + 1
    /\ Goto(s, [c EXCEPT !.at = "post", !.code = code.id])
    /\ UNCHANGED <<accounts, tokens, verifyCodes, failures, resets>>
    /\ UNCHANGED <<mailVars, bounds>>

\* complete_reset looks the code up, deletes it when it has lapsed, and otherwise hashes
\* the new password before it opens another transaction.
ConfirmReset(s, n, password) ==
    /\ LET found == {r \in resetCodes : r.id = n}
       IN  \/ /\ found \subseteq {r \in found : r.lapsed}
              /\ Answered(s)
              /\ resetCodes' = resetCodes \ found
           \/ \E r \in Swept(found) :
                /\ Ask(s, [Idle EXCEPT !.at = "reset_write", !.who = r.who,
                                       !.password = password, !.code = n])
                /\ UNCHANGED resetCodes
    /\ UNCHANGED <<accounts, tokens, verifyCodes, failures, issued, resets>>
    /\ UNCHANGED mailVars

\* Every session of the account ends.
Revoked_None(who) == tokens
Revoked(who) == Others(tokens, who)

SetPassword(s) ==
    LET c == calls[s] IN
    /\ c.at = "reset_write"
    /\ accounts' = [accounts EXCEPT ![c.who].password = c.password]
    /\ resetCodes' = Others(resetCodes, c.who)
    /\ tokens' = Revoked(c.who)
    /\ resets' = [resets EXCEPT ![c.who] = @ + 1]
    /\ Done(s)
    /\ UNCHANGED <<verifyCodes, failures, issued>>
    /\ UNCHANGED <<mailVars, bounds>>

-----------------------------------------------------------------------------
\* The expiry of one row passes; it stays in its table until something sweeps it.
Lapse ==
    /\ lapses < MaxLapses
    /\ lapses' = lapses + 1
    /\ \/ /\ \E t \in Swept(tokens) : tokens' = (tokens \ {t}) \cup {[t EXCEPT !.lapsed = TRUE]}
          /\ UNCHANGED <<resetCodes, verifyCodes>>
       \/ /\ \E r \in Swept(resetCodes) :
               resetCodes' = (resetCodes \ {r}) \cup {[r EXCEPT !.lapsed = TRUE]}
          /\ UNCHANGED <<tokens, verifyCodes>>
       \/ /\ \E r \in Swept(verifyCodes) :
               verifyCodes' = (verifyCodes \ {r}) \cup {[r EXCEPT !.lapsed = TRUE]}
          /\ UNCHANGED <<tokens, resetCodes>>
    /\ UNCHANGED <<accounts, failures, calls, issued, asked, resets>>
    /\ UNCHANGED mailVars

Next ==
    \/ \E s \in Slots :
         \/ \E name \in Names, password \in Passwords :
              \/ \E addr \in AnyAddress : Register(s, name, addr, password)
              \/ Login(s, name, password)
         \/ InsertAccount(s) \/ Open(s) \/ LoginFails(s)
         \/ \E t \in tokens : Logout(s, t)
         \/ SendVerification(s) \/ Post(s)
         \/ \E id \in DOMAIN accounts :
              \/ \E addr \in AnyAddress : ChangeEmail(s, id, addr)
              \/ ResendVerification(s, id)
              \/ \E n \in inbox : ConfirmVerification(s, id, n)
         \/ CheckEmail(s) \/ SetEmail(s) \/ SetVerified(s)
         \/ \E addr \in Addresses : RequestReset(s, addr)
         \/ \E n \in inbox, password \in Passwords : ConfirmReset(s, n, password)
         \/ SendReset(s) \/ SetPassword(s)
    \/ \E name \in Names : FailureAges(name)
    \/ Lapse

Spec == Init /\ [][Next]_vars

-----------------------------------------------------------------------------
(* Properties. *)

\* The tables hang together: the types; two registrations racing on one name, with a hash
\* between asking and inserting, leave one account of it; asking again replaces the code
\* outstanding, also when requests overlap.
TypeOK ==
    /\ DOMAIN accounts \subseteq Ids
    /\ \A id \in DOMAIN accounts : accounts[id] \in Row
    /\ tokens \subseteq Token
    /\ resetCodes \subseteq Code
    /\ verifyCodes \subseteq Code
    /\ failures \in [Names -> Nat]
    /\ calls \in [Slots -> Call]
    /\ inbox \subseteq 1..issued
    /\ issued \in Nat
    /\ asked \in 0..MaxCalls
    /\ lapses \in 0..MaxLapses
    /\ proven \subseteq Ids \X Addresses
    /\ resets \in [Ids -> Nat]
OneHolderPerName ==
    \A a, b \in DOMAIN accounts : accounts[a].name = accounts[b].name => a = b
OneCodeEach ==
    \A codes \in {resetCodes, verifyCodes} :
        \A r1, r2 \in codes : r1.who = r2.who => r1 = r2
TablesInv == TypeOK /\ OneHolderPerName /\ OneCodeEach

\* An account whose address counts as verified entered a code mailed to that very address,
\* and a reset code goes to an address its account has proved at some time, whatever
\* changes of address, re-sent codes and late confirmations overlapped.
AddressesProven ==
    /\ \A id \in DOMAIN accounts :
          accounts[id].verified => <<id, accounts[id].email>> \in proven
    /\ \A r \in resetCodes : <<r.who, r.to>> \in proven

\* A reset ends the sessions opened with the password it replaces, but for logins (and a
\* registration) that had read it and were still to insert their token: those outlive it.
\* However many resets, logins and lapses overlap, they are never more than the requests in
\* progress beside the reset: each reset ends those that outlived the ones before.
Outlived(who) == {t \in tokens : t.who = who /\ t.era # resets[who]}
FewOutliveReset == \A who \in Ids : Cardinality(Outlived(who)) < Cardinality(Slots)

\* Attempts overlapping the check of the failure window can pass it together, but they
\* overshoot the limit by no more than the requests in progress beside the first.
FailuresNearLimit ==
    \A name \in Names : failures[name] < FailureLimit + Cardinality(Slots)
=============================================================================
