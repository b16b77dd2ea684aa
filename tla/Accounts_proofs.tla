--------------------------- MODULE Accounts_proofs ---------------------------
(***************************************************************************)
(* Proofs about Accounts: the tables hang together, addresses are proved   *)
(* before they count, a reset is outlived by fewer sessions than there are *)
(* requests in progress, and overlapping attempts overshoot the failure    *)
(* limit by at most the requests beside the first.                         *)
(***************************************************************************)
EXTENDS Accounts, FiniteSetTheorems, TLAPS

(* What a request in progress carries, as far as the transaction it is      *)
(* about to run relies on it.                                               *)
CallOK(c) ==
    /\ c \in Call
    /\ c.at \notin {"idle", "fail"} => c.who \in Ids
    /\ c.at = "register" => c.name \in Names /\ c.password \in Passwords
    /\ c.at \in {"open", "fail"} => c.name \in Names
    /\ c.at = "reset_write" => c.password \in Passwords
    /\ c.at = "confirm_write" => c.addr \in Addresses
    /\ c.at = "post" => c.code \in 1..issued
    /\ c.at = "reset" => c.addr \in Addresses /\ <<c.who, c.addr>> \in proven

CallsInv == \A s \in Slots : CallOK(calls[s])

(* Wrong passwords that have been found and not yet counted.                *)
Pending(name) == {s \in Slots : calls[s].at = "fail" /\ calls[s].name = name}

FailuresBudget ==
    \A name \in Names :
        failures[name] + Cardinality(Pending(name)) <= FailureLimit - 1 + Cardinality(Slots)

Typed == TypeOK /\ CallsInv

(* Logins, and registrations, whose password a reset has replaced and whose *)
(* token is still to be inserted.                                           *)
Late(who) ==
    {s \in Slots : calls[s].at \in {"open", "open_new"} /\ calls[s].who = who
                   /\ calls[s].era # resets[who]}

(* Sessions that outlived a reset and those about to share one budget.      *)
ResetBudget ==
    \A who \in Ids :
        /\ IsFiniteSet(Outlived(who))
        /\ Cardinality(Outlived(who)) + Cardinality(Late(who)) < Cardinality(Slots)

IInv == TablesInv /\ AddressesProven /\ ResetBudget /\ CallsInv /\ FailuresBudget

-----------------------------------------------------------------------------
(* Types, and what the calls carry. *)

LEMMA IdleOK == CallOK(Idle) /\ CallOK(Idle)'
BY AccountsAssumption DEF CallOK, Call, Idle, Steps, AnyAddress

(* A step that only moves one call, to one that is sound, keeps them all.   *)
LEMMA GotoOK ==
    ASSUME Typed, NEW s \in Slots, NEW c, CallOK(c)', calls' = [calls EXCEPT ![s] = c],
           issued' \in Nat, issued <= issued', proven \subseteq proven'
    PROVE  calls' \in [Slots -> Call] /\ CallsInv'
<1>1. c \in Call BY DEF CallOK
<1>2. calls' \in [Slots -> Call] BY <1>1 DEF Typed, TypeOK
<1>3. ASSUME NEW t \in Slots PROVE CallOK(calls[t])'
  <2>1. CASE t = s BY <2>1 DEF Typed, TypeOK
  <2>2. CASE t # s
    <3>1. calls'[t] = calls[t] BY <2>2 DEF Typed, TypeOK
    <3>2. CallOK(calls[t]) BY DEF Typed, CallsInv
    <3>3. issued \in Nat BY DEF Typed, TypeOK
    <3> QED BY <3>1, <3>2, <3>3 DEF CallOK
  <2> QED BY <2>1, <2>2
<1> QED BY <1>2, <1>3 DEF CallsInv

LEMMA DoneOK ==
    ASSUME Typed, NEW s \in Slots, Done(s),
           issued' \in Nat, issued <= issued', proven \subseteq proven'
    PROVE  calls' \in [Slots -> Call] /\ CallsInv'
BY IdleOK, GotoOK DEF Done, Goto

(* Going on to a transaction that relies on the account only.               *)
LEMMA MovedOn ==
    ASSUME NEW c, CallOK(c), c.at \notin {"idle", "fail"},
           NEW at \in {"verify", "email_write"}, NEW d, d = [c EXCEPT !.at = at]
    PROVE  CallOK(d)'
<1>1. c \in Call /\ c.who \in Ids BY DEF CallOK
<1>2. d \in Call BY <1>1 DEF Call, Steps
<1>3. d.at = at /\ d.who = c.who BY <1>1 DEF Call
<1> QED BY <1>1, <1>2, <1>3 DEF CallOK

(* Waiting for the mail of the code drawn last.                             *)
LEMMA PostOK ==
    ASSUME NEW c, CallOK(c), c.at \in {"verify", "reset"}, issued \in Nat, issued' = issued + 1,
           NEW d, d = [c EXCEPT !.at = "post", !.code = issued + 1]
    PROVE  CallOK(d)'
<1>1. c \in Call /\ c.who \in Ids BY DEF CallOK
<1>5. c = [at |-> c.at, who |-> c.who, name |-> c.name, addr |-> c.addr,
           password |-> c.password, code |-> c.code, era |-> c.era]
  BY <1>1 DEF Call
<1>6. d = [at |-> "post", who |-> c.who, name |-> c.name, addr |-> c.addr,
           password |-> c.password, code |-> issued + 1, era |-> c.era]
  BY <1>5
<1>2. d \in Call BY <1>1, <1>6 DEF Call, Steps
<1>3. d.at = "post" /\ d.who = c.who /\ d.code = issued + 1 BY <1>1 DEF Call
<1>4. d.code \in 1..issued' BY <1>3
<1> QED BY <1>1, <1>2, <1>3, <1>4 DEF CallOK

(* A step that moves no call keeps them too.                                *)
LEMMA StayOK ==
    ASSUME Typed, UNCHANGED <<calls, issued, proven>>
    PROVE  calls' \in [Slots -> Call] /\ CallsInv'
BY DEF Typed, TypeOK, CallsInv, CallOK

(* A request that starts a call, or is answered at once.                    *)
LEMMA AskOK ==
    ASSUME Typed, NEW s \in Slots, NEW c, CallOK(c)', Ask(s, c), UNCHANGED <<issued, proven>>
    PROVE  /\ calls' \in [Slots -> Call] /\ CallsInv'
           /\ asked' \in 0..MaxCalls /\ lapses' \in 0..MaxLapses
<1>1. calls' = [calls EXCEPT ![s] = c] /\ asked' = asked + 1 /\ asked < MaxCalls /\ lapses' = lapses
  BY DEF Ask
<1>2. issued' \in Nat /\ issued <= issued' /\ proven \subseteq proven' BY DEF Typed, TypeOK
<1>3. calls' \in [Slots -> Call] /\ CallsInv' BY <1>1, <1>2, GotoOK
<1> QED BY <1>1, <1>3, AccountsAssumption DEF Typed, TypeOK

LEMMA AnsweredOK ==
    ASSUME Typed, NEW s \in Slots, Answered(s), UNCHANGED <<issued, proven>>
    PROVE  /\ calls' \in [Slots -> Call] /\ CallsInv'
           /\ asked' \in 0..MaxCalls /\ lapses' \in 0..MaxLapses
<1>1. calls' \in [Slots -> Call] /\ CallsInv' BY StayOK DEF Answered
<1> QED BY <1>1, AccountsAssumption DEF Typed, TypeOK, Answered

LEMMA RegisterTyped ==
    ASSUME Typed, NEW s \in Slots, NEW name \in Names, NEW addr \in AnyAddress,
           NEW password \in Passwords, Register(s, name, addr, password)
    PROVE  Typed'
<1>1. PICK w \in Ids : w = CHOOSE id \in FreshIds : TRUE BY DEF Register, FreshIds
<1> DEFINE c == [at |-> "register", who |-> w, name |-> name, addr |-> addr,
                 password |-> password, code |-> 0, era |-> 0]
<1>2. CallOK(c)' BY DEF CallOK, Call, Steps
<1>3. Ask(s, c) BY <1>1 DEF Register
<1>4. UNCHANGED <<accounts, tokens, resetCodes, verifyCodes, failures, issued, resets, inbox, proven>>
  BY DEF Register, mailVars
<1> HIDE DEF c
<1>5. /\ calls' \in [Slots -> Call] /\ CallsInv'
      /\ asked' \in 0..MaxCalls /\ lapses' \in 0..MaxLapses
  BY <1>2, <1>3, <1>4, AskOK
<1> QED BY <1>4, <1>5 DEF Typed, TypeOK

LEMMA InsertTyped ==
    ASSUME Typed, NEW s \in Slots, InsertAccount(s)
    PROVE  Typed'
<1>0. PICK c : c = calls[s] OBVIOUS
<1>1. c.at = "register" /\ CallOK(c) BY <1>0 DEF InsertAccount, Typed, CallsInv
<1>2. UNCHANGED <<tokens, resetCodes, verifyCodes, failures, issued, asked, lapses, resets, inbox, proven>>
  BY DEF InsertAccount, mailVars, bounds
<1>3. issued' \in Nat /\ issued <= issued' /\ proven \subseteq proven' BY <1>2 DEF Typed, TypeOK
<1>4. CASE Insertable(c)
  <2>1. DOMAIN accounts' = DOMAIN accounts \cup {c.who}
        /\ \A id \in DOMAIN accounts \cup {c.who} : accounts'[id] =
              IF id = c.who
              THEN [name |-> c.name, email |-> c.addr, verified |-> FALSE, password |-> c.password]
              ELSE accounts[id]
    BY <1>0, <1>4 DEF InsertAccount
  <2>2. /\ c.who \in Ids /\ c.name \in Names /\ c.addr \in AnyAddress /\ c.password \in Passwords
    BY <1>1 DEF CallOK, Call
  <2> DEFINE row == [name |-> c.name, email |-> c.addr, verified |-> FALSE, password |-> c.password]
  <2>7. row \in Row BY <2>2 DEF Row
  <2>8. DOMAIN accounts \subseteq Ids /\ \A id \in DOMAIN accounts : accounts[id] \in Row
    BY DEF Typed, TypeOK
  <2>3. DOMAIN accounts' \subseteq Ids /\ \A id \in DOMAIN accounts' : accounts'[id] \in Row
    <3> HIDE DEF row
    <3>1. \A id \in DOMAIN accounts' : accounts'[id] = IF id = c.who THEN row ELSE accounts[id]
      BY <2>1 DEF row
    <3> QED BY <2>1, <2>2, <2>7, <2>8, <3>1
  <2>0. PICK d : d = [c EXCEPT !.at = "open_new", !.era = resets[c.who]] OBVIOUS
  <2>4. calls' = [calls EXCEPT ![s] = d]
    BY <1>0, <1>4, <2>0 DEF InsertAccount, Goto
  <2>5. CallOK(d)'
    <3>1. c \in Call /\ resets[c.who] \in Nat BY <1>1, <2>2 DEF CallOK, Typed, TypeOK
    <3>2. d \in Call BY <2>0, <3>1 DEF Call, Steps
    <3>3. d.at = "open_new" /\ d.who = c.who BY <2>0, <3>1 DEF Call
    <3> QED BY <2>2, <3>2, <3>3 DEF CallOK
  <2>6. calls' \in [Slots -> Call] /\ CallsInv' BY <1>3, <2>4, <2>5, GotoOK
  <2> QED BY <1>2, <2>3, <2>6 DEF Typed, TypeOK
<1>5. CASE ~Insertable(c)
  <2>1. Done(s) /\ accounts' = accounts BY <1>0, <1>5 DEF InsertAccount
  <2>2. calls' \in [Slots -> Call] /\ CallsInv' BY <1>2, <1>3, <2>1, DoneOK
  <2> QED BY <1>2, <2>1, <2>2 DEF Typed, TypeOK
<1> QED BY <1>4, <1>5

(* A login that goes on found an account, in its present era.               *)
LEMMA LoginAsks ==
    ASSUME Typed, NEW s \in Slots, NEW name \in Names, NEW password \in Passwords,
           Login(s, name, password)
    PROVE  \E c : /\ CallOK(c)' /\ Ask(s, c) /\ c.name = name /\ c.at \in {"fail", "open"}
                  /\ c.at = "open" => c.era = resets[c.who]
<1>1. CASE Ask(s, [Idle EXCEPT !.at = "fail", !.name = name])
  <2>1. PICK c : c = [Idle EXCEPT !.at = "fail", !.name = name] OBVIOUS
  <2>2. CallOK(c)' /\ c.at = "fail" /\ c.name = name
    BY <2>1 DEF CallOK, Call, Steps, Idle, AnyAddress
  <2> QED BY <1>1, <2>1, <2>2
<1>2. ASSUME NEW id \in DOMAIN accounts,
             Ask(s, [Idle EXCEPT !.at = "open", !.name = name, !.who = id, !.era = resets[id]])
      PROVE  \E c : /\ CallOK(c)' /\ Ask(s, c) /\ c.name = name /\ c.at \in {"fail", "open"}
                    /\ c.at = "open" => c.era = resets[c.who]
  <2>1. PICK c : c = [Idle EXCEPT !.at = "open", !.name = name, !.who = id, !.era = resets[id]]
    OBVIOUS
  <2>2. id \in Ids /\ resets[id] \in Nat BY DEF Typed, TypeOK
  <2>3. CallOK(c)' /\ c.at = "open" /\ c.name = name /\ c.who = id /\ c.era = resets[id]
    BY <2>1, <2>2 DEF CallOK, Call, Steps, Idle, AnyAddress
  <2> QED BY <1>2, <2>1, <2>3
<1> QED BY <1>1, <1>2 DEF Login

LEMMA LoginTyped ==
    ASSUME Typed, NEW s \in Slots, NEW name \in Names, NEW password \in Passwords,
           Login(s, name, password)
    PROVE  Typed'
<1>1. UNCHANGED <<accounts, tokens, resetCodes, verifyCodes, failures, issued, resets, inbox, proven>>
  BY DEF Login, mailVars
<1>2. PICK c : CallOK(c)' /\ Ask(s, c) BY LoginAsks
<1>3. /\ calls' \in [Slots -> Call] /\ CallsInv'
      /\ asked' \in 0..MaxCalls /\ lapses' \in 0..MaxLapses
  BY <1>1, <1>2, AskOK
<1> QED BY <1>1, <1>3 DEF Typed, TypeOK

LEMMA OpenTyped ==
    ASSUME Typed, NEW s \in Slots, Open(s)
    PROVE  Typed'
<1>0. PICK c : c = calls[s] OBVIOUS
<1> DEFINE t == [id |-> issued + 1, who |-> c.who, era |-> c.era, lapsed |-> FALSE]
<1>1. c.at \in {"open", "open_new"} /\ CallOK(c) BY <1>0 DEF Open, Typed, CallsInv
<1>2. UNCHANGED <<accounts, resetCodes, verifyCodes, asked, lapses, resets, inbox, proven>>
  BY DEF Open, mailVars, bounds
<1>3. issued \in Nat /\ issued' = issued + 1 BY DEF Typed, TypeOK, Open
<1>9. issued' \in Nat /\ issued <= issued' /\ proven \subseteq proven' BY <1>2, <1>3
<1>4. t \in Token BY <1>1, <1>3 DEF Token, CallOK, Call, Typed, TypeOK
<1>5. tokens' \subseteq Token BY <1>0, <1>4 DEF Open, Swept, Typed, TypeOK
<1>6. inbox' \subseteq 1..issued' BY <1>2, <1>3 DEF Typed, TypeOK
<1>7. CASE c.at = "open"
  <2>1. Done(s) /\ failures' = [failures EXCEPT ![c.name] = 0] BY <1>0, <1>7 DEF Open
  <2>2. calls' \in [Slots -> Call] /\ CallsInv' BY <1>2, <1>3, <2>1, DoneOK
  <2>3. failures' \in [Names -> Nat] BY <2>1 DEF Typed, TypeOK
  <2> QED BY <1>2, <1>3, <1>5, <1>6, <2>2, <2>3 DEF Typed, TypeOK
<1>8. CASE c.at = "open_new"
  <2>0. PICK d : d = [c EXCEPT !.at = "verify"] OBVIOUS
  <2>1. calls' = [calls EXCEPT ![s] = d] /\ failures' = failures
    BY <1>0, <1>8, <2>0 DEF Open, Goto
  <2>2. CallOK(d)' BY <1>1, <2>0, MovedOn
  <2>3. calls' \in [Slots -> Call] /\ CallsInv' BY <1>9, <2>1, <2>2, GotoOK
  <2> QED BY <1>2, <1>3, <1>5, <1>6, <2>1, <2>3 DEF Typed, TypeOK
<1> QED BY <1>1, <1>7, <1>8

LEMMA FailsTyped ==
    ASSUME Typed, NEW s \in Slots, LoginFails(s)
    PROVE  Typed'
<1>1. Done(s) /\ calls[s].name \in Names
  BY DEF LoginFails, Typed, CallsInv, CallOK
<1>2. failures' = [failures EXCEPT ![calls[s].name] = @ + 1] BY DEF LoginFails
<1>3. UNCHANGED <<accounts, tokens, resetCodes, verifyCodes, issued, asked, lapses, resets, inbox, proven>>
  BY DEF LoginFails, mailVars, bounds
<1>4. issued' \in Nat /\ issued <= issued' /\ proven \subseteq proven' BY <1>3 DEF Typed, TypeOK
<1>5. calls' \in [Slots -> Call] /\ CallsInv' BY <1>1, <1>4, DoneOK
<1>6. failures' \in [Names -> Nat] BY <1>1, <1>2 DEF Typed, TypeOK
<1> QED BY <1>3, <1>5, <1>6 DEF Typed, TypeOK

LEMMA AgesTyped ==
    ASSUME Typed, NEW name \in Names, FailureAges(name)
    PROVE  Typed'
<1>1. UNCHANGED <<accounts, tokens, resetCodes, verifyCodes, calls, issued, asked, lapses, resets, inbox, proven>>
  BY DEF FailureAges, mailVars, bounds
<1>2. failures' \in [Names -> Nat] BY DEF FailureAges, Typed, TypeOK
<1>3. CallsInv' BY <1>1, StayOK
<1> QED BY <1>1, <1>2, <1>3 DEF Typed, TypeOK

LEMMA LogoutTyped ==
    ASSUME Typed, NEW s \in Slots, NEW t, Logout(s, t)
    PROVE  Typed'
<1>1. UNCHANGED <<accounts, resetCodes, verifyCodes, failures, issued, resets, inbox, proven>>
  BY DEF Logout, mailVars
<1>2. Answered(s) /\ tokens' \subseteq tokens BY DEF Logout
<1>3. /\ calls' \in [Slots -> Call] /\ CallsInv'
      /\ asked' \in 0..MaxCalls /\ lapses' \in 0..MaxLapses
  BY <1>1, <1>2, AnsweredOK
<1> QED BY <1>1, <1>2, <1>3 DEF Typed, TypeOK

(* Filing a code: the table keeps sound rows, one of them for the account.  *)
LEMMA ReplacedOK ==
    ASSUME NEW codes, codes \subseteq Code, NEW code \in Code,
           \A r1, r2 \in codes : r1.who = r2.who => r1 = r2
    PROVE  /\ Replaced(codes, code) \subseteq Code
           /\ \A r1, r2 \in Replaced(codes, code) : r1.who = r2.who => r1 = r2
BY DEF Replaced, Swept, Others

LEMMA SendVerificationTyped ==
    ASSUME Typed, NEW s \in Slots, SendVerification(s)
    PROVE  Typed'
<1>0. PICK c : c = calls[s] OBVIOUS
<1>1. c.at = "verify" /\ CallOK(c) BY <1>0 DEF SendVerification, Typed, CallsInv
<1>2. UNCHANGED <<accounts, tokens, resetCodes, failures, asked, lapses, resets, inbox, proven>>
  BY DEF SendVerification, mailVars, bounds
<1>3. issued \in Nat BY DEF Typed, TypeOK
<1>4. CASE c.addr = NoAddress
  <2>1. Done(s) /\ UNCHANGED <<verifyCodes, issued>> BY <1>0, <1>4 DEF SendVerification
  <2>2. issued' \in Nat /\ issued <= issued' /\ proven \subseteq proven' BY <1>2, <1>3, <2>1
  <2>3. calls' \in [Slots -> Call] /\ CallsInv' BY <2>1, <2>2, DoneOK
  <2> QED BY <1>2, <2>1, <2>3 DEF Typed, TypeOK
<1>5. CASE c.addr # NoAddress
  <2>0. PICK code : code = [id |-> issued + 1, who |-> c.who, to |-> c.addr, lapsed |-> FALSE]
    OBVIOUS
  <2>1. c.who \in Ids /\ c.addr \in Addresses BY <1>1, <1>5 DEF CallOK, Call, AnyAddress
  <2>2. code \in Code BY <1>3, <2>0, <2>1 DEF Code
  <2>3. PICK d : d = [c EXCEPT !.at = "post", !.code = issued + 1] OBVIOUS
  <2>4. /\ verifyCodes' = Replaced(verifyCodes, code) /\ issued' = issued + 1
        /\ calls' = [calls EXCEPT ![s] = d]
    BY <1>0, <1>5, <2>0, <2>3 DEF SendVerification, Goto
  <2>5. issued' \in Nat /\ issued <= issued' /\ proven \subseteq proven' BY <1>2, <1>3, <2>4
  <2>6. CallOK(d)' BY <1>1, <1>3, <2>3, <2>4, PostOK
  <2>7. calls' \in [Slots -> Call] /\ CallsInv' BY <2>4, <2>5, <2>6, GotoOK
  <2>8. verifyCodes' \subseteq Code BY <2>2, <2>4 DEF Replaced, Swept, Others, Typed, TypeOK
  <2>9. inbox' \subseteq 1..issued' BY <1>2, <1>3, <2>4 DEF Typed, TypeOK
  <2> QED BY <1>2, <2>5, <2>7, <2>8, <2>9 DEF Typed, TypeOK
<1> QED BY <1>4, <1>5

LEMMA PostTyped ==
    ASSUME Typed, NEW s \in Slots, Post(s)
    PROVE  Typed'
<1>1. UNCHANGED <<accounts, tokens, resetCodes, verifyCodes, failures, issued, proven, resets, asked, lapses>>
  BY DEF Post, bounds
<1>2. Done(s) /\ inbox' \subseteq inbox \cup {calls[s].code} BY DEF Post
<1>3. issued' \in Nat /\ issued <= issued' /\ proven \subseteq proven' BY <1>1 DEF Typed, TypeOK
<1>4. calls' \in [Slots -> Call] /\ CallsInv' BY <1>2, <1>3, DoneOK
<1>5. calls[s].code \in 1..issued BY DEF Post, Typed, CallsInv, CallOK
<1>6. inbox' \subseteq 1..issued' BY <1>1, <1>2, <1>5 DEF Typed, TypeOK
<1> QED BY <1>1, <1>4, <1>6 DEF Typed, TypeOK

LEMMA ChangeEmailTyped ==
    ASSUME Typed, NEW s \in Slots, NEW id \in DOMAIN accounts, NEW addr \in AnyAddress,
           ChangeEmail(s, id, addr)
    PROVE  Typed'
<1>0. PICK c : c = [Idle EXCEPT !.at = "email", !.who = id, !.addr = addr] OBVIOUS
<1>1. id \in Ids BY DEF Typed, TypeOK
<1>2. CallOK(c)' BY <1>0, <1>1 DEF CallOK, Call, Steps, Idle
<1>3. Ask(s, c) BY <1>0 DEF ChangeEmail
<1>4. UNCHANGED <<accounts, tokens, resetCodes, verifyCodes, failures, issued, resets, inbox, proven>>
  BY DEF ChangeEmail, mailVars
<1>5. /\ calls' \in [Slots -> Call] /\ CallsInv'
      /\ asked' \in 0..MaxCalls /\ lapses' \in 0..MaxLapses
  BY <1>2, <1>3, <1>4, AskOK
<1> QED BY <1>4, <1>5 DEF Typed, TypeOK

LEMMA CheckEmailTyped ==
    ASSUME Typed, NEW s \in Slots, CheckEmail(s)
    PROVE  Typed'
<1>0. PICK c : c = calls[s] OBVIOUS
<1>1. c.at = "email" /\ CallOK(c) BY <1>0 DEF CheckEmail, Typed, CallsInv
<1>2. UNCHANGED <<accounts, tokens, resetCodes, verifyCodes, failures, issued, resets, inbox, proven, asked, lapses>>
  BY DEF CheckEmail, mailVars, bounds
<1>3. issued' \in Nat /\ issued <= issued' /\ proven \subseteq proven' BY <1>2 DEF Typed, TypeOK
<1>4. PICK d : d = [c EXCEPT !.at = "email_write"] OBVIOUS
<1>5. CallOK(d)' BY <1>1, <1>4, MovedOn
<1>6. Done(s) \/ calls' = [calls EXCEPT ![s] = d] BY <1>0, <1>4 DEF CheckEmail, Goto
<1>7. calls' \in [Slots -> Call] /\ CallsInv' BY <1>3, <1>5, <1>6, DoneOK, GotoOK
<1> QED BY <1>2, <1>7 DEF Typed, TypeOK

LEMMA SetEmailTyped ==
    ASSUME Typed, NEW s \in Slots, SetEmail(s)
    PROVE  Typed'
<1>0. PICK c : c = calls[s] OBVIOUS
<1>1. c.at = "email_write" /\ CallOK(c) BY <1>0 DEF SetEmail, Typed, CallsInv
<1>2. UNCHANGED <<tokens, resetCodes, failures, issued, resets, inbox, proven, asked, lapses>>
  BY DEF SetEmail, mailVars, bounds
<1>3. issued' \in Nat /\ issued <= issued' /\ proven \subseteq proven' BY <1>2 DEF Typed, TypeOK
<1>4. PICK d : d = [c EXCEPT !.at = "verify"] OBVIOUS
<1>5. CallOK(d)' BY <1>1, <1>4, MovedOn
<1>6. calls' = [calls EXCEPT ![s] = d] BY <1>0, <1>4 DEF SetEmail, Goto
<1>7. calls' \in [Slots -> Call] /\ CallsInv' BY <1>3, <1>5, <1>6, GotoOK
<1>8. accounts' = [accounts EXCEPT ![c.who] = Moved(@, c.addr)] /\ verifyCodes' \subseteq verifyCodes
  BY <1>0 DEF SetEmail, Others
<1>9. DOMAIN accounts' \subseteq Ids /\ \A id \in DOMAIN accounts' : accounts'[id] \in Row
  BY <1>1, <1>8 DEF Moved, Row, CallOK, Call, Typed, TypeOK
<1> QED BY <1>2, <1>7, <1>8, <1>9 DEF Typed, TypeOK

LEMMA ResendTyped ==
    ASSUME Typed, NEW s \in Slots, NEW id \in DOMAIN accounts, ResendVerification(s, id)
    PROVE  Typed'
<1>0. PICK c : c = [Idle EXCEPT !.at = "verify", !.who = id, !.addr = accounts[id].email] OBVIOUS
<1>1. id \in Ids /\ accounts[id].email \in AnyAddress BY DEF Typed, TypeOK, Row
<1>2. CallOK(c)' BY <1>0, <1>1 DEF CallOK, Call, Steps, Idle
<1>3. Ask(s, c) BY <1>0 DEF ResendVerification
<1>4. UNCHANGED <<accounts, tokens, resetCodes, verifyCodes, failures, issued, resets, inbox, proven>>
  BY DEF ResendVerification, mailVars
<1>5. /\ calls' \in [Slots -> Call] /\ CallsInv'
      /\ asked' \in 0..MaxCalls /\ lapses' \in 0..MaxLapses
  BY <1>2, <1>3, <1>4, AskOK
<1> QED BY <1>4, <1>5 DEF Typed, TypeOK

LEMMA ConfirmVerificationTyped ==
    ASSUME Typed, NEW s \in Slots, NEW id \in DOMAIN accounts, NEW n \in inbox,
           ConfirmVerification(s, id, n)
    PROVE  Typed'
<1>1. id \in Ids /\ n \in Nat BY DEF Typed, TypeOK
<1>2. UNCHANGED <<accounts, tokens, resetCodes, failures, issued, resets, inbox, proven>>
  BY DEF ConfirmVerification, mailVars
<1>3. verifyCodes' \subseteq verifyCodes BY DEF ConfirmVerification
<1>4. /\ calls' \in [Slots -> Call] /\ CallsInv'
      /\ asked' \in 0..MaxCalls /\ lapses' \in 0..MaxLapses
  <2>1. CASE Answered(s) BY <1>2, <2>1, AnsweredOK
  <2>2. ASSUME NEW r \in verifyCodes,
               Ask(s, [Idle EXCEPT !.at = "confirm_write", !.who = id, !.addr = r.to, !.code = n])
        PROVE  /\ calls' \in [Slots -> Call] /\ CallsInv'
               /\ asked' \in 0..MaxCalls /\ lapses' \in 0..MaxLapses
    <3>0. PICK c : c = [Idle EXCEPT !.at = "confirm_write", !.who = id, !.addr = r.to, !.code = n]
      OBVIOUS
    <3>1. r.to \in Addresses BY DEF Typed, TypeOK, Code
    <3>2. CallOK(c)' BY <1>1, <3>0, <3>1 DEF CallOK, Call, Steps, Idle, AnyAddress
    <3> QED BY <1>2, <2>2, <3>0, <3>2, AskOK
  <2> QED BY <2>1, <2>2 DEF ConfirmVerification, Swept
<1> QED BY <1>2, <1>3, <1>4 DEF Typed, TypeOK

LEMMA SetVerifiedTyped ==
    ASSUME Typed, NEW s \in Slots, SetVerified(s)
    PROVE  Typed'
<1>0. PICK c : c = calls[s] OBVIOUS
<1>1. c.at = "confirm_write" /\ CallOK(c) BY <1>0 DEF SetVerified, Typed, CallsInv
<1>2. c.who \in Ids /\ c.addr \in Addresses BY <1>1 DEF CallOK
<1>3. UNCHANGED <<tokens, resetCodes, failures, issued, inbox, resets, asked, lapses>>
  BY DEF SetVerified, bounds
<1>4. /\ accounts' = [accounts EXCEPT ![c.who] = Confirmed(@, c.addr)]
      /\ verifyCodes' \subseteq verifyCodes
      /\ proven' = proven \cup {<<c.who, c.addr>>}
      /\ Done(s)
  BY <1>0 DEF SetVerified, Others
<1>5. issued' \in Nat /\ issued <= issued' /\ proven \subseteq proven' BY <1>3, <1>4 DEF Typed, TypeOK
<1>6. calls' \in [Slots -> Call] /\ CallsInv' BY <1>4, <1>5, DoneOK
<1>7. DOMAIN accounts' \subseteq Ids /\ \A id \in DOMAIN accounts' : accounts'[id] \in Row
  BY <1>4 DEF Confirmed, Row, Typed, TypeOK
<1>8. proven' \subseteq Ids \X Addresses BY <1>2, <1>4 DEF Typed, TypeOK
<1> QED BY <1>3, <1>4, <1>6, <1>7, <1>8 DEF Typed, TypeOK

(* The account a reset starts for has proved the address.                   *)
LEMMA RequestResetTyped ==
    ASSUME Typed, AddressesProven, NEW s \in Slots, NEW addr \in Addresses, RequestReset(s, addr)
    PROVE  Typed'
<1>1. UNCHANGED <<accounts, tokens, resetCodes, verifyCodes, failures, issued, resets, inbox, proven>>
  BY DEF RequestReset, mailVars
<1>2. /\ calls' \in [Slots -> Call] /\ CallsInv'
      /\ asked' \in 0..MaxCalls /\ lapses' \in 0..MaxLapses
  <2>1. CASE Answered(s) BY <1>1, <2>1, AnsweredOK
  <2>2. ASSUME NEW id \in Resettable(addr),
               Ask(s, [Idle EXCEPT !.at = "reset", !.who = id, !.addr = addr])
        PROVE  /\ calls' \in [Slots -> Call] /\ CallsInv'
               /\ asked' \in 0..MaxCalls /\ lapses' \in 0..MaxLapses
    <3>0. PICK c : c = [Idle EXCEPT !.at = "reset", !.who = id, !.addr = addr] OBVIOUS
    <3>1. id \in Ids /\ <<id, addr>> \in proven'
      BY <1>1 DEF Resettable, AddressesProven, Typed, TypeOK
    <3>2. CallOK(c)' BY <3>0, <3>1 DEF CallOK, Call, Steps, Idle, AnyAddress
    <3> QED BY <1>1, <2>2, <3>0, <3>2, AskOK
  <2> QED BY <2>1, <2>2 DEF RequestReset
<1> QED BY <1>1, <1>2 DEF Typed, TypeOK

LEMMA SendResetTyped ==
    ASSUME Typed, NEW s \in Slots, SendReset(s)
    PROVE  Typed'
<1>0. PICK c : c = calls[s] OBVIOUS
<1>1. c.at = "reset" /\ CallOK(c) BY <1>0 DEF SendReset, Typed, CallsInv
<1>2. UNCHANGED <<accounts, tokens, verifyCodes, failures, asked, lapses, resets, inbox, proven>>
  BY DEF SendReset, mailVars, bounds
<1>3. issued \in Nat BY DEF Typed, TypeOK
<1>4. PICK code : code = [id |-> issued + 1, who |-> c.who, to |-> c.addr, lapsed |-> FALSE]
  OBVIOUS
<1>5. code \in Code BY <1>1, <1>3, <1>4 DEF Code, CallOK
<1>6. PICK d : d = [c EXCEPT !.at = "post", !.code = issued + 1] OBVIOUS
<1>7. /\ resetCodes' = Replaced(resetCodes, code) /\ issued' = issued + 1
      /\ calls' = [calls EXCEPT ![s] = d]
  BY <1>0, <1>4, <1>6 DEF SendReset, Goto
<1>8. issued' \in Nat /\ issued <= issued' /\ proven \subseteq proven' BY <1>2, <1>3, <1>7
<1>9. CallOK(d)' BY <1>1, <1>3, <1>6, <1>7, PostOK
<1>10. calls' \in [Slots -> Call] /\ CallsInv' BY <1>7, <1>8, <1>9, GotoOK
<1>11. resetCodes' \subseteq Code BY <1>5, <1>7 DEF Replaced, Swept, Others, Typed, TypeOK
<1>12. inbox' \subseteq 1..issued' BY <1>2, <1>3, <1>7 DEF Typed, TypeOK
<1> QED BY <1>2, <1>8, <1>10, <1>11, <1>12 DEF Typed, TypeOK

LEMMA ConfirmResetTyped ==
    ASSUME Typed, NEW s \in Slots, NEW n \in inbox, NEW password \in Passwords,
           ConfirmReset(s, n, password)
    PROVE  Typed'
<1>1. n \in Nat BY DEF Typed, TypeOK
<1>2. UNCHANGED <<accounts, tokens, verifyCodes, failures, issued, resets, inbox, proven>>
  BY DEF ConfirmReset, mailVars
<1>3. resetCodes' \subseteq resetCodes BY DEF ConfirmReset
<1>4. /\ calls' \in [Slots -> Call] /\ CallsInv'
      /\ asked' \in 0..MaxCalls /\ lapses' \in 0..MaxLapses
  <2>1. CASE Answered(s) BY <1>2, <2>1, AnsweredOK
  <2>2. ASSUME NEW r \in resetCodes,
               Ask(s, [Idle EXCEPT !.at = "reset_write", !.who = r.who, !.password = password,
                                   !.code = n])
        PROVE  /\ calls' \in [Slots -> Call] /\ CallsInv'
               /\ asked' \in 0..MaxCalls /\ lapses' \in 0..MaxLapses
    <3>0. PICK c : c = [Idle EXCEPT !.at = "reset_write", !.who = r.who, !.password = password,
                                    !.code = n]
      OBVIOUS
    <3>1. r.who \in Ids BY DEF Typed, TypeOK, Code
    <3>2. CallOK(c)' BY <1>1, <3>0, <3>1 DEF CallOK, Call, Steps, Idle, AnyAddress
    <3> QED BY <1>2, <2>2, <3>0, <3>2, AskOK
  <2> QED BY <2>1, <2>2 DEF ConfirmReset, Swept
<1> QED BY <1>2, <1>3, <1>4 DEF Typed, TypeOK

LEMMA SetPasswordTyped ==
    ASSUME Typed, NEW s \in Slots, SetPassword(s)
    PROVE  Typed'
<1>0. PICK c : c = calls[s] OBVIOUS
<1>1. c.at = "reset_write" /\ CallOK(c) BY <1>0 DEF SetPassword, Typed, CallsInv
<1>2. c.who \in Ids /\ c.password \in Passwords BY <1>1 DEF CallOK
<1>3. UNCHANGED <<verifyCodes, failures, issued, inbox, proven, asked, lapses>>
  BY DEF SetPassword, mailVars, bounds
<1>4. /\ accounts' = [accounts EXCEPT ![c.who].password = c.password]
      /\ resetCodes' \subseteq resetCodes /\ tokens' \subseteq tokens
      /\ resets' = [resets EXCEPT ![c.who] = @ + 1]
      /\ Done(s)
  BY <1>0 DEF SetPassword, Others, Revoked
<1>5. issued' \in Nat /\ issued <= issued' /\ proven \subseteq proven' BY <1>3 DEF Typed, TypeOK
<1>6. calls' \in [Slots -> Call] /\ CallsInv' BY <1>4, <1>5, DoneOK
<1>7. DOMAIN accounts' \subseteq Ids /\ \A id \in DOMAIN accounts' : accounts'[id] \in Row
  BY <1>2, <1>4 DEF Row, Typed, TypeOK
<1>8. resets' \in [Ids -> Nat]
  <2>1. resets \in [Ids -> Nat] BY DEF Typed, TypeOK
  <2> QED BY <1>2, <1>4, <2>1
<1> QED BY <1>3, <1>4, <1>6, <1>7, <1>8 DEF Typed, TypeOK

LEMMA LapseTyped ==
    ASSUME Typed, Lapse
    PROVE  Typed'
<1>1. UNCHANGED <<accounts, failures, calls, issued, asked, resets, inbox, proven>>
  BY DEF Lapse, mailVars
<1>2. lapses' \in 0..MaxLapses BY AccountsAssumption DEF Lapse, Typed, TypeOK
<1>3. \A t \in Token : [t EXCEPT !.lapsed = TRUE] \in Token BY DEF Token
<1>4. \A r \in Code : [r EXCEPT !.lapsed = TRUE] \in Code BY DEF Code
<1>5. tokens' \subseteq Token BY <1>3 DEF Lapse, Swept, Typed, TypeOK
<1>6. resetCodes' \subseteq Code /\ verifyCodes' \subseteq Code
  BY <1>4 DEF Lapse, Swept, Typed, TypeOK
<1>7. CallsInv' BY <1>1, StayOK
<1> QED BY <1>1, <1>2, <1>5, <1>6, <1>7 DEF Typed, TypeOK

LEMMA TypedStep == Typed /\ AddressesProven /\ [Next]_vars => Typed'
<1> SUFFICES ASSUME Typed, AddressesProven, [Next]_vars PROVE Typed'
  OBVIOUS
<1>1. ASSUME NEW s \in Slots,
             \/ InsertAccount(s) \/ Open(s) \/ LoginFails(s)
             \/ SendVerification(s) \/ Post(s) \/ CheckEmail(s) \/ SetEmail(s) \/ SetVerified(s)
             \/ SendReset(s) \/ SetPassword(s)
      PROVE  Typed'
  BY <1>1, InsertTyped, OpenTyped, FailsTyped, SendVerificationTyped, PostTyped, CheckEmailTyped,
     SetEmailTyped, SetVerifiedTyped, SendResetTyped, SetPasswordTyped
<1>2. ASSUME NEW s \in Slots, NEW name \in Names, NEW password \in Passwords,
             \/ \E addr \in AnyAddress : Register(s, name, addr, password)
             \/ Login(s, name, password)
      PROVE  Typed'
  BY <1>2, RegisterTyped, LoginTyped
<1>3. ASSUME NEW s \in Slots, NEW id \in DOMAIN accounts,
             \/ \E addr \in AnyAddress : ChangeEmail(s, id, addr)
             \/ ResendVerification(s, id)
             \/ \E n \in inbox : ConfirmVerification(s, id, n)
      PROVE  Typed'
  BY <1>3, ChangeEmailTyped, ResendTyped, ConfirmVerificationTyped
<1>4. ASSUME NEW s \in Slots,
             \/ \E t \in tokens : Logout(s, t)
             \/ \E addr \in Addresses : RequestReset(s, addr)
             \/ \E n \in inbox, password \in Passwords : ConfirmReset(s, n, password)
      PROVE  Typed'
  BY <1>4, LogoutTyped, RequestResetTyped, ConfirmResetTyped
<1>5. ASSUME NEW name \in Names, FailureAges(name) PROVE Typed'
  BY <1>5, AgesTyped
<1>6. CASE Lapse BY <1>6, LapseTyped
<1>7. CASE UNCHANGED vars
  <2>1. UNCHANGED <<accounts, tokens, resetCodes, verifyCodes, failures, calls, inbox, issued,
                    asked, lapses, proven, resets>>
    BY <1>7 DEF vars
  <2>2. CallsInv' BY <2>1, StayOK
  <2> QED BY <2>1, <2>2 DEF Typed, TypeOK
<1> QED BY <1>1, <1>2, <1>3, <1>4, <1>5, <1>6, <1>7 DEF Next

-----------------------------------------------------------------------------
(* Only five actions write the accounts, and none but InsertAccount a name. *)

LEMMA AccountsWritten ==
    ASSUME [Next]_vars
    PROVE  \/ accounts' = accounts
           \/ \E s \in Slots : InsertAccount(s) \/ SetEmail(s) \/ SetVerified(s) \/ SetPassword(s)
<1>1. CASE UNCHANGED vars BY <1>1 DEF vars
<1>2. CASE Next
  BY <1>2 DEF Next, Register, Login, Open, LoginFails, Logout, SendVerification, Post, ChangeEmail,
              ResendVerification, ConfirmVerification, CheckEmail, RequestReset, ConfirmReset,
              SendReset, FailureAges, Lapse
<1> QED BY <1>1, <1>2

LEMMA NamesStep ==
    ASSUME Typed, OneHolderPerName, [Next]_vars
    PROVE  OneHolderPerName'
<1>1. CASE accounts' = accounts BY <1>1 DEF OneHolderPerName
<1>2. ASSUME NEW s \in Slots, InsertAccount(s) PROVE OneHolderPerName'
  <2>1. CASE Insertable(calls[s])
    <3> DEFINE c == calls[s]
    <3>1. DOMAIN accounts' = DOMAIN accounts \cup {c.who}
          /\ \A id \in DOMAIN accounts' :
                accounts'[id].name = IF id = c.who THEN c.name ELSE accounts[id].name
      BY <1>2, <2>1 DEF InsertAccount
    <3>2. \A id \in DOMAIN accounts : accounts[id].name # c.name
      BY <2>1 DEF Insertable, NameTaken
    <3> HIDE DEF c
    <3> QED BY <3>1, <3>2 DEF OneHolderPerName
  <2>2. CASE ~Insertable(calls[s])
    BY <1>1, <1>2, <2>2 DEF InsertAccount
  <2> QED BY <2>1, <2>2
<1>3. ASSUME NEW s \in Slots, SetEmail(s) \/ SetVerified(s) \/ SetPassword(s)
      PROVE  OneHolderPerName'
  <2>1. PICK w, addr, new :
          accounts' \in {[accounts EXCEPT ![w] = Moved(@, addr)],
                        [accounts EXCEPT ![w] = Confirmed(@, addr)],
                        [accounts EXCEPT ![w].password = new]}
    BY <1>3 DEF SetEmail, SetVerified, SetPassword
  <2>2. DOMAIN accounts' = DOMAIN accounts
        /\ \A id \in DOMAIN accounts :
              accounts'[id] \in {accounts[id], Moved(accounts[id], addr),
                                 Confirmed(accounts[id], addr),
                                 [accounts[id] EXCEPT !.password = new]}
    BY <2>1
  <2>3. \A id \in DOMAIN accounts : accounts[id] \in Row BY DEF Typed, TypeOK
  <2>4. \A row \in Row : /\ Moved(row, addr).name = row.name
                         /\ Confirmed(row, addr).name = row.name
                         /\ [row EXCEPT !.password = new].name = row.name
    BY DEF Moved, Confirmed, Row
  <2>5. \A id \in DOMAIN accounts : accounts'[id].name = accounts[id].name
    BY <2>2, <2>3, <2>4
  <2> QED BY <2>2, <2>5 DEF OneHolderPerName
<1> QED BY <1>1, <1>2, <1>3, AccountsWritten

(* An account comes to count as verified by a code of its address alone.    *)
LEMMA ProvenGrows ==
    ASSUME Typed, [Next]_vars
    PROVE  proven \subseteq proven'
<1>1. CASE UNCHANGED vars BY <1>1 DEF vars
<1>2. CASE Next
  BY <1>2 DEF Next, Register, Login, Open, LoginFails, Logout, SendVerification, Post, ChangeEmail,
              ResendVerification, ConfirmVerification, CheckEmail, RequestReset, ConfirmReset,
              SendReset, FailureAges, Lapse, InsertAccount, SetEmail, SetVerified, SetPassword,
              mailVars
<1> QED BY <1>1, <1>2

VerifiedProven ==
    \A id \in DOMAIN accounts : accounts[id].verified => <<id, accounts[id].email>> \in proven

LEMMA VerifiedStep ==
    ASSUME Typed, VerifiedProven, [Next]_vars
    PROVE  VerifiedProven'
<1>1. proven \subseteq proven' BY ProvenGrows
<1>2. CASE accounts' = accounts BY <1>1, <1>2 DEF VerifiedProven
<1>3. ASSUME NEW s \in Slots, InsertAccount(s) PROVE VerifiedProven'
  <2>1. CASE Insertable(calls[s])
    <3> DEFINE c == calls[s]
    <3>1. DOMAIN accounts' = DOMAIN accounts \cup {c.who}
          /\ \A id \in DOMAIN accounts' :
                IF id = c.who THEN accounts'[id].verified = FALSE ELSE accounts'[id] = accounts[id]
      BY <1>3, <2>1 DEF InsertAccount
    <3> HIDE DEF c
    <3> QED BY <1>1, <3>1 DEF VerifiedProven
  <2>2. CASE ~Insertable(calls[s])
    BY <1>2, <1>3, <2>2 DEF InsertAccount
  <2> QED BY <2>1, <2>2
<1>4. ASSUME NEW s \in Slots, SetEmail(s) PROVE VerifiedProven'
  <2>1. accounts' = [accounts EXCEPT ![calls[s].who] = Moved(@, calls[s].addr)]
    BY <1>4 DEF SetEmail
  <2>2. \A id \in DOMAIN accounts' :
          IF id = calls[s].who THEN accounts'[id] = Moved(accounts[id], calls[s].addr)
                               ELSE accounts'[id] = accounts[id]
    BY <2>1
  <2>3. \A id \in DOMAIN accounts : accounts[id] \in Row BY DEF Typed, TypeOK
  <2>4. \A row \in Row : \A addr : Moved(row, addr).verified = FALSE BY DEF Moved, Row
  <2>5. DOMAIN accounts' = DOMAIN accounts BY <2>1
  <2> QED BY <1>1, <2>2, <2>3, <2>4, <2>5 DEF VerifiedProven
<1>5. ASSUME NEW s \in Slots, SetVerified(s) PROVE VerifiedProven'
  <2>1. /\ accounts' = [accounts EXCEPT ![calls[s].who] = Confirmed(@, calls[s].addr)]
        /\ proven' = proven \cup {<<calls[s].who, calls[s].addr>>}
    BY <1>5 DEF SetVerified
  <2>2. \A id \in DOMAIN accounts' :
          IF id = calls[s].who THEN accounts'[id] = Confirmed(accounts[id], calls[s].addr)
                               ELSE accounts'[id] = accounts[id]
    BY <2>1
  <2>3. \A id \in DOMAIN accounts : accounts[id] \in Row BY DEF Typed, TypeOK
  <2>4. \A row \in Row : \A addr : Confirmed(row, addr).email = row.email
          /\ (Confirmed(row, addr).verified => row.verified \/ row.email = addr)
    BY DEF Confirmed, Row
  <2>5. DOMAIN accounts' = DOMAIN accounts BY <2>1
  <2> QED BY <2>1, <2>2, <2>3, <2>4, <2>5 DEF VerifiedProven
<1>6. ASSUME NEW s \in Slots, SetPassword(s) PROVE VerifiedProven'
  <2>1. PICK w, new : accounts' = [accounts EXCEPT ![w].password = new]
    BY <1>6 DEF SetPassword
  <2>2. DOMAIN accounts' = DOMAIN accounts
        /\ \A id \in DOMAIN accounts :
              accounts'[id] \in {accounts[id], [accounts[id] EXCEPT !.password = new]}
    BY <2>1
  <2>3. \A id \in DOMAIN accounts : accounts[id] \in Row BY DEF Typed, TypeOK
  <2>4. \A row \in Row : [row EXCEPT !.password = new].verified = row.verified
                         /\ [row EXCEPT !.password = new].email = row.email
    BY DEF Row
  <2>5. \A id \in DOMAIN accounts : accounts'[id].verified = accounts[id].verified
                                    /\ accounts'[id].email = accounts[id].email
    BY <2>2, <2>3, <2>4
  <2> QED BY <1>1, <2>2, <2>5 DEF VerifiedProven
<1> QED BY <1>2, <1>3, <1>4, <1>5, <1>6, AccountsWritten

(* Of a table of codes a step keeps some rows, files a new one in place of  *)
(* the account's, or lets one lapse.                                        *)
LEMMA FewerCodes ==
    ASSUME NEW codes, NEW after, after \subseteq codes,
           \A r1, r2 \in codes : r1.who = r2.who => r1 = r2
    PROVE  \A r1, r2 \in after : r1.who = r2.who => r1 = r2
OBVIOUS

LEMMA LapsedCode ==
    ASSUME NEW codes, codes \subseteq Code, NEW r \in codes, NEW after,
           after = (codes \ {r}) \cup {[r EXCEPT !.lapsed = TRUE]},
           \A r1, r2 \in codes : r1.who = r2.who => r1 = r2
    PROVE  \A r1, r2 \in after : r1.who = r2.who => r1 = r2
<1>1. PICK l : l = [r EXCEPT !.lapsed = TRUE] OBVIOUS
<1>2. l.who = r.who BY <1>1 DEF Code
<1> QED BY <1>1, <1>2

VerifyOnce == \A r1, r2 \in verifyCodes : r1.who = r2.who => r1 = r2
ResetOnce == \A r1, r2 \in resetCodes : r1.who = r2.who => r1 = r2

LEMMA ResetCodesWritten ==
    ASSUME [Next]_vars
    PROVE  \/ resetCodes' \subseteq resetCodes
           \/ \E s \in Slots : SendReset(s)
           \/ \E r \in resetCodes :
                 resetCodes' = (resetCodes \ {r}) \cup {[r EXCEPT !.lapsed = TRUE]}
<1>1. CASE UNCHANGED vars BY <1>1 DEF vars
<1>2. CASE Lapse BY <1>2 DEF Lapse, Swept
<1>3. CASE Next /\ ~Lapse
  BY <1>3 DEF Next, Register, Login, Open, LoginFails, Logout, Post, ChangeEmail,
              ResendVerification, ConfirmVerification, CheckEmail, RequestReset, ConfirmReset,
              SendVerification, FailureAges, InsertAccount, SetEmail, SetVerified, SetPassword,
              Others
<1> QED BY <1>1, <1>2, <1>3

LEMMA CodesStep ==
    ASSUME Typed, OneCodeEach, [Next]_vars
    PROVE  OneCodeEach'
<1>0. VerifyOnce /\ ResetOnce BY DEF OneCodeEach, VerifyOnce, ResetOnce
<1>1. \/ verifyCodes' \subseteq verifyCodes
      \/ \E s \in Slots : SendVerification(s)
      \/ \E r \in verifyCodes : verifyCodes' = (verifyCodes \ {r}) \cup {[r EXCEPT !.lapsed = TRUE]}
  <2>1. CASE UNCHANGED vars BY <2>1 DEF vars
  <2>2. CASE Lapse BY <2>2 DEF Lapse, Swept
  <2>3. ASSUME NEW s \in Slots, NEW id, NEW n, ConfirmVerification(s, id, n)
        PROVE  verifyCodes' \subseteq verifyCodes
    BY <2>3 DEF ConfirmVerification
  <2>4. ASSUME NEW s \in Slots, SetEmail(s) \/ SetVerified(s)
        PROVE  verifyCodes' \subseteq verifyCodes
    BY <2>4 DEF SetEmail, SetVerified, Others
  <2>5. CASE Next /\ ~Lapse
    BY <2>3, <2>4, <2>5 DEF Next, Register, Login, Open, LoginFails, Logout, Post, ChangeEmail,
                ResendVerification, CheckEmail, RequestReset, ConfirmReset,
                SendReset, FailureAges, InsertAccount, SetPassword
  <2> QED BY <2>1, <2>2, <2>5
<1>2. \/ resetCodes' \subseteq resetCodes
      \/ \E s \in Slots : SendReset(s)
      \/ \E r \in resetCodes : resetCodes' = (resetCodes \ {r}) \cup {[r EXCEPT !.lapsed = TRUE]}
  BY ResetCodesWritten
<1>3. verifyCodes \subseteq Code /\ resetCodes \subseteq Code BY DEF Typed, TypeOK
<1>4. VerifyOnce'
  <2>1. CASE verifyCodes' \subseteq verifyCodes BY <1>0, <2>1 DEF VerifyOnce
  <2>2. ASSUME NEW s \in Slots, SendVerification(s) PROVE VerifyOnce'
    <3>0. PICK c : c = calls[s] OBVIOUS
    <3>1. c.at = "verify" /\ CallOK(c) BY <2>2, <3>0 DEF SendVerification, Typed, CallsInv
    <3>2. CASE c.addr = NoAddress BY <1>0, <2>2, <3>0, <3>2 DEF SendVerification, VerifyOnce
    <3>3. CASE c.addr # NoAddress
      <4>0. PICK code : code = [id |-> issued + 1, who |-> c.who, to |-> c.addr, lapsed |-> FALSE]
        OBVIOUS
      <4>1. code \in Code
        BY <3>1, <3>3, <4>0 DEF Code, CallOK, Call, AnyAddress, Typed, TypeOK
      <4>2. verifyCodes' = Replaced(verifyCodes, code)
        BY <2>2, <3>0, <3>3, <4>0 DEF SendVerification
      <4> QED BY <1>0, <1>3, <4>1, <4>2, ReplacedOK DEF VerifyOnce
    <3> QED BY <3>2, <3>3
  <2>3. ASSUME NEW r \in verifyCodes,
               verifyCodes' = (verifyCodes \ {r}) \cup {[r EXCEPT !.lapsed = TRUE]}
        PROVE  VerifyOnce'
    BY <1>0, <1>3, <2>3, LapsedCode DEF VerifyOnce
  <2> QED BY <1>1, <2>1, <2>2, <2>3
<1>5. ResetOnce'
  <2>1. CASE resetCodes' \subseteq resetCodes BY <1>0, <2>1 DEF ResetOnce
  <2>2. ASSUME NEW s \in Slots, SendReset(s) PROVE ResetOnce'
    <3>0. PICK c : c = calls[s] OBVIOUS
    <3>1. c.at = "reset" /\ CallOK(c) BY <2>2, <3>0 DEF SendReset, Typed, CallsInv
    <3>2. PICK code : code = [id |-> issued + 1, who |-> c.who, to |-> c.addr, lapsed |-> FALSE]
      OBVIOUS
    <3>3. code \in Code BY <3>1, <3>2 DEF Code, CallOK, Typed, TypeOK
    <3>4. resetCodes' = Replaced(resetCodes, code) BY <2>2, <3>0, <3>2 DEF SendReset
    <3> QED BY <1>0, <1>3, <3>3, <3>4, ReplacedOK DEF ResetOnce
  <2>3. ASSUME NEW r \in resetCodes,
               resetCodes' = (resetCodes \ {r}) \cup {[r EXCEPT !.lapsed = TRUE]}
        PROVE  ResetOnce'
    BY <1>0, <1>3, <2>3, LapsedCode DEF ResetOnce
  <2> QED BY <1>2, <2>1, <2>2, <2>3
<1> QED BY <1>4, <1>5 DEF OneCodeEach, VerifyOnce, ResetOnce

(* Reset codes go to addresses that were proved when the code was asked for.*)
LEMMA ResetCodesStep ==
    ASSUME Typed, AddressesProven, [Next]_vars
    PROVE  \A r \in resetCodes' : <<r.who, r.to>> \in proven'
<1>0. proven \subseteq proven' /\ \A r \in resetCodes : <<r.who, r.to>> \in proven
  BY ProvenGrows DEF AddressesProven
<1>1. resetCodes \subseteq Code BY DEF Typed, TypeOK
<1>2. ASSUME NEW s \in Slots, SendReset(s)
      PROVE  \A r \in resetCodes' : <<r.who, r.to>> \in proven'
  <2>0. PICK c : c = calls[s] OBVIOUS
  <2>1. c.at = "reset" /\ <<c.who, c.addr>> \in proven
    BY <1>2, <2>0 DEF SendReset, Typed, CallsInv, CallOK
  <2>2. PICK code : code = [id |-> issued + 1, who |-> c.who, to |-> c.addr, lapsed |-> FALSE]
    OBVIOUS
  <2>3. resetCodes' \subseteq resetCodes \cup {code}
    BY <1>2, <2>0, <2>2 DEF SendReset, Replaced, Swept, Others
  <2>4. code.who = c.who /\ code.to = c.addr BY <2>2
  <2> QED BY <1>0, <2>1, <2>3, <2>4
<1>3. ASSUME NEW r \in resetCodes,
             resetCodes' = (resetCodes \ {r}) \cup {[r EXCEPT !.lapsed = TRUE]}
      PROVE  \A q \in resetCodes' : <<q.who, q.to>> \in proven'
  <2>1. PICK l : l = [r EXCEPT !.lapsed = TRUE] OBVIOUS
  <2>2. l.who = r.who /\ l.to = r.to BY <1>1, <2>1 DEF Code
  <2> QED BY <1>0, <1>3, <2>1, <2>2
<1>4. \/ resetCodes' \subseteq resetCodes
      \/ \E s \in Slots : SendReset(s)
      \/ \E r \in resetCodes : resetCodes' = (resetCodes \ {r}) \cup {[r EXCEPT !.lapsed = TRUE]}
  BY ResetCodesWritten
<1> QED BY <1>0, <1>2, <1>3, <1>4

-----------------------------------------------------------------------------
(* Failures counted and failures pending share one budget: an attempt joins *)
(* the pending ones only while the counted ones are below the limit.        *)

LEMMA PendingFinite ==
    ASSUME NEW name
    PROVE  IsFiniteSet(Pending(name)) /\ Cardinality(Pending(name)) \in Nat
           /\ Cardinality(Pending(name)) <= Cardinality(Slots)
<1>1. Pending(name) \subseteq Slots BY DEF Pending
<1>2. IsFiniteSet(Slots) BY AccountsAssumption
<1> QED BY <1>1, <1>2, FS_Subset, FS_CardinalityType

LEMMA BudgetKept ==
    ASSUME Typed, FailuresBudget, NEW name \in Names,
           failures' \in [Names -> Nat], failures'[name] <= failures[name],
           Pending(name)' \subseteq Pending(name)
    PROVE  failures'[name] + Cardinality(Pending(name)') <= FailureLimit - 1 + Cardinality(Slots)
<1>1. IsFiniteSet(Pending(name)) /\ Cardinality(Pending(name)) \in Nat BY PendingFinite
<1>2. PICK P : P = Pending(name)' OBVIOUS
<1>3. Cardinality(P) <= Cardinality(Pending(name)) /\ IsFiniteSet(P) BY <1>1, <1>2, FS_Subset
<1>4. Cardinality(P) \in Nat BY <1>3, FS_CardinalityType
<1>5. failures[name] \in Nat /\ failures'[name] \in Nat BY DEF Typed, TypeOK
<1>6. failures[name] + Cardinality(Pending(name)) <= FailureLimit - 1 + Cardinality(Slots)
  BY DEF FailuresBudget
<1>7. FailureLimit \in Nat /\ Cardinality(Slots) \in Nat BY AccountsAssumption, FS_CardinalityType
<1> QED BY <1>1, <1>2, <1>3, <1>4, <1>5, <1>6, <1>7

NoNewFailure == \A t \in Slots : calls'[t].at = "fail" => calls'[t] = calls[t]

(* No failure is found and no password read, unless of the present era.     *)
Calm(c) == c.at \notin {"fail", "open"} /\ (c.at = "open_new" => c.era = resets[c.who])
Quiet == calls' = calls \/ \E s \in Slots : \E c : Calm(c) /\ calls' = [calls EXCEPT ![s] = c]

LEMMA QuietFails ==
    ASSUME Typed, Quiet
    PROVE  NoNewFailure
BY DEF Typed, TypeOK, Quiet, Calm, NoNewFailure

LEMMA QuietCall ==
    ASSUME NEW s \in Slots, NEW c, c.at \notin {"fail", "open", "open_new"},
           calls' = [calls EXCEPT ![s] = c]
    PROVE  Quiet
BY DEF Quiet, Calm

LEMMA QuietDone ==
    ASSUME NEW s \in Slots, Done(s)
    PROVE  Quiet
<1>1. PICK c : c = Idle OBVIOUS
<1>2. c.at = "idle" BY <1>1 DEF Idle
<1>3. calls' = [calls EXCEPT ![s] = c] BY <1>1 DEF Done, Goto
<1> QED BY <1>2, <1>3, QuietCall

LEMMA QuietAsk ==
    ASSUME NEW s \in Slots, NEW c, c.at \notin {"fail", "open", "open_new"}, Ask(s, c)
    PROVE  Quiet
BY QuietCall DEF Ask

(* A call that goes on to its next transaction.                             *)
LEMMA QuietSteps ==
    ASSUME Typed, NEW s \in Slots,
           \/ InsertAccount(s) \/ Open(s) \/ SendVerification(s) \/ Post(s) \/ CheckEmail(s)
           \/ SetEmail(s) \/ SetVerified(s) \/ SendReset(s) \/ SetPassword(s)
    PROVE  Quiet
<1>1. calls[s] \in Call BY DEF Typed, TypeOK
<1>2. CASE Done(s) BY <1>2, QuietDone
<1>3. ASSUME NEW at \in {"verify", "email_write"},
             calls' = [calls EXCEPT ![s] = [calls[s] EXCEPT !.at = at]]
      PROVE  Quiet
  <2>1. PICK c : c = [calls[s] EXCEPT !.at = at] OBVIOUS
  <2>2. c.at = at BY <1>1, <2>1 DEF Call
  <2> QED BY <1>3, <2>1, <2>2, QuietCall
<1>4. ASSUME NEW n, calls' = [calls EXCEPT ![s] = [calls[s] EXCEPT !.at = "post", !.code = n]]
      PROVE  Quiet
  <2>1. PICK c : c = [calls[s] EXCEPT !.at = "post", !.code = n] OBVIOUS
  <2>2. c.at = "post" BY <1>1, <2>1 DEF Call
  <2> QED BY <1>4, <2>1, <2>2, QuietCall
<1>5. CASE InsertAccount(s)
  <2>1. PICK c : c = [calls[s] EXCEPT !.at = "open_new", !.era = resets[calls[s].who]] OBVIOUS
  <2>2. c.at = "open_new" /\ c.who = calls[s].who /\ c.era = resets[c.who]
    BY <1>1, <2>1 DEF Call
  <2>3. Done(s) \/ calls' = [calls EXCEPT ![s] = c] BY <1>5, <2>1 DEF InsertAccount, Goto
  <2> QED BY <1>2, <2>2, <2>3 DEF Quiet, Calm
<1>6. CASE Open(s) BY <1>2, <1>3, <1>6 DEF Open, Goto
<1>7. CASE SendVerification(s) BY <1>2, <1>4, <1>7 DEF SendVerification, Goto
<1>8. CASE Post(s) \/ SetVerified(s) \/ SetPassword(s)
  BY <1>2, <1>8 DEF Post, SetVerified, SetPassword
<1>9. CASE CheckEmail(s) BY <1>2, <1>3, <1>9 DEF CheckEmail, Goto
<1>10. CASE SetEmail(s) BY <1>3, <1>10 DEF SetEmail, Goto
<1>11. CASE SendReset(s) BY <1>4, <1>11 DEF SendReset, Goto
<1> QED BY <1>5, <1>6, <1>7, <1>8, <1>9, <1>10, <1>11

(* A request that starts, other than a login.                               *)
LEMMA QuietAsks ==
    ASSUME Typed, NEW s \in Slots,
           \/ \E name, addr, password : Register(s, name, addr, password)
           \/ \E t : Logout(s, t)
           \/ \E id, addr : ChangeEmail(s, id, addr)
           \/ \E id : ResendVerification(s, id)
           \/ \E id, n : ConfirmVerification(s, id, n)
           \/ \E addr : RequestReset(s, addr)
           \/ \E n, password : ConfirmReset(s, n, password)
    PROVE  Quiet
<1>1. CASE Answered(s) BY <1>1 DEF Answered, Quiet
<1>3. ASSUME NEW name, NEW addr, NEW password, Register(s, name, addr, password)
      PROVE  Quiet
  <2>1. PICK w : w = CHOOSE id \in FreshIds : TRUE OBVIOUS
  <2>2. PICK c : c = [at |-> "register", who |-> w, name |-> name, addr |-> addr,
                      password |-> password, code |-> 0, era |-> 0]
    OBVIOUS
  <2>3. c.at = "register" /\ Ask(s, c) BY <1>3, <2>1, <2>2 DEF Register
  <2> QED BY <2>3, QuietAsk
<1>4. CASE \E t : Logout(s, t) BY <1>1, <1>4 DEF Logout
<1>5. ASSUME NEW id, NEW addr, ChangeEmail(s, id, addr) PROVE Quiet
  <2>1. PICK c : c = [Idle EXCEPT !.at = "email", !.who = id, !.addr = addr] OBVIOUS
  <2>2. c.at = "email" BY <2>1 DEF Idle
  <2> QED BY <1>5, <2>1, <2>2, QuietAsk DEF ChangeEmail
<1>6. ASSUME NEW id, ResendVerification(s, id) PROVE Quiet
  <2>1. PICK c : c = [Idle EXCEPT !.at = "verify", !.who = id, !.addr = accounts[id].email]
    OBVIOUS
  <2>2. c.at = "verify" BY <2>1 DEF Idle
  <2> QED BY <1>6, <2>1, <2>2, QuietAsk DEF ResendVerification
<1>7. ASSUME NEW id, NEW n, ConfirmVerification(s, id, n) PROVE Quiet
  <2>1. ASSUME NEW r,
               Ask(s, [Idle EXCEPT !.at = "confirm_write", !.who = id, !.addr = r.to, !.code = n])
        PROVE  Quiet
    <3>1. PICK c : c = [Idle EXCEPT !.at = "confirm_write", !.who = id, !.addr = r.to, !.code = n]
      OBVIOUS
    <3>2. c.at = "confirm_write" BY <3>1 DEF Idle
    <3> QED BY <2>1, <3>1, <3>2, QuietAsk
  <2> QED BY <1>1, <1>7, <2>1 DEF ConfirmVerification
<1>8. ASSUME NEW addr, RequestReset(s, addr) PROVE Quiet
  <2>1. ASSUME NEW id, Ask(s, [Idle EXCEPT !.at = "reset", !.who = id, !.addr = addr])
        PROVE  Quiet
    <3>1. PICK c : c = [Idle EXCEPT !.at = "reset", !.who = id, !.addr = addr] OBVIOUS
    <3>2. c.at = "reset" BY <3>1 DEF Idle
    <3> QED BY <2>1, <3>1, <3>2, QuietAsk
  <2> QED BY <1>1, <1>8, <2>1 DEF RequestReset
<1>9. ASSUME NEW n, NEW password, ConfirmReset(s, n, password) PROVE Quiet
  <2>1. ASSUME NEW r,
               Ask(s, [Idle EXCEPT !.at = "reset_write", !.who = r.who, !.password = password,
                                   !.code = n])
        PROVE  Quiet
    <3>1. PICK c : c = [Idle EXCEPT !.at = "reset_write", !.who = r.who, !.password = password,
                                    !.code = n]
      OBVIOUS
    <3>2. c.at = "reset_write" BY <3>1 DEF Idle
    <3> QED BY <2>1, <3>1, <3>2, QuietAsk
  <2> QED BY <1>1, <1>9, <2>1 DEF ConfirmReset
<1> QED BY <1>3, <1>4, <1>5, <1>6, <1>7, <1>8, <1>9

LEMMA BudgetStep ==
    ASSUME Typed, Typed', FailuresBudget, [Next]_vars
    PROVE  FailuresBudget'
<1>0. /\ failures \in [Names -> Nat] /\ failures' \in [Names -> Nat]
      /\ FailureLimit \in Nat /\ Cardinality(Slots) \in Nat /\ IsFiniteSet(Slots)
  BY AccountsAssumption, FS_CardinalityType DEF Typed, TypeOK
<1>1. CASE NoNewFailure /\ \A name \in Names : failures'[name] <= failures[name]
  <2>1. ASSUME NEW name \in Names PROVE Pending(name)' \subseteq Pending(name)
    BY <1>1 DEF NoNewFailure, Pending
  <2> QED BY <1>0, <1>1, <2>1, BudgetKept DEF FailuresBudget
<1>2. ASSUME NEW s \in Slots, NEW name \in Names, NEW password \in Passwords,
             Login(s, name, password)
      PROVE  FailuresBudget'
  <2>1. failures' = failures /\ failures[name] < FailureLimit BY <1>2 DEF Login, Gate
  <2>2. PICK c : Ask(s, c) /\ c.name = name BY <1>2, LoginAsks
  <2>4. c.name = name /\ calls' = [calls EXCEPT ![s] = c] BY <2>2 DEF Ask
  <2>5. ASSUME NEW n \in Names
        PROVE  failures'[n] + Cardinality(Pending(n)') <= FailureLimit - 1 + Cardinality(Slots)
    <3>1. CASE n = name
      <4>1. PICK P : P = Pending(n)' OBVIOUS
      <4>2. P \subseteq Slots BY <4>1 DEF Pending
      <4>3. Cardinality(P) <= Cardinality(Slots) /\ Cardinality(P) \in Nat
        BY <1>0, <4>2, FS_Subset, FS_CardinalityType
      <4> QED BY <1>0, <2>1, <3>1, <4>1, <4>3
    <3>2. CASE n # name
      <4>1. Pending(n)' \subseteq Pending(n) BY <2>4, <3>2 DEF Pending, Typed, TypeOK
      <4>2. failures'[n] <= failures[n] BY <1>0, <2>1
      <4> QED BY <1>0, <4>1, <4>2, BudgetKept
    <3> QED BY <3>1, <3>2
  <2> QED BY <2>5 DEF FailuresBudget
<1>3. ASSUME NEW s \in Slots, LoginFails(s) PROVE FailuresBudget'
  <2>0. PICK name : name = calls[s].name OBVIOUS
  <2>1. name \in Names /\ calls[s].at = "fail"
    BY <1>3, <2>0 DEF LoginFails, Typed, CallsInv, CallOK
  <2>2. failures' = [failures EXCEPT ![name] = @ + 1] BY <1>3, <2>0 DEF LoginFails
  <2>3. PICK c : c = Idle OBVIOUS
  <2>4. c.at = "idle" /\ calls' = [calls EXCEPT ![s] = c]
    BY <1>3, <2>3 DEF LoginFails, Done, Goto, Idle
  <2>5. ASSUME NEW n \in Names
        PROVE  failures'[n] + Cardinality(Pending(n)') <= FailureLimit - 1 + Cardinality(Slots)
    <3>1. CASE n = name
      <4>1. Pending(n)' = Pending(n) \ {s} BY <2>4 DEF Pending, Typed, TypeOK
      <4>2. s \in Pending(n) BY <2>0, <2>1, <3>1 DEF Pending
      <4>3. IsFiniteSet(Pending(n)) /\ Cardinality(Pending(n)) \in Nat BY PendingFinite
      <4>4. Cardinality(Pending(n)') = Cardinality(Pending(n)) - 1
        BY <4>1, <4>2, <4>3, FS_RemoveElement
      <4>5. failures'[n] = failures[n] + 1 /\ failures[n] \in Nat BY <1>0, <2>2, <3>1
      <4>6. failures[n] + Cardinality(Pending(n)) <= FailureLimit - 1 + Cardinality(Slots)
        BY DEF FailuresBudget
      <4> QED BY <1>0, <4>3, <4>4, <4>5, <4>6
    <3>2. CASE n # name
      <4>1. Pending(n)' \subseteq Pending(n) BY <2>4 DEF Pending, Typed, TypeOK
      <4>2. failures'[n] <= failures[n] BY <1>0, <2>2, <3>2
      <4> QED BY <1>0, <4>1, <4>2, BudgetKept
    <3> QED BY <3>1, <3>2
  <2> QED BY <2>5 DEF FailuresBudget
<1>4. ASSUME NEW s \in Slots, Open(s) PROVE FailuresBudget'
  <2>1. NoNewFailure BY <1>4, QuietSteps, QuietFails
  <2>2. failures' = failures \/ failures' = [failures EXCEPT ![calls[s].name] = 0]
    BY <1>4 DEF Open
  <2>3. \A name \in Names : failures'[name] <= failures[name] BY <1>0, <2>2
  <2> QED BY <1>1, <2>1, <2>3
<1>5. CASE \E name \in Names : FailureAges(name)
  <2>1. \A n \in Names : failures'[n] <= failures[n] BY <1>0, <1>5 DEF FailureAges
  <2>2. NoNewFailure BY <1>5 DEF FailureAges, NoNewFailure
  <2> QED BY <1>1, <2>1, <2>2
<1>6. CASE failures' = failures /\ NoNewFailure
  BY <1>0, <1>1, <1>6
<1>7. CASE Lapse \/ UNCHANGED vars
  BY <1>6, <1>7 DEF Lapse, vars, NoNewFailure
<1>8. ASSUME NEW s \in Slots,
             \/ \E name, addr, password : Register(s, name, addr, password)
             \/ \E t : Logout(s, t)
             \/ \E id, addr : ChangeEmail(s, id, addr)
             \/ \E id : ResendVerification(s, id)
             \/ \E id, n : ConfirmVerification(s, id, n)
             \/ \E addr : RequestReset(s, addr)
             \/ \E n, password : ConfirmReset(s, n, password)
      PROVE  FailuresBudget'
  <2>1. failures' = failures
    BY <1>8 DEF Register, Logout, ChangeEmail, ResendVerification, ConfirmVerification,
                RequestReset, ConfirmReset
  <2> QED BY <1>6, <1>8, <2>1, QuietAsks, QuietFails
<1>9. ASSUME NEW s \in Slots,
             \/ InsertAccount(s) \/ SendVerification(s) \/ Post(s) \/ CheckEmail(s)
             \/ SetEmail(s) \/ SetVerified(s) \/ SendReset(s) \/ SetPassword(s)
      PROVE  FailuresBudget'
  <2>1. failures' = failures
    BY <1>9 DEF InsertAccount, SendVerification, Post, CheckEmail, SetEmail, SetVerified,
                SendReset, SetPassword
  <2> QED BY <1>6, <1>9, <2>1, QuietSteps, QuietFails
<1> QED BY <1>2, <1>3, <1>4, <1>5, <1>7, <1>8, <1>9 DEF Next

-----------------------------------------------------------------------------
(* What outlives a reset was late when it was applied: each late request    *)
(* becomes at most one session, and the reset itself holds a slot.          *)

LEMMA LateFinite ==
    ASSUME NEW who
    PROVE  /\ IsFiniteSet(Late(who)) /\ Cardinality(Late(who)) \in Nat
           /\ Cardinality(Slots) \in Nat
<1>1. Late(who) \subseteq Slots BY DEF Late
<1>2. IsFiniteSet(Slots) BY AccountsAssumption
<1> QED BY <1>1, <1>2, FS_Subset, FS_CardinalityType

ResetBudgetOf(outlived, late) ==
    IsFiniteSet(outlived) /\ Cardinality(outlived) + Cardinality(late) < Cardinality(Slots)

LEMMA BudgetShrinks ==
    ASSUME NEW P, NEW L, IsFiniteSet(L), ResetBudgetOf(P, L),
           NEW Q, Q \subseteq P, NEW M, M \subseteq L
    PROVE  ResetBudgetOf(Q, M)
<1>1. IsFiniteSet(P) BY DEF ResetBudgetOf
<1>2. /\ IsFiniteSet(Q) /\ Cardinality(Q) <= Cardinality(P)
      /\ IsFiniteSet(M) /\ Cardinality(M) <= Cardinality(L)
  BY <1>1, FS_Subset
<1>3. {Cardinality(P), Cardinality(Q), Cardinality(L), Cardinality(M), Cardinality(Slots)} \subseteq Nat
  BY <1>1, <1>2, FS_CardinalityType, AccountsAssumption
<1> QED BY <1>2, <1>3 DEF ResetBudgetOf

LEMMA OneMore ==
    ASSUME NEW R, IsFiniteSet(R), NEW t
    PROVE  /\ IsFiniteSet(R \cup {t})
           /\ Cardinality(R \cup {t}) \in Nat /\ Cardinality(R) \in Nat
           /\ Cardinality(R \cup {t}) <= Cardinality(R) + 1
<1>1. Cardinality(R) \in Nat BY FS_CardinalityType
<1>2. PICK S : S = R \cup {t} OBVIOUS
<1>3. CASE t \in R
  <2>1. S = R BY <1>2, <1>3
  <2>2. IsFiniteSet(S) /\ Cardinality(S) \in Nat /\ Cardinality(S) <= Cardinality(R) + 1
    BY <1>1, <2>1
  <2> QED BY <1>1, <1>2, <2>2
<1>4. CASE t \notin R
  <2>1. IsFiniteSet(S) /\ Cardinality(S) = Cardinality(R) + 1 BY <1>2, <1>4, FS_AddElement
  <2> QED BY <1>1, <1>2, <2>1
<1> QED BY <1>3, <1>4

(* One late request fewer pays for one session more.                        *)
LEMMA BudgetMoves ==
    ASSUME NEW P, NEW L, IsFiniteSet(L), ResetBudgetOf(P, L), NEW s \in L, NEW t
    PROVE  ResetBudgetOf(P \cup {t}, L \ {s}) /\ IsFiniteSet(L \ {s})
<1>1. IsFiniteSet(P) BY DEF ResetBudgetOf
<1>2. PICK S : S = P \cup {t} OBVIOUS
<1>3. /\ IsFiniteSet(S) /\ Cardinality(S) \in Nat /\ Cardinality(P) \in Nat
      /\ Cardinality(S) <= Cardinality(P) + 1
  BY <1>1, <1>2, OneMore
<1>4. IsFiniteSet(L \ {s}) /\ Cardinality(L \ {s}) = Cardinality(L) - 1 BY FS_RemoveElement
<1>5. Cardinality(L) \in Nat /\ Cardinality(Slots) \in Nat
  BY FS_CardinalityType, AccountsAssumption
<1>6. ResetBudgetOf(S, L \ {s}) BY <1>3, <1>4, <1>5 DEF ResetBudgetOf
<1> QED BY <1>2, <1>4, <1>6

(* A session lapses and counts as before.                                   *)
LEMMA BudgetLapses ==
    ASSUME NEW P, NEW L, IsFiniteSet(L), ResetBudgetOf(P, L), NEW t \in P, NEW l
    PROVE  ResetBudgetOf((P \ {t}) \cup {l}, L)
<1>1. IsFiniteSet(P) /\ Cardinality(P) \in Nat BY FS_CardinalityType DEF ResetBudgetOf
<1>2. PICK R : R = P \ {t} OBVIOUS
<1>3. IsFiniteSet(R) /\ Cardinality(R) = Cardinality(P) - 1 BY <1>1, <1>2, FS_RemoveElement
<1>4. PICK S : S = R \cup {l} OBVIOUS
<1>5. /\ IsFiniteSet(S) /\ Cardinality(S) \in Nat
      /\ Cardinality(S) <= Cardinality(R) + 1
  BY <1>3, <1>4, OneMore
<1>6. Cardinality(L) \in Nat /\ Cardinality(Slots) \in Nat
  BY FS_CardinalityType, AccountsAssumption
<1>7. ResetBudgetOf(S, L) BY <1>1, <1>3, <1>5, <1>6 DEF ResetBudgetOf
<1> QED BY <1>2, <1>4, <1>7

(* Steps that read no password, or one of the present era, make nothing late. *)
Timely(c) == c.at \in {"open", "open_new"} => c.era = resets[c.who]
OnTime == calls' = calls \/ \E s \in Slots : \E c : Timely(c) /\ calls' = [calls EXCEPT ![s] = c]

LEMMA OnTimeCall ==
    ASSUME NEW s \in Slots, NEW c, Timely(c), calls' = [calls EXCEPT ![s] = c]
    PROVE  OnTime
BY DEF OnTime

LEMMA QuietOnTime ==
    ASSUME Quiet
    PROVE  OnTime
<1>1. ASSUME NEW s \in Slots, NEW c, Calm(c), calls' = [calls EXCEPT ![s] = c]
      PROVE  OnTime
  <2>1. Timely(c) BY <1>1 DEF Calm, Timely
  <2> QED BY <1>1, <2>1, OnTimeCall
<1> QED BY <1>1 DEF Quiet, OnTime

LEMMA LateKept ==
    ASSUME Typed, resets' = resets, NEW who \in Ids, OnTime
    PROVE  Late(who)' \subseteq Late(who)
<1>1. CASE calls' = calls BY <1>1 DEF Late
<1>2. ASSUME NEW s \in Slots, NEW c, Timely(c), calls' = [calls EXCEPT ![s] = c]
      PROVE  Late(who)' \subseteq Late(who)
  <2>1. \A t \in Slots : calls'[t] = IF t = s THEN c ELSE calls[t] BY <1>2 DEF Typed, TypeOK
  <2>2. ASSUME NEW t \in Late(who)' PROVE t \in Late(who)
    <3>1. t \in Slots /\ calls'[t].at \in {"open", "open_new"} /\ calls'[t].who = who
          /\ calls'[t].era # resets[who]
      BY <2>2 DEF Late
    <3> QED BY <1>2, <2>1, <3>1 DEF Late, Timely
  <2> QED BY <2>2
<1> QED BY <1>1, <1>2 DEF OnTime

(* A step opens a session, resets a password, lets a session lapse, or does *)
(* none of it.                                                              *)
LEMMA SessionsWritten ==
    ASSUME Typed, [Next]_vars
    PROVE  \/ /\ tokens' \subseteq tokens /\ resets' = resets
              /\ \A who \in Ids : Late(who)' \subseteq Late(who)
           \/ \E s \in Slots : Open(s) \/ SetPassword(s)
           \/ /\ \E t \in tokens : tokens' = (tokens \ {t}) \cup {[t EXCEPT !.lapsed = TRUE]}
              /\ UNCHANGED <<resets, calls>>
<1> DEFINE Idling == /\ tokens' \subseteq tokens /\ resets' = resets
                     /\ \A who \in Ids : Late(who)' \subseteq Late(who)
<1>1. CASE UNCHANGED vars BY <1>1 DEF vars, Late
<1>2. CASE Lapse
  <2>1. UNCHANGED <<resets, calls>> BY <1>2 DEF Lapse
  <2>2. CASE tokens' = tokens BY <2>1, <2>2 DEF Late
  <2> QED BY <1>2, <2>1, <2>2 DEF Lapse, Swept
<1>3. ASSUME NEW s \in Slots,
             \/ InsertAccount(s) \/ SendVerification(s) \/ Post(s) \/ CheckEmail(s)
             \/ SetEmail(s) \/ SetVerified(s) \/ SendReset(s)
      PROVE  Idling
  <2>1. UNCHANGED <<tokens, resets>>
    BY <1>3 DEF InsertAccount, SendVerification, Post, CheckEmail, SetEmail, SetVerified, SendReset
  <2> QED BY <1>3, <2>1, QuietSteps, QuietOnTime, LateKept
<1>4. ASSUME NEW s \in Slots,
             \/ \E name, addr, password : Register(s, name, addr, password)
             \/ \E t : Logout(s, t)
             \/ \E id, addr : ChangeEmail(s, id, addr)
             \/ \E id : ResendVerification(s, id)
             \/ \E id, n : ConfirmVerification(s, id, n)
             \/ \E addr : RequestReset(s, addr)
             \/ \E n, password : ConfirmReset(s, n, password)
      PROVE  Idling
  <2>1. tokens' \subseteq tokens /\ resets' = resets
    BY <1>4 DEF Register, Logout, ChangeEmail, ResendVerification, ConfirmVerification,
                RequestReset, ConfirmReset
  <2> QED BY <1>4, <2>1, QuietAsks, QuietOnTime, LateKept
<1>5. ASSUME NEW s \in Slots, NEW name \in Names, NEW password \in Passwords,
             Login(s, name, password)
      PROVE  Idling
  <2>1. UNCHANGED <<tokens, resets>> BY <1>5 DEF Login
  <2>2. PICK c : /\ Ask(s, c) /\ c.at \in {"fail", "open"}
                 /\ c.at = "open" => c.era = resets[c.who]
    BY <1>5, LoginAsks
  <2>3. calls' = [calls EXCEPT ![s] = c] /\ Timely(c) BY <2>2 DEF Ask, Timely
  <2>4. OnTime BY <2>3, OnTimeCall
  <2> QED BY <2>1, <2>4, LateKept
<1>6. ASSUME NEW s \in Slots, LoginFails(s) PROVE Idling
  <2>1. UNCHANGED <<tokens, resets>> /\ Quiet BY <1>6, QuietDone DEF LoginFails
  <2> QED BY <2>1, QuietOnTime, LateKept
<1>7. ASSUME NEW name, FailureAges(name) PROVE Idling
  BY <1>7 DEF FailureAges, Late
<1> HIDE DEF Idling
<1>8. Idling \/ (\E s \in Slots : Open(s) \/ SetPassword(s)) \/ Lapse \/ UNCHANGED vars
  BY <1>3, <1>4, <1>5, <1>6, <1>7 DEF Next
<1> QED BY <1>1, <1>2, <1>8 DEF Idling

LEMMA ResetStep ==
    ASSUME Typed, ResetBudget, [Next]_vars
    PROVE  ResetBudget'
<1> SUFFICES ASSUME NEW who \in Ids PROVE ResetBudgetOf(Outlived(who)', Late(who)')
  BY DEF ResetBudget, ResetBudgetOf
<1>0. PICK P, L : P = Outlived(who) /\ L = Late(who) OBVIOUS
<1>1. /\ ResetBudgetOf(P, L) /\ IsFiniteSet(L)
      /\ tokens \subseteq Token /\ resets \in [Ids -> Nat]
  BY <1>0, LateFinite DEF ResetBudget, ResetBudgetOf, Typed, TypeOK
<1>2. PICK Q, M : Q = Outlived(who)' /\ M = Late(who)' OBVIOUS
<1>3. CASE /\ tokens' \subseteq tokens /\ resets' = resets
           /\ \A w \in Ids : Late(w)' \subseteq Late(w)
  <2>1. Q \subseteq P /\ M \subseteq L BY <1>0, <1>2, <1>3 DEF Outlived
  <2>2. ResetBudgetOf(Q, M) BY <1>1, <2>1, BudgetShrinks
  <2> QED BY <1>2, <2>2
<1>4. ASSUME NEW s \in Slots, Open(s) PROVE ResetBudgetOf(Q, M)
  <2>0. PICK c : c = calls[s] OBVIOUS
  <2>1. PICK t : t = [id |-> issued + 1, who |-> c.who, era |-> c.era, lapsed |-> FALSE] OBVIOUS
  <2>2. /\ tokens' \subseteq tokens \cup {t} /\ resets' = resets /\ Quiet
        /\ c.at \in {"open", "open_new"}
    BY <1>4, <2>0, <2>1, QuietSteps DEF Open, Swept
  <2>3. M \subseteq L BY <1>0, <1>2, <2>2, QuietOnTime, LateKept
  <2>4. s \notin M
    <3>1. calls'[s].at \notin {"open", "open_new"}
      <4>1. calls[s] \in Call BY DEF Typed, TypeOK
      <4>2. calls' \in {[calls EXCEPT ![s] = Idle], [calls EXCEPT ![s] = [calls[s] EXCEPT !.at = "verify"]]}
        BY <1>4 DEF Open, Done, Goto
      <4>3. calls'[s] \in {Idle, [calls[s] EXCEPT !.at = "verify"]}
        BY <4>2 DEF Typed, TypeOK
      <4> QED BY <4>1, <4>3 DEF Call, Idle
    <3> QED BY <1>2, <3>1 DEF Late
  <2>5. Q \subseteq P \cup {t} BY <1>0, <1>2, <2>2 DEF Outlived
  <2>6. CASE c.who = who /\ c.era # resets[who]
    <3>1. s \in L BY <1>0, <2>0, <2>2, <2>6 DEF Late
    <3>2. M \subseteq L \ {s} BY <2>3, <2>4
    <3>3. ResetBudgetOf(P \cup {t}, L \ {s}) /\ IsFiniteSet(L \ {s})
      BY <1>1, <3>1, BudgetMoves
    <3> QED BY <2>5, <3>2, <3>3, BudgetShrinks
  <2>7. CASE ~(c.who = who /\ c.era # resets[who])
    <3>1. t \notin Q BY <1>2, <2>1, <2>2, <2>7 DEF Outlived
    <3>2. Q \subseteq P BY <1>0, <1>2, <2>2, <3>1 DEF Outlived
    <3> QED BY <1>1, <2>3, <3>2, BudgetShrinks
  <2> QED BY <2>6, <2>7
<1>5. ASSUME NEW s \in Slots, SetPassword(s) PROVE ResetBudgetOf(Q, M)
  <2>1. PICK w : w = calls[s].who OBVIOUS
  <2>2. /\ tokens' = {t \in tokens : t.who # w} /\ resets' = [resets EXCEPT ![w] = @ + 1]
        /\ Done(s)
    BY <1>5, <2>1 DEF SetPassword, Revoked, Others
  <2>3. PICK c : c = Idle OBVIOUS
  <2>4. c.at = "idle" /\ calls' = [calls EXCEPT ![s] = c]
    BY <2>2, <2>3 DEF Done, Goto, Idle
  <2>5. \A t \in Slots : calls'[t] = IF t = s THEN c ELSE calls[t] BY <2>4 DEF Typed, TypeOK
  <2>6. s \notin M BY <1>2, <2>4, <2>5 DEF Late
  <2>7. CASE who = w
    <3>1. Q = {} BY <1>2, <2>2, <2>7 DEF Outlived
    <3>2. M \subseteq Slots \ {s} BY <1>2, <2>6 DEF Late
    <3>3. IsFiniteSet(Slots \ {s}) /\ Cardinality(Slots \ {s}) = Cardinality(Slots) - 1
      BY AccountsAssumption, FS_RemoveElement
    <3>4. IsFiniteSet(M) /\ Cardinality(M) <= Cardinality(Slots \ {s}) BY <3>2, <3>3, FS_Subset
    <3>5. Cardinality(M) \in Nat /\ Cardinality(Slots) \in Nat
      BY <3>4, FS_CardinalityType, AccountsAssumption
    <3>6. IsFiniteSet(Q) /\ Cardinality(Q) = 0 BY <3>1, FS_EmptySet
    <3> QED BY <3>3, <3>4, <3>5, <3>6 DEF ResetBudgetOf
  <2>8. CASE who # w
    <3>1. resets'[who] = resets[who] BY <1>1, <2>2, <2>8
    <3>2. Q \subseteq P BY <1>0, <1>2, <2>2, <3>1 DEF Outlived
    <3>3. M \subseteq L BY <1>0, <1>2, <2>5, <2>6, <3>1 DEF Late
    <3> QED BY <1>1, <3>2, <3>3, BudgetShrinks
  <2> QED BY <2>7, <2>8
<1>6. ASSUME NEW t \in tokens, tokens' = (tokens \ {t}) \cup {[t EXCEPT !.lapsed = TRUE]},
             UNCHANGED <<resets, calls>>
      PROVE  ResetBudgetOf(Q, M)
  <2>1. PICK l : l = [t EXCEPT !.lapsed = TRUE] OBVIOUS
  <2>2. l.who = t.who /\ l.era = t.era BY <1>1, <2>1 DEF Token
  <2>3. M \subseteq L BY <1>0, <1>2, <1>6 DEF Late
  <2>4. CASE t \in P
    <3>1. Q \subseteq (P \ {t}) \cup {l} BY <1>0, <1>2, <1>6, <2>1 DEF Outlived
    <3>2. ResetBudgetOf((P \ {t}) \cup {l}, L) BY <1>1, <2>4, BudgetLapses
    <3> QED BY <1>1, <2>3, <3>1, <3>2, BudgetShrinks
  <2>5. CASE t \notin P
    <3>1. l \notin Q BY <1>0, <1>2, <1>6, <2>2, <2>5 DEF Outlived
    <3>2. Q \subseteq P BY <1>0, <1>2, <1>6, <2>1, <3>1 DEF Outlived
    <3> QED BY <1>1, <2>3, <3>2, BudgetShrinks
  <2> QED BY <2>4, <2>5
<1> QED BY <1>2, <1>3, <1>4, <1>5, <1>6, SessionsWritten

-----------------------------------------------------------------------------
(* The inductive invariant, and what follows from it.                       *)

LEMMA InitInv == Init => IInv
<1> SUFFICES ASSUME Init PROVE IInv
  OBVIOUS
<1>0. Database(accounts) BY AccountsAssumption DEF Init
<1>1. TypeOK
  <2>1. Idle \in Call BY IdleOK DEF CallOK
  <2>2. calls \in [Slots -> Call] BY <2>1 DEF Init
  <2>3. DOMAIN accounts \subseteq Ids /\ \A id \in DOMAIN accounts : accounts[id] \in Row
    BY <1>0 DEF Database
  <2>4. proven \subseteq Ids \X Addresses
    <3>1. ASSUME NEW id \in DOMAIN accounts, accounts[id].verified
          PROVE  <<id, accounts[id].email>> \in Ids \X Addresses
      <4>1. accounts[id].email # NoAddress BY <1>0, <3>1 DEF Database
      <4>2. accounts[id] \in Row /\ id \in Ids BY <2>3
      <4> QED BY <4>1, <4>2 DEF Row, AnyAddress
    <3> QED BY <3>1 DEF Init
  <2>5. inbox = {} /\ tokens = {} /\ resetCodes = {} /\ verifyCodes = {} BY DEF Init
  <2>6. /\ failures \in [Names -> Nat] /\ resets \in [Ids -> Nat]
        /\ issued = 0 /\ asked \in 0..MaxCalls /\ lapses \in 0..MaxLapses
    BY AccountsAssumption DEF Init
  <2> QED BY <2>2, <2>3, <2>4, <2>5, <2>6 DEF TypeOK
<1>2. CallsInv BY IdleOK DEF Init, CallsInv
<1>3. OneHolderPerName /\ OneCodeEach
  BY <1>0 DEF Init, Database, OneHolderPerName, OneCodeEach
<1>5. AddressesProven BY DEF Init, AddressesProven
<1>6. ResetBudget
  <2>1. ASSUME NEW who \in Ids PROVE Outlived(who) = {} /\ Late(who) = {}
    <3>1. Outlived(who) = {} BY DEF Init, Outlived
    <3>2. \A s \in Slots : calls[s].at = "idle" BY DEF Init, Idle
    <3> QED BY <3>1, <3>2 DEF Late
  <2>2. Cardinality(Slots) \in Nat /\ Cardinality(Slots) # 0
    BY AccountsAssumption, FS_CardinalityType, FS_EmptySet
  <2>3. ASSUME NEW who \in Ids
        PROVE  /\ IsFiniteSet(Outlived(who))
               /\ Cardinality(Outlived(who)) = 0 /\ Cardinality(Late(who)) = 0
    BY <2>1, FS_EmptySet
  <2> QED BY <2>2, <2>3 DEF ResetBudget
<1>4. FailuresBudget
  <2>1. \A name \in Names : Pending(name) = {} BY DEF Init, Pending, Idle
  <2>3. \A name \in Names : failures[name] = 0 BY DEF Init
  <2>4. \A name \in Names : Cardinality(Pending(name)) = 0 BY <2>1, FS_EmptySet
  <2>5. Cardinality(Slots) \in Nat BY FS_CardinalityType, AccountsAssumption
  <2>6. 0 + 0 <= FailureLimit - 1 + Cardinality(Slots) BY <2>5, AccountsAssumption
  <2> QED BY <2>3, <2>4, <2>6 DEF FailuresBudget
<1> QED BY <1>1, <1>2, <1>3, <1>4, <1>5, <1>6 DEF IInv, TablesInv

LEMMA InvStep == IInv /\ [Next]_vars => IInv'
<1> SUFFICES ASSUME IInv, [Next]_vars PROVE IInv'
  OBVIOUS
<1>1. Typed /\ OneHolderPerName /\ OneCodeEach BY DEF IInv, TablesInv, Typed
<1>2. AddressesProven /\ ResetBudget /\ FailuresBudget BY DEF IInv
<1>3. Typed' BY <1>1, <1>2, TypedStep
<1>4. OneHolderPerName' /\ OneCodeEach' BY <1>1, NamesStep, CodesStep
<1>5. AddressesProven'
  <2>1. VerifiedProven BY <1>2 DEF VerifiedProven, AddressesProven
  <2>2. VerifiedProven' BY <1>1, <2>1, VerifiedStep
  <2>3. \A r \in resetCodes' : <<r.who, r.to>> \in proven' BY <1>1, <1>2, ResetCodesStep
  <2> QED BY <2>2, <2>3 DEF AddressesProven, VerifiedProven
<1>6. ResetBudget' BY <1>1, <1>2, ResetStep
<1>7. FailuresBudget' BY <1>1, <1>2, <1>3, BudgetStep
<1> QED BY <1>3, <1>4, <1>5, <1>6, <1>7 DEF IInv, TablesInv, Typed

LEMMA Inductive == Spec => []IInv
BY InitInv, InvStep, PTL DEF Spec

(* The tables hang together: one account of a name, one outstanding code of *)
(* each kind for an account, however registrations and requests overlap.    *)
THEOREM TablesSafe == Spec => []TablesInv
<1>1. IInv => TablesInv BY DEF IInv
<1> QED BY <1>1, Inductive, PTL

(* An address counts as verified only after its account entered a code      *)
(* mailed there, and reset codes go to such addresses alone.                *)
THEOREM AddressesSafe == Spec => []AddressesProven
<1>1. IInv => AddressesProven BY DEF IInv
<1> QED BY <1>1, Inductive, PTL

(* The sessions of an account that were opened with a password a reset has *)
(* replaced are fewer than the requests a worker has in progress.           *)
THEOREM SessionsSafe == Spec => []FewOutliveReset
<1>1. IInv => FewOutliveReset
  <2> SUFFICES ASSUME IInv, NEW who \in Ids
               PROVE  Cardinality(Outlived(who)) < Cardinality(Slots)
    BY DEF FewOutliveReset
  <2>1. /\ IsFiniteSet(Outlived(who))
        /\ Cardinality(Outlived(who)) + Cardinality(Late(who)) < Cardinality(Slots)
    BY DEF IInv, ResetBudget
  <2>2. Cardinality(Outlived(who)) \in Nat BY <2>1, FS_CardinalityType
  <2> QED BY <2>1, <2>2, LateFinite
<1> QED BY <1>1, Inductive, PTL

(* The failure window is overshot by less than the requests in progress.    *)
THEOREM FailuresSafe == Spec => []FailuresNearLimit
<1>1. IInv => FailuresNearLimit
  <2> SUFFICES ASSUME IInv, NEW name \in Names
               PROVE  failures[name] < FailureLimit + Cardinality(Slots)
    BY DEF FailuresNearLimit
  <2>1. failures[name] + Cardinality(Pending(name)) <= FailureLimit - 1 + Cardinality(Slots)
    BY DEF IInv, FailuresBudget
  <2>2. failures[name] \in Nat BY DEF IInv, TablesInv, TypeOK
  <2>3. Cardinality(Pending(name)) \in Nat /\ Cardinality(Slots) \in Nat /\ FailureLimit \in Nat
    BY PendingFinite, FS_CardinalityType, AccountsAssumption
  <2> QED BY <2>1, <2>2, <2>3
<1> QED BY <1>1, Inductive, PTL
=============================================================================
