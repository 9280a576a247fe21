---------------------------- MODULE ServerProofs ----------------------------
(***************************************************************************)
(* Theorems about what gt-mcp keeps: its identities, for any names,        *)
(* bootstrap tokens, codes and requests in progress; its run windows, for  *)
(* any number of runs, calls and faults; its projects, for any users,      *)
(* administrators, projects, sessions and number of calls in progress;     *)
(* what it shows of the sessions that the pipeline captures; its raw store *)
(* while it is opened, and what decoding its packets again leaves in it;   *)
(* and the rows its probes have.  Then the development of a plugin, for    *)
(* any number of callers, attempts, launches and edits: what a call has    *)
(* seen of the processes is still so when it acts, as long as activations  *)
(* and deactivations come one after the other; explanations need no such   *)
(* order.                                                                  *)
(***************************************************************************)
EXTENDS Accounts, RunBook, Projects, Sessions, RawTime, OfflineDecode, ProbeRows,
        PluginDev, TLAPS, FiniteSetTheorems, SequenceTheorems, WellFoundedInduction

Ops == {"none", "register", "start", "invite", "mark"}
OptName == Names \cup {NoName}

\* A request that is under way has a name.
AccTypeOK ==
    /\ users \in [Names -> Nat]
    /\ codes \in [Codes -> [by : OptName, new : OptName, expired : BOOLEAN, claimed : BOOLEAN]]
    /\ acalls \in [AccCallers -> [op : Ops, name : OptName, code : Codes \cup {NoName}, token : Nat]]
    /\ \A c \in AccCallers : acalls[c].op # "none" => acalls[c].name \in Names
    /\ issued \in Seq(Names)
    /\ revoked \subseteq Nat
    /\ starts \in Nat

\* The row of a user holds the token issued last for his name, and it is not revoked.
RowsAreIssued ==
    \A n \in Names : users[n] # 0 =>
        users[n] \in DOMAIN issued /\ issued[users[n]] = n /\ users[n] \notin revoked

\* A token that is not revoked is in the row of the user it was issued for.
IssuedHaveRows == \A t \in DOMAIN issued : t \notin revoked => users[issued[t]] = t

\* Only tokens that were issued are revoked.
RevokedWereIssued == revoked \subseteq DOMAIN issued

AccInv == AccTypeOK /\ RowsAreIssued /\ IssuedHaveRows /\ RevokedWereIssued

(***************************************************************************)
(* A new row.                                                              *)
(***************************************************************************)
\* The number of a new token is one more than that of every token issued before.
LEMMA InsertKeeps ==
    ASSUME AccInv, NEW n \in Names, CreateUser(n), UNCHANGED revoked
    PROVE  /\ users' \in [Names -> Nat] /\ issued' \in Seq(Names)
           /\ RowsAreIssued' /\ IssuedHaveRows' /\ RevokedWereIssued'
<1> DEFINE k == Len(issued) + 1
<1>1. users[n] = 0 /\ users' = [users EXCEPT ![n] = k] /\ issued' = Append(issued, n)
  BY DEF CreateUser, Insert, OwnerExists
<1>2. k \in Nat \ {0} /\ DOMAIN issued = 1 .. k - 1 /\ DOMAIN issued' = 1 .. k /\ issued' \in Seq(Names)
  BY <1>1, AppendProperties, LenProperties DEF AccInv, AccTypeOK
<1>3. issued'[k] = n /\ \A t \in 1 .. k - 1 : issued'[t] = issued[t]
  BY <1>1, AppendProperties, LenProperties DEF AccInv, AccTypeOK
<1>4. users' \in [Names -> Nat] /\ users'[n] = k /\ \A m \in Names \ {n} : users'[m] = users[m]
  BY <1>1, <1>2 DEF AccInv, AccTypeOK
<1>5. k \notin revoked
  BY <1>2 DEF AccInv, RevokedWereIssued
<1> HIDE DEF k
<1>6. RowsAreIssued'
  BY <1>2, <1>3, <1>4, <1>5 DEF AccInv, RowsAreIssued
<1>7. IssuedHaveRows'
  <2>1. ASSUME NEW t \in DOMAIN issued', t \notin revoked'
        PROVE  users'[issued'[t]] = t
    <3>1. CASE t = k
      BY <3>1, <1>3, <1>4
    <3>2. CASE t # k
      <4>1. t \in DOMAIN issued /\ issued'[t] = issued[t] /\ issued[t] \in Names
        BY <3>2, <1>2, <1>3 DEF AccInv, AccTypeOK
      <4>2. users[issued[t]] = t /\ t # 0
        BY <4>1, <2>1, <1>2 DEF AccInv, IssuedHaveRows
      <4>3. QED
        BY <4>1, <4>2, <1>1, <1>4
    <3>3. QED
      BY <3>1, <3>2
  <2>2. QED
    BY <2>1 DEF IssuedHaveRows
<1>8. RevokedWereIssued'
  BY <1>2 DEF AccInv, RevokedWereIssued
<1>9. QED
  BY <1>2, <1>4, <1>6, <1>7, <1>8

\* What does not touch rows and tokens keeps what relates them.
LEMMA RowsUntouched ==
    ASSUME AccInv, UNCHANGED <<users, issued, revoked>>
    PROVE  RowsAreIssued' /\ IssuedHaveRows' /\ RevokedWereIssued'
BY DEF AccInv, RowsAreIssued, IssuedHaveRows, RevokedWereIssued

(***************************************************************************)
(* The invariant.                                                          *)
(***************************************************************************)
LEMMA AccInvInit == AccInit => AccInv
BY EmptySeq DEF AccInit, AccInv, AccTypeOK, AccIdle, NoCode, Ops, OptName, RowsAreIssued, IssuedHaveRows, RevokedWereIssued

\* What a caller's step does to the calls in progress.
LEMMA CallStep ==
    ASSUME AccTypeOK, NEW c \in AccCallers,
           NEW r \in [op : Ops, name : OptName, code : Codes \cup {NoName}, token : Nat],
           r.op # "none" => r.name \in Names,
           acalls' = [acalls EXCEPT ![c] = r]
    PROVE  /\ acalls' \in [AccCallers -> [op : Ops, name : OptName, code : Codes \cup {NoName}, token : Nat]]
           /\ \A d \in AccCallers : acalls'[d].op # "none" => acalls'[d].name \in Names
BY DEF AccTypeOK

\* Every step keeps the invariant.
LEMMA AccInvStep == AccInv /\ [AccNext]_accVars => AccInv'
<1> SUFFICES ASSUME AccInv, [AccNext]_accVars PROVE AccInv'
  OBVIOUS
<1> USE AccAssumption
<1>0. AccTypeOK
  BY DEF AccInv
<1>id. AccIdle \in [op : Ops, name : OptName, code : Codes \cup {NoName}, token : Nat] /\ AccIdle.op = "none"
  BY DEF AccIdle, Ops, OptName
<1>1. ASSUME NEW c \in AccCallers, NEW n \in Names, RegisterChecks(c, n) PROVE AccInv'
  <2> DEFINE r == [AccIdle EXCEPT !.op = "register", !.name = n]
  <2>1. acalls' = [acalls EXCEPT ![c] = r] /\ UNCHANGED <<users, codes, issued, revoked, starts>>
    BY <1>1 DEF RegisterChecks
  <2>2. r \in [op : Ops, name : OptName, code : Codes \cup {NoName}, token : Nat] /\ r.name \in Names
    BY DEF AccIdle, Ops, OptName
  <2> HIDE DEF r
  <2>3. AccTypeOK'
    BY <1>0, <2>1, <2>2, CallStep DEF AccTypeOK
  <2>4. QED
    BY <2>1, <2>3, RowsUntouched DEF AccInv
<1>2. ASSUME NEW c \in AccCallers, NEW k \in Codes, ClaimReads(c, k) PROVE AccInv'
  <2> DEFINE r == [AccIdle EXCEPT !.op = IF codes[k].new = NoName THEN "start" ELSE "invite",
                                  !.name = IF codes[k].new = NoName THEN codes[k].by ELSE codes[k].new,
                                  !.code = k]
  <2>1. acalls' = [acalls EXCEPT ![c] = r] /\ codes[k].by # NoName /\ UNCHANGED <<users, codes, issued, revoked, starts>>
    BY <1>2 DEF ClaimReads
  <2>2. r \in [op : Ops, name : OptName, code : Codes \cup {NoName}, token : Nat] /\ r.name \in Names
    BY <1>0, <2>1 DEF AccIdle, Ops, OptName, AccTypeOK
  <2> HIDE DEF r
  <2>3. AccTypeOK'
    BY <1>0, <2>1, <2>2, CallStep DEF AccTypeOK
  <2>4. QED
    BY <2>1, <2>3, RowsUntouched DEF AccInv
<1>3. ASSUME NEW c \in AccCallers, handleRegister(c) PROVE AccInv'
  <2>1. acalls' = [acalls EXCEPT ![c] = AccIdle] /\ UNCHANGED <<codes, revoked, starts>> /\ acalls[c].name \in Names
    BY <1>0, <1>3 DEF handleRegister, AccReturns, AccTypeOK
  <2>2. CASE CreateUser(acalls[c].name)
    <3>1. users' \in [Names -> Nat] /\ issued' \in Seq(Names) /\ RowsAreIssued' /\ IssuedHaveRows' /\ RevokedWereIssued'
      BY <2>1, <2>2, InsertKeeps
    <3>2. AccTypeOK'
      BY <1>0, <1>id, <2>1, <3>1, CallStep DEF AccTypeOK
    <3>3. QED
      BY <3>1, <3>2 DEF AccInv
  <2>3. CASE UNCHANGED <<users, issued>>
    <3>1. AccTypeOK'
      BY <1>0, <1>id, <2>1, <2>3, CallStep DEF AccTypeOK
    <3>2. QED
      BY <2>1, <2>3, <3>1, RowsUntouched DEF AccInv
  <2>4. QED
    BY <1>3, <2>2, <2>3 DEF handleRegister
<1>4. ASSUME NEW c \in AccCallers, ClaimInvites(c) PROVE AccInv'
  <2>1. UNCHANGED <<codes, revoked, starts>> /\ acalls[c].name \in Names
    BY <1>0, <1>4 DEF ClaimInvites, AccTypeOK
  <2>2. CASE /\ CreateUser(acalls[c].name)
             /\ acalls' = [acalls EXCEPT ![c].op = "start", ![c].token = users'[acalls[c].name]]
    <3>1. users' \in [Names -> Nat] /\ issued' \in Seq(Names) /\ RowsAreIssued' /\ IssuedHaveRows' /\ RevokedWereIssued'
      BY <2>1, <2>2, InsertKeeps
    <3>2. acalls' = [acalls EXCEPT ![c] = [acalls[c] EXCEPT !.op = "start", !.token = users'[acalls[c].name]]]
      BY <2>2
    <3>3. [acalls[c] EXCEPT !.op = "start", !.token = users'[acalls[c].name]]
              \in [op : Ops, name : OptName, code : Codes \cup {NoName}, token : Nat]
      BY <1>0, <2>1, <3>1 DEF AccTypeOK, Ops
    <3>4. [acalls[c] EXCEPT !.op = "start", !.token = users'[acalls[c].name]].name = acalls[c].name
      BY <1>0 DEF AccTypeOK
    <3>5. AccTypeOK'
      BY <1>0, <2>1, <3>1, <3>2, <3>3, <3>4, CallStep DEF AccTypeOK
    <3>6. QED
      BY <3>1, <3>5 DEF AccInv
  <2>3. CASE AccReturns(c) /\ UNCHANGED <<users, issued>>
    <3>1. AccTypeOK'
      BY <1>0, <1>id, <2>1, <2>3, CallStep DEF AccTypeOK, AccReturns
    <3>2. QED
      BY <2>1, <2>3, <3>1, RowsUntouched DEF AccInv
  <2>4. QED
    BY <1>4, <2>2, <2>3 DEF ClaimInvites
<1>5. ASSUME NEW c \in AccCallers, ClaimStarts(c) PROVE AccInv'
  <2>1. UNCHANGED <<users, codes, issued, revoked>> /\ acalls[c].op = "start" /\ acalls[c].name \in Names
    BY <1>0, <1>5 DEF ClaimStarts, AccTypeOK
  <2>2. starts' \in Nat
    BY <1>0, <1>5 DEF ClaimStarts, AccTypeOK
  <2>3. \E r \in [op : Ops, name : OptName, code : Codes \cup {NoName}, token : Nat] :
            acalls' = [acalls EXCEPT ![c] = r] /\ (r.op # "none" => r.name \in Names)
    <3>1. CASE acalls' = [acalls EXCEPT ![c].op = "mark"]
      <4> DEFINE r == [acalls[c] EXCEPT !.op = "mark"]
      <4>1. r \in [op : Ops, name : OptName, code : Codes \cup {NoName}, token : Nat] /\ r.name \in Names
        BY <1>0, <2>1 DEF AccTypeOK, Ops
      <4>2. acalls' = [acalls EXCEPT ![c] = r]
        BY <3>1
      <4>3. QED
        BY <4>1, <4>2
    <3>2. CASE AccReturns(c)
      BY <3>2, <1>id DEF AccReturns
    <3>3. QED
      BY <1>5, <3>1, <3>2 DEF ClaimStarts
  <2>4. AccTypeOK'
    BY <1>0, <2>1, <2>2, <2>3, CallStep DEF AccTypeOK
  <2>5. QED
    BY <2>1, <2>4, RowsUntouched DEF AccInv
<1>6. ASSUME NEW c \in AccCallers, handleAccessClaim(c) PROVE AccInv'
  <2>1. /\ acalls' = [acalls EXCEPT ![c] = AccIdle] /\ UNCHANGED <<users, issued, revoked, starts>>
        /\ codes' = [codes EXCEPT ![acalls[c].code].claimed = TRUE]
    BY <1>6 DEF handleAccessClaim, AccReturns
  <2>2. codes' \in [Codes -> [by : OptName, new : OptName, expired : BOOLEAN, claimed : BOOLEAN]]
    BY <1>0, <2>1 DEF AccTypeOK
  <2>3. AccTypeOK'
    BY <1>0, <1>id, <2>1, <2>2, CallStep DEF AccTypeOK
  <2>4. QED
    BY <2>1, <2>3, RowsUntouched DEF AccInv
<1>7. ASSUME NEW k \in Codes, CodeExpires(k) PROVE AccInv'
  <2>1. AccTypeOK'
    BY <1>0, <1>7 DEF CodeExpires, AccTypeOK
  <2>2. QED
    BY <1>7, <2>1, RowsUntouched DEF AccInv, CodeExpires
<1>8. ASSUME NEW k \in Codes, NEW by \in Names, NEW new \in Names \cup {NoName}, handleCreateAccessCode(k, by, new) PROVE AccInv'
  <2>1. AccTypeOK'
    BY <1>0, <1>8 DEF handleCreateAccessCode, AccTypeOK, NoCode, OptName
  <2>2. QED
    BY <1>8, <2>1, RowsUntouched DEF AccInv, handleCreateAccessCode
<1>9. ASSUME NEW by \in Names, NEW n \in Names, handleRevokeUser(by, n) PROVE AccInv'
  <2>1. /\ users[n] # 0 /\ revoked' = revoked \cup {users[n]} /\ users' = [users EXCEPT ![n] = 0]
        /\ UNCHANGED <<codes, acalls, issued, starts>>
    BY <1>9 DEF handleRevokeUser, OwnerExists
  <2>2. users[n] \in DOMAIN issued /\ issued[users[n]] = n /\ \A t \in DOMAIN issued : issued[t] \in Names
    BY <2>1 DEF AccInv, RowsAreIssued, AccTypeOK
  <2>3. AccTypeOK'
    <3>1. users' \in [Names -> Nat]
      BY <1>0, <2>1 DEF AccTypeOK
    <3>2. users[n] \in Nat
      BY <1>0 DEF AccTypeOK
    <3>3. revoked' \subseteq Nat
      BY <1>0, <2>1, <3>2, Zenon DEF AccTypeOK
    <3>4. QED
      BY <1>0, <2>1, <3>1, <3>3 DEF AccTypeOK
  <2>4. RowsAreIssued'
    <3>1. ASSUME NEW m \in Names, users'[m] # 0
          PROVE  users'[m] \in DOMAIN issued /\ issued[users'[m]] = m /\ users'[m] \notin revoked'
      <4>1. m # n /\ users'[m] = users[m]
        BY <1>0, <2>1, <3>1 DEF AccTypeOK
      <4>2. users[m] \in DOMAIN issued /\ issued[users[m]] = m /\ users[m] \notin revoked
        BY <3>1, <4>1 DEF AccInv, RowsAreIssued
      <4>3. QED
        BY <2>1, <2>2, <4>1, <4>2
    <3>2. QED
      BY <2>1, <3>1 DEF RowsAreIssued
  <2>5. IssuedHaveRows'
    <3>1. ASSUME NEW t \in DOMAIN issued, t \notin revoked'
          PROVE  users'[issued[t]] = t
      <4>1. users[issued[t]] = t /\ t # users[n] /\ issued[t] \in Names
        BY <2>1, <2>2, <3>1 DEF AccInv, IssuedHaveRows
      <4>2. QED
        BY <1>0, <2>1, <4>1 DEF AccTypeOK
    <3>2. QED
      BY <2>1, <3>1 DEF IssuedHaveRows
  <2>6. RevokedWereIssued'
    BY <2>1, <2>2 DEF AccInv, RevokedWereIssued
  <2>7. QED
    BY <2>3, <2>4, <2>5, <2>6 DEF AccInv
<1>10. ASSUME AccRestart PROVE AccInv'
  <2>1. AccTypeOK'
    BY <1>0, <1>id, <1>10 DEF AccRestart, AccTypeOK
  <2>2. QED
    BY <1>10, <2>1, RowsUntouched DEF AccInv, AccRestart
<1>11. ASSUME UNCHANGED accVars PROVE AccInv'
  BY <1>11 DEF accVars, AccInv, AccTypeOK, RowsAreIssued, IssuedHaveRows, RevokedWereIssued
<1>12. QED
  BY <1>1, <1>2, <1>3, <1>4, <1>5, <1>6, <1>7, <1>8, <1>9, <1>10, <1>11 DEF AccNext

\* The invariant gives the resolver's answer for every token ever issued.
LEMMA AccInvTokens == AccInv => TokensKept
<1> SUFFICES ASSUME AccInv, NEW t \in DOMAIN issued
             PROVE  IF t \in revoked THEN Resolve(t) \subseteq {Anonymous} ELSE Resolve(t) = {issued[t]}
  BY DEF TokensKept
<1>1. t # 0 /\ issued[t] \in Names
  BY LenProperties DEF AccInv, AccTypeOK
<1>2. CASE t \in revoked
  <2>1. DBResolve(t) = {}
    BY <1>1, <1>2 DEF DBResolve, AccInv, RowsAreIssued
  <2>2. QED
    BY <1>2, <2>1 DEF Resolve
<1>3. CASE t \notin revoked
  <2>1. users[issued[t]] = t
    BY <1>3 DEF AccInv, IssuedHaveRows
  <2>2. \A n \in Names : users[n] = t => n = issued[t]
    BY <1>1 DEF AccInv, RowsAreIssued
  <2>3. DBResolve(t) = {issued[t]}
    BY <1>1, <2>1, <2>2 DEF DBResolve
  <2>4. QED
    BY <1>3, <2>3 DEF Resolve
<1>4. QED
  BY <1>2, <1>3

\* A token speaks for the name it was issued for until that name is revoked and
\* never afterwards, for any number of names, codes, requests and tokens.
THEOREM TokensSafe == AccSpec => []TokensKept
<1>1. AccInit => AccInv
  BY AccInvInit
<1>2. AccInv /\ [AccNext]_accVars => AccInv'
  BY AccInvStep
<1>3. AccInv => TokensKept
  BY AccInvTokens
<1>4. QED
  BY <1>1, <1>2, <1>3, PTL DEF AccSpec

(***************************************************************************)
(* Run windows.                                                            *)
(***************************************************************************)
FileStates == {"none", "broken", "open", "ended", "stale"}
RunCall == [op : {"none", "begin", "end"}, r : Nat]

RunTypeOK ==
    /\ runFile \in [RunIds -> FileStates]
    /\ activeRuns \subseteq RunIds
    /\ aged \subseteq RunIds /\ begun \subseteq RunIds /\ endTried \subseteq RunIds
    /\ rcalls \in [RunCallers -> RunCall]
    /\ \A c \in RunCallers : rcalls[c].op # "none" => rcalls[c].r \in RunIds

\* What a run that should be open looks like: in memory for this process, in the
\* file for the next one.
OpenBoth == \A r \in begun \ (endTried \cup aged) : r \in activeRuns /\ runFile[r] = "open"

RunInv == RunTypeOK /\ OpenBoth

\* A non-empty set of naturals has a least element.
LEMMA LeastExists ==
    ASSUME NEW S, S \subseteq Nat, S # {}
    PROVE  \E m \in S : \A x \in S : m <= x
<1>1. PICK m \in S : \A x \in S : ~ (<<x, m>> \in OpToRel(<, Nat))
  BY NatLessThanWellFounded, WFMin, Zenon
<1>2. \A x \in S : ~ (x < m)
  BY <1>1, Zenon DEF OpToRel
<1>3. QED
  BY <1>2

\* A non-empty set of numbers up to b has a greatest one.
LEMMA GreatestBelow ==
    ASSUME NEW b \in Nat, NEW S, S \subseteq 1 .. b, S # {}
    PROVE  \E m \in S : \A x \in S : x <= m
<1> DEFINE T == {n \in Nat : \E x \in S : n = b - x}
<1>1. PICK x \in S : x \in 1 .. b
  OBVIOUS
<1>2. b - x \in T
  BY <1>1
<1>3. PICK t \in T : \A n \in T : t <= n
  BY <1>2, LeastExists
<1>4. PICK m \in S : t = b - m
  OBVIOUS
<1>5. ASSUME NEW y \in S PROVE y <= m
  <2>1. y \in 1 .. b /\ m \in 1 .. b
    OBVIOUS
  <2>2. b - y \in T
    BY <2>1
  <2>3. b - m <= b - y
    BY <2>2, <1>3, <1>4
  <2>4. QED
    BY <2>1, <2>3
<1>6. QED
  BY <1>5

\* The id made for a new run is at least 1.
LEMMA RunIdTyped == GenerateRunID \in Nat \ {0}
<1> DEFINE used == {r \in RunIds : runFile[r] # "none"}
           greatest == CHOOSE m \in used : \A r \in used : r <= m
<1>1. used \subseteq 1 .. MaxRuns
  BY DEF RunIds
<1>2. CASE used = {}
  BY <1>2 DEF GenerateRunID
<1>3. CASE used # {}
  <2>1. \E m \in used : \A r \in used : r <= m
    BY <1>1, <1>3, RunAssumption, GreatestBelow
  <2>2. greatest \in used
    BY <2>1
  <2>3. greatest \in Nat
    BY <1>1, <2>2, RunAssumption
  <2>4. GenerateRunID = 1 + greatest
    BY <1>3 DEF GenerateRunID
  <2>5. QED
    BY <2>3, <2>4
<1>4. QED
  BY <1>2, <1>3

\* Writing one run's file leaves the others alone.
LEMMA PersistTouchesOne ==
    ASSUME RunTypeOK, NEW r \in RunIds, NEW st \in FileStates, persist(r, st)
    PROVE  /\ runFile' \in [RunIds -> FileStates]
           /\ \A q \in RunIds \ {r} : runFile'[q] = runFile[q]
BY DEF RunTypeOK, persist, FileStates

\* No run is begun at first.
LEMMA RunInvInit == RunInit => RunInv
BY DEF RunInit, RunInv, RunTypeOK, OpenBoth, RunIdle, RunCall, FileStates

\* Every step keeps the invariant.
LEMMA RunInvStep == RunInv /\ [RunNext]_runVars => RunInv'
<1> SUFFICES ASSUME RunInv, [RunNext]_runVars PROVE RunInv'
  OBVIOUS
<1>0. RunTypeOK /\ OpenBoth
  BY DEF RunInv
<1>id. RunIdle \in RunCall /\ RunIdle.op = "none"
  BY DEF RunIdle, RunCall
<1>1. ASSUME NEW c \in RunCallers, handleBeginCaptureRun(c) PROVE RunInv'
  <2>1. GenerateRunID \in RunIds
    BY <1>1, RunIdTyped, RunAssumption DEF handleBeginCaptureRun, RunIds
  <2>2. PICK k \in RunCall : k.r \in RunIds /\ rcalls' = [rcalls EXCEPT ![c] = k]
    <3> DEFINE k == [op |-> "begin", r |-> GenerateRunID]
    <3>1. k \in RunCall /\ k.r \in RunIds
      BY <2>1 DEF RunCall, RunIds
    <3>2. QED
      BY <1>1, <3>1 DEF handleBeginCaptureRun
  <2>3. RunTypeOK'
    BY <1>0, <1>1, <2>2 DEF handleBeginCaptureRun, RunTypeOK
  <2>4. QED
    BY <1>0, <1>1, <2>3 DEF handleBeginCaptureRun, RunInv, OpenBoth
<1>2. ASSUME NEW c \in RunCallers, Begin(c) PROVE RunInv'
  <2>1. PICK r \in RunIds : r = rcalls[c].r
    BY <1>0, <1>2 DEF Begin, RunTypeOK
  <2>2. rcalls' \in [RunCallers -> RunCall] /\ \A d \in RunCallers : rcalls'[d].op # "none" => rcalls'[d].r \in RunIds
    BY <1>0, <1>id, <1>2 DEF Begin, RunTypeOK
  <2>3. CASE r \in activeRuns
    <3>1. UNCHANGED <<runFile, activeRuns, aged, begun, endTried>>
      BY <1>2, <2>1, <2>3 DEF Begin
    <3>2. QED
      BY <1>0, <2>2, <3>1 DEF RunInv, RunTypeOK, OpenBoth
  <2>4. CASE r \notin activeRuns
    <3>1. /\ activeRuns' = activeRuns \cup {r} /\ aged' = aged \ {r} /\ persist(r, "open")
          /\ begun' = IF runFile'[r] = "open" /\ runFaults' = runFaults THEN begun \cup {r} ELSE begun \ {r}
          /\ endTried' = endTried \ {r}
      BY <1>2, <2>1, <2>4 DEF Begin
    <3>2. runFile' \in [RunIds -> FileStates] /\ \A q \in RunIds \ {r} : runFile'[q] = runFile[q]
      BY <1>0, <3>1, PersistTouchesOne DEF FileStates
    <3>3. RunTypeOK'
      BY <1>0, <2>2, <3>1, <3>2 DEF RunTypeOK
    <3>4. ASSUME NEW q \in begun' \ (endTried' \cup aged') PROVE q \in activeRuns' /\ runFile'[q] = "open"
      <4>1. CASE q = r
        BY <3>1, <4>1
      <4>2. CASE q # r
        <5>1. q \in begun \ (endTried \cup aged)
          BY <3>1, <3>4, <4>2
        <5>2. QED
          BY <1>0, <3>1, <3>2, <4>2, <5>1 DEF OpenBoth, RunTypeOK
      <4>3. QED
        BY <4>1, <4>2
    <3>5. QED
      BY <3>3, <3>4 DEF RunInv, OpenBoth
  <2>5. QED
    BY <2>3, <2>4
<1>3. ASSUME NEW c \in RunCallers, NEW r \in RunIds, handleEndCaptureRun(c, r) PROVE RunInv'
  <2>1. [op |-> "end", r |-> r] \in RunCall
    BY RunAssumption DEF RunCall, RunIds
  <2>2. RunTypeOK'
    BY <1>0, <1>3, <2>1 DEF handleEndCaptureRun, RunTypeOK
  <2>3. QED
    BY <1>0, <1>3, <2>2 DEF handleEndCaptureRun, RunInv, OpenBoth
<1>4. ASSUME NEW c \in RunCallers, End(c) PROVE RunInv'
  <2>1. PICK r \in RunIds : r = rcalls[c].r
    BY <1>0, <1>4 DEF End, RunTypeOK
  <2>2. rcalls' \in [RunCallers -> RunCall] /\ \A d \in RunCallers : rcalls'[d].op # "none" => rcalls'[d].r \in RunIds
    BY <1>0, <1>id, <1>4 DEF End, RunTypeOK
  <2>3. CASE r \notin activeRuns
    <3>1. UNCHANGED <<runFile, activeRuns, aged, begun, endTried>>
      BY <1>4, <2>1, <2>3 DEF End
    <3>2. QED
      BY <1>0, <2>2, <3>1 DEF RunInv, RunTypeOK, OpenBoth
  <2>4. CASE r \in activeRuns
    <3>1. activeRuns' = activeRuns \ {r} /\ persist(r, "ended") /\ endTried' = endTried \cup {r} /\ UNCHANGED <<aged, begun>>
      BY <1>4, <2>1, <2>4 DEF End
    <3>2. runFile' \in [RunIds -> FileStates] /\ \A q \in RunIds \ {r} : runFile'[q] = runFile[q]
      BY <1>0, <3>1, PersistTouchesOne DEF FileStates
    <3>3. RunTypeOK'
      BY <1>0, <2>2, <3>1, <3>2 DEF RunTypeOK
    <3>4. OpenBoth'
      BY <1>0, <3>1, <3>2 DEF OpenBoth, RunTypeOK
    <3>5. QED
      BY <3>3, <3>4 DEF RunInv
  <2>5. QED
    BY <2>3, <2>4
<1>5. ASSUME NEW r \in RunIds, AnHourPasses(r) PROVE RunInv'
  BY <1>0, <1>5 DEF AnHourPasses, RunInv, RunTypeOK, OpenBoth
<1>6. ASSUME NewRunRegistry PROVE RunInv'
  <2>1. /\ activeRuns' = {r \in RunIds : runFile[r] = "open" /\ r \notin aged}
        /\ runFile' = [r \in RunIds |-> IF runFile[r] = "open" /\ r \in aged THEN "stale" ELSE runFile[r]]
        /\ rcalls' = [c \in RunCallers |-> RunIdle] /\ UNCHANGED <<aged, begun, endTried>>
    BY <1>6 DEF NewRunRegistry, recover
  <2>2. RunTypeOK'
    BY <1>0, <1>id, <2>1 DEF RunTypeOK, FileStates
  <2>3. OpenBoth'
    BY <1>0, <2>1 DEF OpenBoth, RunTypeOK
  <2>4. QED
    BY <2>2, <2>3 DEF RunInv
<1>7. ASSUME UNCHANGED runVars PROVE RunInv'
  BY <1>0, <1>7 DEF runVars, RunInv, RunTypeOK, OpenBoth
<1>8. QED
  BY <1>1, <1>2, <1>3, <1>4, <1>5, <1>6, <1>7 DEF RunNext

\* A run that was begun and that nobody tried to end stays open for an hour at
\* least, through any number of overlapping calls, failing writes and restarts.
THEOREM RunsSafe == RunSpec => []OpenRunsSurvive
<1>1. RunInit => RunInv
  BY RunInvInit
<1>2. RunInv /\ [RunNext]_runVars => RunInv'
  BY RunInvStep
<1>3. RunInv => OpenRunsSurvive
  BY DEF RunInv, OpenBoth, OpenRunsSurvive, handleGetRunStatus, GetRun
<1>4. QED
  BY <1>1, <1>2, <1>3, PTL DEF RunSpec

-----------------------------------------------------------------------------
(***************************************************************************)
(* Projects.                                                               *)
(***************************************************************************)

Roles == {RoleNone, RoleMember, RoleAdmin, RoleOwner}
ProjOps == {"none", "update", "delete", "plugins", "rules", "add", "remove", "transfer", "cas", "demote", "drop", "move"}
OptUser == Users \cup {NoOne}
OptProject == ProjectIds \cup {NoProject}
MemberMap == [Users -> Roles]
Row == [live : BOOLEAN, owner : OptUser, json : MemberMap, plugins : SUBSET OptUser]
Copy == [owner : OptUser, members : MemberMap, plugins : SUBSET OptUser]
Call == [op : ProjOps, by : OptUser, p : OptProject, user : OptUser, role : Roles, copy : Copy, s : Sessions \cup {NoOne}]

ProjTypeOK ==
    /\ rows \in [ProjectIds -> Row]
    /\ tbl \in [ProjectIds -> MemberMap]
    /\ sess \in [Sessions -> [creator : Users, project : OptProject]]
    /\ pcalls \in [ProjCallers -> Call]
    /\ everIn \in [ProjectIds -> SUBSET Users]

\* Everybody a member list names has been put into the project.
InvitedMap(m, p) == \A u \in Users : m[u] # RoleNone => u \in everIn[p]

\* Owners and members, in the table and in the row.
RowsInvited ==
    \A p \in ProjectIds :
        /\ rows[p].live => rows[p].owner \in everIn[p]
        /\ InvitedMap(rows[p].json, p)
        /\ InvitedMap(tbl[p], p)

\* A call under way writes nobody into a project who was not put there, however
\* old its copy of the row is.
CallInvited(k) ==
    k.op \notin {"none", "move"} =>
        /\ k.p \in ProjectIds /\ k.user \in Users
        /\ k.copy.owner \in everIn[k.p]
        /\ InvitedMap(k.copy.members, k.p)
        /\ k.op \in {"add", "cas", "demote", "drop"} => k.user \in everIn[k.p]
CallsInvited == \A c \in ProjCallers : CallInvited(pcalls[c])

\* A move under way has a session.
MovesNamed == \A c \in ProjCallers : pcalls[c].op = "move" => pcalls[c].s \in Sessions

ProjInv == ProjTypeOK /\ RowsInvited /\ CallsInvited /\ MovesNamed

(***************************************************************************)
(* What the policy implies.                                                *)
(***************************************************************************)
LEMMA RoleTyped ==
    ASSUME ProjTypeOK, NEW p \in ProjectIds, NEW u \in Users
    PROVE  RoleOf(p, u) \in Roles
BY DEF ProjTypeOK, Row, MemberMap, RoleOf, Roles

\* Who has a role was put into the project.
LEMMA RoleInvited ==
    ASSUME ProjInv, NEW p \in ProjectIds, NEW u \in Users, RoleOf(p, u) # RoleNone
    PROVE  rows[p].live /\ u \in everIn[p]
BY DEF ProjInv, ProjTypeOK, RowsInvited, InvitedMap, RoleOf, Row, MemberMap, Roles

\* A project action takes a global administrator or a role.
LEMMA ProjectNeedsRole ==
    ASSUME ProjTypeOK, NEW p \in ProjectIds, NEW u \in Users, NEW a \in DOMAIN projectActionRole,
           CanOnProject(u, a, p), u \notin GlobalAdmins
    PROVE  RoleOf(p, u) # RoleNone /\ (a = "manage_members" => RoleOf(p, u) \in {RoleAdmin, RoleOwner})
<1>1. roleAtLeast(RoleOf(p, u), projectActionRole[a])
  BY DEF CanOnProject, Decide, authzPrincipal, projectResource
<1>2. projectActionRole[a] \in {1, 2, 3} /\ (a = "manage_members" => projectActionRole[a] = 2)
  BY DEF projectActionRole, RoleMember, RoleAdmin, RoleOwner
<1>3. RoleOf(p, u) \in Roles
  BY RoleTyped
<1>4. QED
  BY <1>1, <1>2, <1>3 DEF roleAtLeast, Roles, RoleNone, RoleMember, RoleAdmin, RoleOwner

\* Reading a session that belongs to a project takes a role in it, and reading one
\* that does not takes its creator.
LEMMA SessionNeedsRole ==
    ASSUME ProjTypeOK, NEW s \in Sessions, NEW u \in Users,
           CanOnSession(u, "session_read", s), u \notin GlobalAdmins
    PROVE  IF sess[s].project = NoProject THEN sess[s].creator = u ELSE RoleOf(sess[s].project, u) # RoleNone
<1> DEFINE p == sess[s].project
<1>1. "session_read" \notin DOMAIN projectActionRole
  BY DEF projectActionRole
<1>2. decideSession(authzPrincipal(u), "session_read", sessionResource(s), IF p = NoProject THEN RoleNone ELSE RoleOf(p, u))
  BY <1>1 DEF CanOnSession, Decide, authzPrincipal, sessionResource
<1>3. CASE p = NoProject
  BY <1>2, <1>3 DEF decideSession, authzPrincipal, sessionResource
<1>4. CASE p # NoProject
  <2>1. roleAtLeast(RoleOf(p, u), 1)
    BY <1>2, <1>4 DEF decideSession, sessionResource, sessionProjectActionRole, memberCreatorAllowed, RoleMember
  <2>2. RoleOf(p, u) \in Roles
    BY <1>4, RoleTyped DEF ProjTypeOK, OptProject
  <2>3. QED
    BY <1>4, <2>1, <2>2 DEF roleAtLeast, Roles, RoleNone, RoleMember, RoleAdmin, RoleOwner
<1>5. QED
  BY <1>3, <1>4

\* The invariant gives every view.
LEMMA ProjInvViews == ProjInv => OnlyInvited
<1> SUFFICES ASSUME ProjInv, NEW u \in Users \ GlobalAdmins
             PROVE  /\ \A p \in ProjectIds :
                          /\ projectForAction(u, "project_read", p) => u \in everIn[p]
                          /\ p \in ListVisible(u, FALSE) => u \in everIn[p]
                          /\ handleGetProject(u, p) # {} \/ projectCapabilities(u, p) # {} => u \in everIn[p]
                    /\ pluginOwnersFor(u) \subseteq UNION {rows[p].plugins : p \in {q \in ProjectIds : u \in everIn[q]}}
                    /\ \A s \in Sessions :
                          \/ sess[s].creator = u
                          \/ sess[s].project # NoProject /\ u \in everIn[sess[s].project]
                          \/ ~CanOnSession(u, "session_read", s) /\ s \notin visibleSessionFilter(u)
  BY DEF OnlyInvited
<1>0. ProjTypeOK
  BY DEF ProjInv
<1>1. \A p \in ProjectIds, a \in DOMAIN projectActionRole : CanOnProject(u, a, p) => u \in everIn[p]
  BY <1>0, ProjectNeedsRole, RoleInvited
<1>2. \A p \in ProjectIds : projectForAction(u, "project_read", p) => u \in everIn[p]
  BY <1>1 DEF projectForAction, projectActionRole
<1>3. \A p \in ListVisible(u, FALSE) : p \in ProjectIds /\ u \in everIn[p]
  BY <1>0 DEF ListVisible, visibleTo, ProjInv, RowsInvited, InvitedMap
<1>4. \A p \in ProjectIds : handleGetProject(u, p) # {} => u \in everIn[p]
  BY <1>2 DEF handleGetProject
<1>5. \A p \in ProjectIds : projectCapabilities(u, p) # {} => u \in everIn[p]
  BY <1>1 DEF projectCapabilities
<1>6. pluginOwnersFor(u) \subseteq UNION {rows[p].plugins : p \in {q \in ProjectIds : u \in everIn[q]}}
  BY <1>3 DEF pluginOwnersFor
<1>7. ASSUME NEW s \in Sessions, sess[s].creator # u, ~(sess[s].project # NoProject /\ u \in everIn[sess[s].project])
      PROVE  ~CanOnSession(u, "session_read", s) /\ s \notin visibleSessionFilter(u)
  <2>1. sess[s].project \in OptProject
    BY <1>0 DEF ProjTypeOK
  <2>2. s \notin visibleSessionFilter(u)
    BY <1>3, <1>7, ProjAssumption DEF visibleSessionFilter
  <2>3. ~CanOnSession(u, "session_read", s)
    BY <1>0, <1>7, <2>1, SessionNeedsRole, RoleInvited DEF OptProject
  <2>4. QED
    BY <2>2, <2>3
<1>8. QED
  BY <1>2, <1>3, <1>4, <1>5, <1>6, <1>7

(***************************************************************************)
(* Steps.                                                                  *)
(***************************************************************************)
LEMMA IdleTyped == ProjIdle \in Call /\ ProjIdle.op = "none" /\ NoRow \in Row /\ Nobody \in MemberMap
BY DEF ProjIdle, Call, ProjOps, OptUser, OptProject, Roles, NoCopy, Copy, NoRow, Row, Nobody, MemberMap

\* A caller's new state is as good as the others', which only gain from more
\* people having been put into projects.
LEMMA ProjCallStep ==
    ASSUME ProjInv, NEW c \in ProjCallers, NEW k \in Call, pcalls' = [pcalls EXCEPT ![c] = k],
           \A p \in ProjectIds : everIn[p] \subseteq everIn'[p],
           CallInvited(k)', k.op = "move" => k.s \in Sessions
    PROVE  pcalls' \in [ProjCallers -> Call] /\ CallsInvited' /\ MovesNamed'
<1>1. pcalls' \in [ProjCallers -> Call] /\ \A d \in ProjCallers : pcalls'[d] = IF d = c THEN k ELSE pcalls[d]
  BY DEF ProjInv, ProjTypeOK
<1>2. MovesNamed'
  BY <1>1 DEF MovesNamed, ProjInv
<1>3. ASSUME NEW d \in ProjCallers, d # c PROVE CallInvited(pcalls[d])'
  BY <1>1, <1>3 DEF ProjInv, CallsInvited, CallInvited, InvitedMap
<1>4. CallsInvited'
  BY <1>1, <1>3 DEF CallsInvited, CallInvited, InvitedMap
<1>5. QED
  BY <1>1, <1>2, <1>4

\* Returning.
LEMMA ReturnStep ==
    ASSUME ProjInv, NEW c \in ProjCallers, Returns(c), everIn' = everIn
    PROVE  pcalls' \in [ProjCallers -> Call] /\ CallsInvited' /\ MovesNamed'
BY ProjCallStep, IdleTyped DEF Returns, CallInvited

\* A rewrite of the row from a copy.
LEMMA UpdateStep ==
    ASSUME ProjInv, NEW p \in ProjectIds, NEW copy \in Copy, Update(p, copy), UNCHANGED everIn,
           copy.owner \in everIn[p], InvitedMap(copy.members, p)
    PROVE  rows' \in [ProjectIds -> Row] /\ tbl' \in [ProjectIds -> MemberMap] /\ RowsInvited'
<1> DEFINE r == [live |-> TRUE, owner |-> copy.owner, json |-> copy.members, plugins |-> copy.plugins]
<1>1. r \in Row /\ copy.members \in MemberMap
  BY DEF Row, Copy
<1>2. tbl' \in [ProjectIds -> MemberMap] /\ \A q \in ProjectIds : tbl'[q] = IF q = p THEN copy.members ELSE tbl[q]
  BY <1>1 DEF Update, ProjInv, ProjTypeOK
<1>3. rows' \in [ProjectIds -> Row] /\ \A q \in ProjectIds : rows'[q] = IF q = p /\ rows[p].live THEN r ELSE rows[q]
  BY <1>1 DEF Update, ProjInv, ProjTypeOK
<1>4. RowsInvited'
  BY <1>2, <1>3 DEF ProjInv, RowsInvited, InvitedMap
<1>5. QED
  BY <1>2, <1>3, <1>4

\* A row of the member table is written for somebody who was put into the project,
\* or taken away.
LEMMA MemberStep ==
    ASSUME ProjInv, NEW p \in ProjectIds, NEW u \in Users, NEW r \in Roles,
           tbl' = [tbl EXCEPT ![p][u] = r], UNCHANGED <<rows, everIn>>,
           r # RoleNone => u \in everIn[p]
    PROVE  tbl' \in [ProjectIds -> MemberMap] /\ RowsInvited'
<1>1. \A q \in ProjectIds : tbl[q] \in MemberMap
  BY DEF ProjInv, ProjTypeOK
<1>2. [tbl[p] EXCEPT ![u] = r] \in MemberMap
  BY <1>1 DEF MemberMap
<1>3. tbl' \in [ProjectIds -> MemberMap] /\ \A q \in ProjectIds : tbl'[q] = IF q = p THEN [tbl[p] EXCEPT ![u] = r] ELSE tbl[q]
  BY <1>2 DEF ProjInv, ProjTypeOK
<1>4. \A q \in ProjectIds : InvitedMap(tbl[q], q)
  BY DEF ProjInv, RowsInvited
<1>5. \A q \in ProjectIds : InvitedMap(tbl[q], q)'
  BY <1>1, <1>3, <1>4 DEF InvitedMap, MemberMap
<1>6. RowsInvited'
  BY <1>5 DEF ProjInv, RowsInvited, InvitedMap
<1>7. QED
  BY <1>3, <1>6

\* The handlers load the row and authorise in one step: the copy they take is of
\* invited people.
LEMMA EnterStep ==
    ASSUME ProjInv, NEW c \in ProjCallers, NEW op \in ProjOps \ {"none", "move", "cas", "demote", "drop"},
           NEW a \in DOMAIN projectActionRole,
           NEW u \in Users, NEW p \in ProjectIds, NEW user \in Users, NEW role \in Roles,
           Enter(c, op, a, u, p, user, role),
           everIn' \in [ProjectIds -> SUBSET Users],
           \A q \in ProjectIds : everIn[q] \subseteq everIn'[q],
           op = "add" => user \in everIn'[p]
    PROVE  ProjInv'
<1>1. /\ pcalls' = [pcalls EXCEPT ![c] = [ProjIdle EXCEPT !.op = op, !.by = u, !.p = p, !.user = user,
                                                        !.role = role, !.copy = Get(p)]]
      /\ UNCHANGED <<rows, tbl, sess>> /\ rows[p].live
  BY DEF Enter, projectForAction
<1>2. Get(p) \in Copy /\ Get(p).owner = rows[p].owner /\ Get(p).members = tbl[p]
  BY DEF Get, Copy, ProjInv, ProjTypeOK, Row
<1>3. PICK k \in Call : /\ k.op = op /\ k.p = p /\ k.user = user /\ k.copy.owner = rows[p].owner /\ k.copy.members = tbl[p]
                       /\ pcalls' = [pcalls EXCEPT ![c] = k]
  <2> DEFINE r == [ProjIdle EXCEPT !.op = op, !.by = u, !.p = p, !.user = user, !.role = role, !.copy = Get(p)]
  <2>1. r \in Call /\ r.op = op /\ r.p = p /\ r.user = user /\ r.copy = Get(p)
    BY <1>2, IdleTyped DEF ProjIdle, Call, OptUser, OptProject
  <2>2. QED
    BY <1>1, <1>2, <2>1
<1>4. InvitedMap(tbl[p], p)'
  BY <1>1 DEF ProjInv, RowsInvited, InvitedMap
<1>5. rows[p].owner \in everIn'[p]
  BY <1>1 DEF ProjInv, RowsInvited
<1>6. CallInvited(k)'
  <2>1. InvitedMap(k.copy.members, p)'
    BY <1>1, <1>3, <1>4 DEF InvitedMap
  <2>2. QED
    BY <1>1, <1>3, <1>5, <2>1 DEF CallInvited
<1>7. pcalls' \in [ProjCallers -> Call] /\ CallsInvited' /\ MovesNamed'
  BY <1>3, <1>6, ProjCallStep
<1>8. RowsInvited'
  BY <1>1 DEF ProjInv, RowsInvited, InvitedMap
<1>9. QED
  BY <1>1, <1>7, <1>8 DEF ProjInv, ProjTypeOK

\* No project is live at first.
LEMMA ProjInvInit == ProjInit => ProjInv
BY DEF ProjInit, ProjInv, ProjTypeOK, RowsInvited, InvitedMap, CallsInvited, CallInvited, MovesNamed, ProjIdle, NoCopy,
       NoRow, Nobody, Row, Copy, Call, MemberMap, Roles, ProjOps, OptUser, OptProject

\* Beginning a call.
LEMMA ProjEnterStep ==
    ASSUME ProjInv, NEW c \in ProjCallers, NEW u \in Users, ProjEnter(c, u)
    PROVE  ProjInv'
<1>1. ASSUME NEW p \in ProjectIds, NEW op \in {"update", "delete", "plugins", "rules"},
             NEW a \in {"project_update", "project_delete", "manage_plugins", "manage_rules"}, EnterPlain(c, op, a, u, p)
      PROVE  ProjInv'
  <2>1. a \in DOMAIN projectActionRole /\ op \in ProjOps \ {"none", "move", "cas", "demote", "drop"} /\ RoleNone \in Roles
    BY DEF projectActionRole, ProjOps, Roles
  <2>2. Enter(c, op, a, u, p, u, RoleNone) /\ everIn' = everIn
    BY <1>1 DEF EnterPlain
  <2>3. everIn' \in [ProjectIds -> SUBSET Users] /\ \A q \in ProjectIds : everIn[q] \subseteq everIn'[q]
    BY <2>2 DEF ProjInv, ProjTypeOK
  <2>4. QED
    BY <2>1, <2>2, <2>3, EnterStep
<1>2. ASSUME NEW p \in ProjectIds, NEW user \in Users, NEW r \in {RoleMember, RoleAdmin}, EnterAddMember(c, u, p, user, r)
      PROVE  ProjInv'
  <2>1. "manage_members" \in DOMAIN projectActionRole /\ "add" \in ProjOps \ {"none", "move", "cas", "demote", "drop"} /\ r \in Roles
    BY DEF projectActionRole, ProjOps, Roles
  <2>2. Enter(c, "add", "manage_members", u, p, user, r)
    BY <1>2 DEF EnterAddMember
  <2>3. Entitled(u, p)
    BY <2>1, <2>2, ProjectNeedsRole DEF Enter, projectForAction, Entitled, ProjInv
  <2>4. everIn' = [everIn EXCEPT ![p] = @ \cup {user}]
    BY <1>2, <2>3 DEF EnterAddMember
  <2>5. everIn' \in [ProjectIds -> SUBSET Users] /\ user \in everIn'[p] /\ \A q \in ProjectIds : everIn[q] \subseteq everIn'[q]
    BY <2>4 DEF ProjInv, ProjTypeOK
  <2>6. QED
    BY <2>1, <2>2, <2>5, EnterStep
<1>3. ASSUME NEW p \in ProjectIds, NEW user \in Users, EnterRemoveMember(c, u, p, user) \/ EnterTransfer(c, u, p, user)
      PROVE  ProjInv'
  <2>1. PICK op \in {"remove", "transfer"}, a \in {"manage_members", "transfer_owner"} : Enter(c, op, a, u, p, user, RoleNone)
    BY <1>3 DEF EnterRemoveMember, EnterTransfer
  <2>2. a \in DOMAIN projectActionRole /\ op \in ProjOps \ {"none", "move", "cas", "demote", "drop"} /\ RoleNone \in Roles
    BY DEF projectActionRole, ProjOps, Roles
  <2>3. everIn' \in [ProjectIds -> SUBSET Users] /\ \A q \in ProjectIds : everIn[q] \subseteq everIn'[q]
    BY <1>3 DEF ProjInv, ProjTypeOK, EnterRemoveMember, EnterTransfer
  <2>4. QED
    BY <2>1, <2>2, <2>3, EnterStep
<1>4. ASSUME NEW s \in Sessions, NEW p \in ProjectIds \cup {NoProject}, EnterMove(c, u, s, p)
      PROVE  ProjInv'
  <2> DEFINE k == [ProjIdle EXCEPT !.op = "move", !.by = u, !.s = s, !.p = p]
  <2>1. k \in Call /\ k.op = "move" /\ k.s = s
    BY DEF ProjIdle, Call, ProjOps, OptUser, OptProject, Roles, NoCopy, Copy, Nobody, MemberMap
  <2>2. pcalls' = [pcalls EXCEPT ![c] = k] /\ UNCHANGED <<rows, tbl, sess, everIn>>
    BY <1>4 DEF EnterMove
  <2> HIDE DEF k
  <2>3. pcalls' \in [ProjCallers -> Call] /\ CallsInvited' /\ MovesNamed'
    BY <2>1, <2>2, ProjCallStep DEF CallInvited
  <2>4. RowsInvited'
    BY <2>2 DEF ProjInv, RowsInvited, InvitedMap
  <2>5. QED
    BY <2>2, <2>3, <2>4 DEF ProjInv, ProjTypeOK
<1>5. QED
  BY <1>1, <1>2, <1>3, <1>4 DEF ProjEnter

\* A call that goes on to its next statement.
LEMMA MovesOn ==
    ASSUME ProjInv, NEW c \in ProjCallers, NEW op \in ProjOps \ {"none", "move"},
           pcalls[c].op \notin {"none", "move"}, pcalls' = [pcalls EXCEPT ![c].op = op], everIn' = everIn,
           pcalls[c].user \in everIn[pcalls[c].p]
    PROVE  pcalls' \in [ProjCallers -> Call] /\ CallsInvited' /\ MovesNamed'
<1>1. PICK k \in Call : k = pcalls[c]
  BY DEF ProjInv, ProjTypeOK
<1>2. PICK m \in Call : m = [k EXCEPT !.op = op]
  BY DEF Call
<1>3. m.op = op /\ m.p = k.p /\ m.user = k.user /\ m.copy = k.copy /\ pcalls' = [pcalls EXCEPT ![c] = m]
  BY <1>1, <1>2 DEF Call
<1>4. CallInvited(k) /\ k.op \notin {"none", "move"}
  BY <1>1 DEF ProjInv, CallsInvited
<1>5. CallInvited(m)'
  BY <1>1, <1>3, <1>4 DEF CallInvited, InvitedMap
<1>6. QED
  BY <1>3, <1>5, ProjCallStep

\* The transfer of a project, statement by statement.
LEMMA TransferStep ==
    ASSUME ProjInv, NEW c \in ProjCallers, handleTransferProjectOwner(c)
    PROVE  ProjInv'
<1>0. PICK k \in Call : k = pcalls[c]
  BY DEF ProjInv, ProjTypeOK
<1>1. CallInvited(k)
  BY <1>0 DEF ProjInv, CallsInvited
<1>2. CASE /\ k.op = "transfer" /\ UNCHANGED <<rows, tbl, sess, everIn>>
           /\ pcalls' = [pcalls EXCEPT ![c] = IF RoleOf(k.p, k.user) \in {RoleAdmin, RoleMember}
                                             THEN [k EXCEPT !.op = "cas"] ELSE ProjIdle]
  <2>1. pcalls' \in [ProjCallers -> Call] /\ CallsInvited' /\ MovesNamed'
    <3>1. CASE RoleOf(k.p, k.user) \in {RoleAdmin, RoleMember}
      <4>1. k.user \in everIn[k.p]
        BY <1>1, <1>2, <3>1, RoleInvited DEF CallInvited, RoleNone, RoleAdmin, RoleMember
      <4>2. pcalls' = [pcalls EXCEPT ![c].op = "cas"]
        BY <1>0, <1>2, <3>1
      <4>3. QED
        BY <1>0, <1>2, <4>1, <4>2, MovesOn DEF ProjOps
    <3>2. CASE ~(RoleOf(k.p, k.user) \in {RoleAdmin, RoleMember})
      BY <1>2, <3>2, ReturnStep DEF Returns
    <3>3. QED
      BY <3>1, <3>2
  <2>2. QED
    BY <1>2, <2>1 DEF ProjInv, ProjTypeOK, RowsInvited, InvitedMap
<1>3. CASE k.op = "cas" /\ rows' = [rows EXCEPT ![k.p].owner = k.user] /\ pcalls' = [pcalls EXCEPT ![c].op = "demote"]
           /\ UNCHANGED <<tbl, sess, everIn>>
  <2>1. k.p \in ProjectIds /\ k.user \in everIn[k.p] /\ k.user \in Users
    BY <1>1, <1>3 DEF CallInvited
  <2>2. rows' \in [ProjectIds -> Row] /\ \A p \in ProjectIds : /\ rows'[p].live = rows[p].live /\ rows'[p].json = rows[p].json
                                                          /\ rows'[p].owner = IF p = k.p THEN k.user ELSE rows[p].owner
    <3>1. rows[k.p] \in Row
      BY <2>1 DEF ProjInv, ProjTypeOK
    <3>2. PICK r \in Row : r = [rows[k.p] EXCEPT !.owner = k.user]
      BY <2>1, <3>1 DEF Row, OptUser
    <3>3. r.live = rows[k.p].live /\ r.json = rows[k.p].json /\ r.owner = k.user
      BY <3>1, <3>2 DEF Row
    <3>4. rows' = [rows EXCEPT ![k.p] = r]
      BY <1>3, <3>2
    <3>5. QED
      BY <2>1, <3>3, <3>4 DEF ProjInv, ProjTypeOK
  <2>3. RowsInvited'
    BY <1>3, <2>1, <2>2 DEF ProjInv, RowsInvited, InvitedMap
  <2>4. pcalls' \in [ProjCallers -> Call] /\ CallsInvited' /\ MovesNamed'
    BY <1>0, <1>3, <2>1, MovesOn DEF ProjOps
  <2>5. QED
    BY <1>3, <2>2, <2>3, <2>4 DEF ProjInv, ProjTypeOK
<1>4. CASE k.op = "cas" /\ Returns(c) /\ UNCHANGED <<rows, tbl, sess, everIn>>
  <2>1. pcalls' \in [ProjCallers -> Call] /\ CallsInvited' /\ MovesNamed'
    BY <1>4, ReturnStep
  <2>2. QED
    BY <1>4, <2>1 DEF ProjInv, ProjTypeOK, RowsInvited, InvitedMap
<1>5. CASE k.op = "demote" /\ pcalls' = [pcalls EXCEPT ![c].op = "drop"] /\ UNCHANGED <<rows, sess, everIn>>
           /\ (AddMember(k.p, k.copy.owner, RoleAdmin) \/ UNCHANGED tbl)
  <2>1. k.p \in ProjectIds /\ k.user \in everIn[k.p] /\ k.copy.owner \in everIn[k.p] /\ k.copy.owner \in Users
    BY <1>1, <1>5 DEF CallInvited, ProjInv, ProjTypeOK
  <2>2. tbl' \in [ProjectIds -> MemberMap] /\ RowsInvited'
    <3>1. CASE AddMember(k.p, k.copy.owner, RoleAdmin)
      BY <1>5, <2>1, <3>1, MemberStep DEF AddMember, Roles
    <3>2. CASE UNCHANGED tbl
      BY <1>5, <3>2 DEF ProjInv, ProjTypeOK, RowsInvited, InvitedMap
    <3>3. QED
      BY <1>5, <3>1, <3>2
  <2>3. pcalls' \in [ProjCallers -> Call] /\ CallsInvited' /\ MovesNamed'
    BY <1>0, <1>5, <2>1, MovesOn DEF ProjOps
  <2>4. QED
    BY <1>5, <2>2, <2>3 DEF ProjInv, ProjTypeOK
<1>6. CASE k.op = "drop" /\ Returns(c) /\ UNCHANGED <<rows, sess, everIn>> /\ (RemoveMember(k.p, k.user) \/ UNCHANGED tbl)
  <2>1. k.p \in ProjectIds /\ k.user \in Users
    BY <1>1, <1>6 DEF CallInvited
  <2>2. tbl' \in [ProjectIds -> MemberMap] /\ RowsInvited'
    <3>1. CASE RemoveMember(k.p, k.user)
      BY <1>6, <2>1, <3>1, MemberStep DEF RemoveMember, Roles
    <3>2. CASE UNCHANGED tbl
      BY <1>6, <3>2 DEF ProjInv, ProjTypeOK, RowsInvited, InvitedMap
    <3>3. QED
      BY <1>6, <3>1, <3>2
  <2>3. pcalls' \in [ProjCallers -> Call] /\ CallsInvited' /\ MovesNamed'
    BY <1>6, ReturnStep
  <2>4. QED
    BY <1>6, <2>2, <2>3 DEF ProjInv, ProjTypeOK
<1>7. QED
  BY <1>0, <1>2, <1>3, <1>4, <1>5, <1>6 DEF handleTransferProjectOwner, TransferOwner

\* Ending a call.
LEMMA ProjFinishStep ==
    ASSUME ProjInv, NEW c \in ProjCallers, ProjFinish(c)
    PROVE  ProjInv'
<1>0. PICK k \in Call : k = pcalls[c]
  BY DEF ProjInv, ProjTypeOK
<1>1. CallInvited(k)
  BY <1>0 DEF ProjInv, CallsInvited
<1>2. CASE handleUpdateProject(c) \/ handleSetProjectRules(c) \/ handleSetProjectPlugins(c)
  <2>1. k.op \in {"update", "rules", "plugins"} /\ Returns(c) /\ UNCHANGED <<sess, everIn>>
    BY <1>0, <1>2 DEF handleUpdateProject, handleSetProjectRules, handleSetProjectPlugins
  <2>2. k.p \in ProjectIds /\ k.copy.owner \in everIn[k.p] /\ InvitedMap(k.copy.members, k.p)
    BY <1>1, <2>1 DEF CallInvited
  <2>3. PICK copy \in Copy : Update(k.p, copy) /\ copy.owner = k.copy.owner /\ copy.members = k.copy.members
    <3>1. CASE handleUpdateProject(c) \/ handleSetProjectRules(c)
      <4>1. Update(k.p, k.copy) /\ k.copy \in Copy
        BY <1>0, <3>1 DEF handleUpdateProject, handleSetProjectRules, Call
      <4>2. QED
        BY <4>1
    <3>2. CASE handleSetProjectPlugins(c)
      <4>1. PICK named \in SUBSET {k.copy.owner} : Update(k.p, [k.copy EXCEPT !.plugins = named \cup {k.by}])
        BY <1>0, <3>2 DEF handleSetProjectPlugins
      <4>2. k.copy \in Copy /\ k.by \in OptUser
        BY DEF Call
      <4>3. named \cup {k.by} \in SUBSET OptUser
        BY <4>2 DEF Copy
      <4> DEFINE d == [k.copy EXCEPT !.plugins = named \cup {k.by}]
      <4>4. d \in Copy /\ d.owner = k.copy.owner /\ d.members = k.copy.members
        BY <4>2, <4>3 DEF Copy
      <4>5. QED
        BY <4>1, <4>4
    <3>3. QED
      BY <1>2, <3>1, <3>2
  <2>4. rows' \in [ProjectIds -> Row] /\ tbl' \in [ProjectIds -> MemberMap] /\ RowsInvited'
    BY <2>1, <2>2, <2>3, UpdateStep
  <2>5. pcalls' \in [ProjCallers -> Call] /\ CallsInvited' /\ MovesNamed'
    BY <2>1, ReturnStep
  <2>6. QED
    BY <2>1, <2>4, <2>5 DEF ProjInv, ProjTypeOK
<1>3. CASE handleDeleteProject(c)
  <2>1. /\ k.op = "delete" /\ Returns(c) /\ UNCHANGED <<sess, everIn>>
        /\ rows' = [rows EXCEPT ![k.p].live = FALSE] /\ tbl' = [tbl EXCEPT ![k.p] = Nobody]
    BY <1>0, <1>3 DEF handleDeleteProject
  <2>2. k.p \in ProjectIds
    BY <1>1, <2>1 DEF CallInvited
  <2>3. rows' \in [ProjectIds -> Row] /\ \A p \in ProjectIds : /\ rows'[p].live => rows[p].live
                                                          /\ rows'[p].json = rows[p].json /\ rows'[p].owner = rows[p].owner
    BY ZenonT(30), <2>1, <2>2 DEF ProjInv, ProjTypeOK, Row
  <2>4. tbl' \in [ProjectIds -> MemberMap] /\ \A p \in ProjectIds : tbl'[p] \in {tbl[p], Nobody}
    BY <2>1, <2>2, IdleTyped DEF ProjInv, ProjTypeOK
  <2>5. RowsInvited'
    BY <2>1, <2>3, <2>4 DEF ProjInv, RowsInvited, InvitedMap, Nobody
  <2>6. pcalls' \in [ProjCallers -> Call] /\ CallsInvited' /\ MovesNamed'
    BY <2>1, ReturnStep
  <2>7. QED
    BY <2>1, <2>3, <2>4, <2>5, <2>6 DEF ProjInv, ProjTypeOK
<1>4. CASE handleAddProjectMember(c) \/ handleRemoveProjectMember(c)
  <2>1. k.op \in {"add", "remove"} /\ Returns(c) /\ UNCHANGED <<rows, sess, everIn>>
    BY <1>0, <1>4 DEF handleAddProjectMember, handleRemoveProjectMember
  <2>2. k.p \in ProjectIds /\ k.user \in Users /\ (k.op = "add" => k.user \in everIn[k.p])
    BY <1>1, <2>1 DEF CallInvited
  <2>3. PICK r \in Roles : tbl' = [tbl EXCEPT ![k.p][k.user] = r] /\ (r # RoleNone => k.op = "add")
    <3>1. CASE handleAddProjectMember(c)
      BY <1>0, <3>1 DEF handleAddProjectMember, AddMember, Call
    <3>2. CASE handleRemoveProjectMember(c)
      BY <1>0, <3>2 DEF handleRemoveProjectMember, RemoveMember, Roles
    <3>3. QED
      BY <1>4, <3>1, <3>2
  <2>4. tbl' \in [ProjectIds -> MemberMap] /\ RowsInvited'
    BY <2>1, <2>2, <2>3, MemberStep
  <2>5. pcalls' \in [ProjCallers -> Call] /\ CallsInvited' /\ MovesNamed'
    BY <2>1, ReturnStep
  <2>6. QED
    BY <2>1, <2>4, <2>5 DEF ProjInv, ProjTypeOK
<1>5. CASE moveSessionToProject(c)
  <2>1. /\ k.op = "move" /\ sess' = [sess EXCEPT ![k.s].project = k.p]
        /\ Returns(c) /\ UNCHANGED <<rows, tbl, everIn>>
    BY <1>0, <1>5 DEF moveSessionToProject, MoveSessionToProject
  <2>2. k.s \in Sessions /\ k.p \in OptProject
    BY <1>0, <2>1 DEF ProjInv, MovesNamed, Call
  <2>3. sess' \in [Sessions -> [creator : Users, project : OptProject]]
    BY <2>1, <2>2 DEF ProjInv, ProjTypeOK
  <2>4. pcalls' \in [ProjCallers -> Call] /\ CallsInvited' /\ MovesNamed'
    BY <2>1, ReturnStep
  <2>5. QED
    BY <2>1, <2>3, <2>4 DEF ProjInv, ProjTypeOK, RowsInvited, InvitedMap
<1>6. QED
  BY <1>2, <1>3, <1>4, <1>5, TransferStep DEF ProjFinish

\* Every step keeps the invariant.
LEMMA ProjInvStep == ProjInv /\ [ProjNext]_projVars => ProjInv'
<1> SUFFICES ASSUME ProjInv, [ProjNext]_projVars PROVE ProjInv'
  OBVIOUS
<1>1. ASSUME NEW u \in Users, NEW p \in ProjectIds, handleCreateProject(u, p) PROVE ProjInv'
  <2>1. /\ rows' = [rows EXCEPT ![p] = [NoRow EXCEPT !.live = TRUE, !.owner = u]]
        /\ everIn' = [everIn EXCEPT ![p] = {u}] /\ everIn[p] = {} /\ UNCHANGED <<tbl, sess, pcalls>>
    BY <1>1 DEF handleCreateProject
  <2>2. everIn' \in [ProjectIds -> SUBSET Users] /\ everIn'[p] = {u} /\ \A q \in ProjectIds : everIn[q] \subseteq everIn'[q]
    BY <2>1 DEF ProjInv, ProjTypeOK
  <2>3. /\ rows' \in [ProjectIds -> Row] /\ rows'[p].owner = u /\ rows'[p].json = Nobody
        /\ \A q \in ProjectIds \ {p} : rows'[q] = rows[q]
    BY <2>1, IdleTyped DEF ProjInv, ProjTypeOK, NoRow, Row, OptUser
  <2>4. \A q \in ProjectIds : /\ rows'[q].live => rows'[q].owner \in everIn'[q]
                            /\ \A v \in Users : rows'[q].json[v] # RoleNone => v \in everIn'[q]
    <3>1. \A v \in Users : rows'[p].json[v] = RoleNone
      BY <2>3 DEF Nobody
    <3>2. \A q \in ProjectIds \ {p} : /\ rows'[q].live => rows'[q].owner \in everIn'[q]
                                    /\ \A v \in Users : rows'[q].json[v] # RoleNone => v \in everIn'[q]
      BY <2>2, <2>3 DEF ProjInv, RowsInvited, InvitedMap
    <3>3. QED
      BY <2>2, <2>3, <3>1, <3>2
  <2>5. RowsInvited'
    BY <2>1, <2>2, <2>4 DEF ProjInv, RowsInvited, InvitedMap
  <2>6. CallsInvited'
    <3>1. ASSUME NEW c \in ProjCallers PROVE CallInvited(pcalls[c])'
      BY <2>1, <2>2 DEF ProjInv, CallsInvited, CallInvited, InvitedMap
    <3>2. QED
      BY <3>1 DEF CallsInvited
  <2>7. QED
    BY <2>1, <2>2, <2>3, <2>5, <2>6 DEF ProjInv, ProjTypeOK, MovesNamed
<1>2. ASSUME ProjRestart PROVE ProjInv'
  <2>1. pcalls' = [c \in ProjCallers |-> ProjIdle] /\ UNCHANGED <<rows, sess, everIn>>
    BY <1>2 DEF ProjRestart
  <2>2. ASSUME NEW p \in ProjectIds
        PROVE  tbl'[p] \in MemberMap /\ \A u \in Users : tbl'[p][u] \in {tbl[p][u], rows[p].json[u]}
    BY <1>2 DEF ProjRestart, migrateMembersJSONToTable, ProjInv, ProjTypeOK, MemberMap, Row
  <2>3. tbl' \in [ProjectIds -> MemberMap]
    BY <1>2, <2>2 DEF ProjRestart, migrateMembersJSONToTable
  <2>4. RowsInvited'
    BY <2>1, <2>2 DEF ProjInv, RowsInvited, InvitedMap
  <2>5. pcalls' \in [ProjCallers -> Call] /\ CallsInvited' /\ MovesNamed'
    BY <2>1, IdleTyped DEF CallsInvited, CallInvited, MovesNamed
  <2>6. QED
    BY <2>1, <2>3, <2>4, <2>5 DEF ProjInv, ProjTypeOK
<1>3. ASSUME UNCHANGED projVars PROVE ProjInv'
  BY <1>3 DEF projVars, ProjInv, ProjTypeOK, RowsInvited, InvitedMap, CallsInvited, CallInvited, MovesNamed
<1>4. QED
  BY <1>1, <1>2, <1>3, ProjEnterStep, ProjFinishStep DEF ProjNext

\* Nobody sees a project, its sessions or its plugins' owners who was not put into
\* it by somebody entitled to, for any number of users, projects and calls.
THEOREM InvitedSafe == ProjSpec => []OnlyInvited
<1>1. ProjInit => ProjInv
  BY ProjInvInit
<1>2. ProjInv /\ [ProjNext]_projVars => ProjInv'
  BY ProjInvStep
<1>3. ProjInv => OnlyInvited
  BY ProjInvViews
<1>4. QED
  BY <1>1, <1>2, <1>3, PTL DEF ProjSpec


-----------------------------------------------------------------------------
(***************************************************************************)
(* The sessions: the pipeline's tasks, the control rows and the files.     *)
(***************************************************************************)

CallsS == [op : {"meta", "cur", "stop", "both", "file"}, u : SesUsers, s : Ses]
CtlRows == [owner : SesUsers \cup {0}, status : {"none", "running", "stopped"}, project : BOOLEAN]
Gone(s) == task[s] \in {"none", "finalized"}

SesTyped ==
    /\ dir \subseteq Ses
    /\ task \in [Ses -> {"none", "running", "stopping", "closed", "finalized"}]
    /\ ctl \in [Ses -> CtlRows]
    /\ meta \in [Ses -> {"none", "running", "stopped"}]
    /\ mcp \subseteq CallsS
    /\ svc = [up |-> svc.up, crashes |-> svc.crashes] /\ svc.up \in BOOLEAN
    /\ ghost \in [used : SUBSET Ses, failed : SUBSET Ses, busy : SUBSET Ses]

\* What was started is never started again, and only that is anywhere.
UsedOnly ==
    /\ \A s \in Ses : task[s] # "none" \/ ctl[s].status # "none" \/ meta[s] # "none" \/ s \in dir => s \in ghost.used
    /\ \A k \in mcp : k.s \in ghost.used

\* Only a pipeline that is up has tasks; a task that has been finalized is off its row.
TasksTold ==
    /\ ~svc.up => \A s \in Ses : task[s] = "none"
    /\ \A s \in Ses : task[s] = "finalized" => ctl[s].status # "running"

\* Files say stopped only when the task has gone, and a directory has its row.
FilesTold ==
    /\ \A k \in mcp : k.op \in {"both", "file"} => Gone(k.s)
    /\ \A s \in Ses : meta[s] = "stopped" => Gone(s)
    /\ \A s \in dir : GetSession(s)

SesInv == SesTyped /\ UsedOnly /\ TasksTold /\ FilesTold /\ RowsTruthful /\ SweptWasIdle

-----------------------------------------------------------------------------

\* The state by its parts, and the rows after a statement on one of them.
LEMMA SesParts ==
    ASSUME SesTyped, NEW s \in Ses
    PROVE  /\ task[s] \in {"none", "running", "stopping", "closed", "finalized"}
           /\ ctl[s] \in CtlRows /\ ctl[s].status \in {"none", "running", "stopped"}
           /\ meta[s] \in {"none", "running", "stopped"}
<1>1. ctl[s] \in CtlRows
  BY DEF SesTyped
<1> QED BY <1>1 DEF SesTyped, CtlRows

\* A call of gt-mcp by its parts.
LEMMA CallParts ==
    ASSUME SesTyped, NEW k \in mcp
    PROVE  k.op \in {"meta", "cur", "stop", "both", "file"} /\ k.u \in SesUsers /\ k.s \in Ses
<1>1. k \in CallsS
  BY DEF SesTyped
<1> QED BY <1>1 DEF CallsS

\* A call of gt-mcp that moves on.
LEMMA CallMoved ==
    ASSUME SesTyped, NEW k \in mcp, NEW op \in {"meta", "cur", "stop", "both", "file"}
    PROVE  \E c \in CallsS : c = [k EXCEPT !.op = op] /\ c.op = op /\ c.s = k.s
<1>1. k \in CallsS
  BY DEF SesTyped
<1> DEFINE c == [k EXCEPT !.op = op]
<1>2. c \in CallsS /\ c.op = op /\ c.s = k.s
  BY <1>1 DEF CallsS
<1> QED BY <1>2, Zenon

\* UpdateSession changes a row that is there.
LEMMA RowUpdated ==
    ASSUME SesTyped, NEW s \in Ses, NEW status \in {"stopped"}, ctl' = UpdateSession(s, status)
    PROVE  /\ ctl' \in [Ses -> CtlRows] /\ \A t \in Ses : t # s => ctl'[t] = ctl[t]
           /\ ctl'[s].status = (IF GetSession(s) THEN status ELSE "none")
<1> DEFINE r == [ctl[s] EXCEPT !.status = status, !.project = FALSE]
<1>1. ctl \in [Ses -> CtlRows] /\ ctl[s] \in CtlRows
  BY DEF SesTyped
<1>2. r \in CtlRows /\ r.status = status
  BY <1>1 DEF CtlRows
<1>3. CASE GetSession(s)
  <2>1. ctl' = [ctl EXCEPT ![s] = r]
    BY <1>3 DEF UpdateSession
  <2> HIDE DEF r
  <2> QED BY <1>1, <1>2, <1>3, <2>1
<1>4. CASE ~GetSession(s)
  BY <1>1, <1>4 DEF UpdateSession, GetSession
<1> QED BY <1>3, <1>4

\* A step that only moves tasks on.
LEMMA TasksMove ==
    ASSUME SesInv, task' \in [Ses -> {"none", "running", "stopping", "closed", "finalized"}],
           \A s \in Ses : /\ task'[s] = "none" => task[s] \in {"none", "finalized"}
                          /\ task[s] = "none" => task'[s] = "none"
                          /\ task'[s] = "finalized" => task[s] = "finalized"
                          /\ Gone(s) => task'[s] \in {"none", "finalized"},
           UNCHANGED <<ctl, dir, meta, svc, ghost>>,
           mcp' \subseteq CallsS, \A k \in mcp' : k.s \in ghost.used /\ (k.op \in {"both", "file"} => Gone(k.s))
    PROVE  SesInv'
<1>1. SesTyped'
  BY DEF SesInv, SesTyped
<1>2. UsedOnly'
  BY DEF SesInv, UsedOnly
<1>3. TasksTold'
  BY DEF SesInv, TasksTold
<1>4. FilesTold'
  <2>1. \A k \in mcp' : k.s \in Ses
    BY DEF CallsS
  <2>2. dir \subseteq Ses
    BY DEF SesInv, SesTyped
  <2> QED BY <2>1, <2>2 DEF SesInv, FilesTold, Gone, GetSession
<1>5. RowsTruthful'
  BY DEF SesInv, RowsTruthful, TasksTold, ListLive
<1>6. SweptWasIdle'
  BY DEF SesInv, SweptWasIdle
<1> QED BY <1>1, <1>2, <1>3, <1>4, <1>5, <1>6 DEF SesInv

\* A step that leaves tasks alone: rows may be stopped or deleted, files written or removed.
LEMMA FilesMove ==
    ASSUME SesInv, UNCHANGED <<task, ghost>>, svc' = [up |-> svc.up, crashes |-> svc'.crashes],
           dir' \subseteq dir, ctl' \in [Ses -> CtlRows], meta' \in [Ses -> {"none", "running", "stopped"}],
           \A s \in Ses : ctl'[s].status # "none" => ctl[s].status # "none",
           \A s \in Ses : ctl'[s].status = "running" => ctl[s].status = "running",
           \A s \in dir' : ctl'[s] = ctl[s],
           \A s \in Ses : /\ meta'[s] = "stopped" => meta[s] = "stopped" \/ Gone(s)
                          /\ meta'[s] # "none" => meta[s] # "none" \/ s \in ghost.used,
           mcp' \subseteq CallsS, \A k \in mcp' : k.s \in ghost.used /\ (k.op \in {"both", "file"} => Gone(k.s))
    PROVE  SesInv'
<1>1. SesTyped'
  BY DEF SesInv, SesTyped
<1>2. UsedOnly'
  BY DEF SesInv, SesTyped, UsedOnly
<1>3. TasksTold'
  BY DEF SesInv, TasksTold
<1>4. FilesTold'
  BY DEF SesInv, FilesTold, Gone, GetSession
<1>5. RowsTruthful'
  BY DEF SesInv, RowsTruthful, ListLive
<1>6. SweptWasIdle'
  BY DEF SesInv, SweptWasIdle
<1> QED BY <1>1, <1>2, <1>3, <1>4, <1>5, <1>6 DEF SesInv

\* A new session: nothing of it was anywhere.
LEMMA StartCaptureStep ==
    ASSUME SesInv, NEW u \in SesUsers, StartCapture(u)
    PROVE  SesInv'
<1>1. PICK s \in Ses, ok \in BOOLEAN :
         /\ svc.up /\ s \notin ghost.used /\ StartSession(s, u, ok)
         /\ mcp' = IF ok THEN mcp \cup {[op |-> "meta", u |-> u, s |-> s]} ELSE mcp
         /\ ghost' = [ghost EXCEPT !.used = @ \cup {s}, !.failed = IF ok THEN @ ELSE @ \cup {s}]
         /\ UNCHANGED <<meta, cur, quiet, sweep, svc>>
  BY DEF StartCapture
<1>2. SesTyped
  BY DEF SesInv
<1>3. /\ ghost' \in [used : SUBSET Ses, failed : SUBSET Ses, busy : SUBSET Ses]
      /\ ghost'.used = ghost.used \cup {s} /\ ghost'.busy = ghost.busy /\ ghost.failed \subseteq ghost'.failed
      /\ ~ok => s \in ghost'.failed
  BY <1>1, <1>2 DEF SesTyped
<1>4. task[s] = "none" /\ ctl[s].status = "none" /\ meta[s] = "none" /\ s \notin dir /\ \A k \in mcp : k.s # s
  BY <1>1 DEF SesInv, UsedOnly
<1> DEFINE r == [owner |-> u, status |-> "running", project |-> TRUE]
<1>5. r \in CtlRows /\ r.status = "running"
  BY DEF CtlRows
<1>6. ctl' = [ctl EXCEPT ![s] = r] /\ dir' = dir \cup {s} /\ task' = [task EXCEPT ![s] = IF ok THEN "running" ELSE "none"]
  BY <1>1 DEF StartSession, CreateSession
<1> HIDE DEF r
<1>7. ctl' \in [Ses -> CtlRows] /\ ctl'[s] = r /\ \A t \in Ses : t # s => ctl'[t] = ctl[t]
  BY <1>2, <1>5, <1>6 DEF SesTyped
<1>8. /\ task' \in [Ses -> {"none", "running", "stopping", "closed", "finalized"}] /\ \A t \in Ses : t # s => task'[t] = task[t]
      /\ task'[s] = IF ok THEN "running" ELSE "none"
  BY <1>2, <1>6 DEF SesTyped
<1>9. mcp' \subseteq CallsS /\ \A k \in mcp' : k \in mcp \/ (k.s = s /\ k.op = "meta")
  <2>1. [op |-> "meta", u |-> u, s |-> s] \in CallsS
    BY DEF CallsS
  <2> QED BY <1>1, <1>2, <2>1 DEF SesTyped
<1>10. SesTyped'
  BY <1>1, <1>2, <1>3, <1>6, <1>7, <1>8, <1>9 DEF SesTyped
<1>11. UsedOnly'
  BY <1>1, <1>3, <1>6, <1>7, <1>8, <1>9 DEF SesInv, UsedOnly
<1>12. TasksTold'
  BY <1>1, <1>7, <1>8 DEF SesInv, TasksTold
<1>13. FilesTold'
  <2>1. ASSUME NEW k \in mcp', k.op \in {"both", "file"} PROVE task'[k.s] \in {"none", "finalized"}
    <3>1. k \in mcp /\ k.s # s
      BY <1>4, <1>9, <2>1
    <3>2. k.s \in Ses
      BY <1>2, <3>1, CallParts
    <3> QED BY <1>8, <2>1, <3>1, <3>2 DEF SesInv, FilesTold, Gone
  <2>2. ASSUME NEW t \in Ses, meta[t] = "stopped" PROVE task'[t] \in {"none", "finalized"}
    BY <1>4, <1>8, <2>2 DEF SesInv, FilesTold, Gone
  <2>3. ASSUME NEW t \in dir' PROVE ctl'[t].status # "none"
    BY <1>2, <1>5, <1>6, <1>7, <2>3 DEF SesInv, SesTyped, FilesTold, GetSession
  <2> QED BY <1>1, <2>1, <2>2, <2>3 DEF FilesTold, Gone, GetSession
<1>14. RowsTruthful'
  BY <1>1, <1>3, <1>5, <1>7, <1>8 DEF SesInv, RowsTruthful, ListLive
<1>15. SweptWasIdle'
  BY <1>3 DEF SesInv, SweptWasIdle
<1> QED BY <1>10, <1>11, <1>12, <1>13, <1>14, <1>15 DEF SesInv

\* The row of a finished task is stopped before the task leaves the map.
LEMMA FinalizeUpdatesStep ==
    ASSUME SesInv, NEW s \in Ses, FinalizeUpdates(s)
    PROVE  SesInv'
<1>1. /\ task[s] = "closed" /\ task' = [task EXCEPT ![s] = "finalized"] /\ ctl' = UpdateSession(s, "stopped")
      /\ UNCHANGED <<svc, dir, meta, mcp, ghost>>
  BY DEF FinalizeUpdates, fileSide
<1>2. SesTyped
  BY DEF SesInv
<1>3. PICK status \in {"stopped"} : status = "stopped"
  OBVIOUS
<1>4. /\ ctl' \in [Ses -> CtlRows] /\ \A t \in Ses : t # s => ctl'[t] = ctl[t]
      /\ ctl'[s].status = (IF GetSession(s) THEN "stopped" ELSE "none")
  BY <1>1, <1>2, <1>3, RowUpdated
<1>5. /\ task' \in [Ses -> {"none", "running", "stopping", "closed", "finalized"}] /\ \A t \in Ses : t # s => task'[t] = task[t]
      /\ task'[s] = "finalized"
  BY <1>1, <1>2 DEF SesTyped
<1>6. SesTyped'
  BY <1>1, <1>2, <1>4, <1>5 DEF SesTyped
<1>7. UsedOnly'
  BY <1>1, <1>4, <1>5 DEF SesInv, UsedOnly
<1>8. TasksTold'
  BY <1>1, <1>4, <1>5 DEF SesInv, TasksTold
<1>9. FilesTold'
  <2>1. ASSUME NEW k \in mcp, k.op \in {"both", "file"} PROVE task'[k.s] \in {"none", "finalized"}
    <3>1. k.s \in Ses
      BY <1>2, CallParts
    <3>2. task[k.s] \in {"none", "finalized"}
      BY <2>1 DEF SesInv, FilesTold, Gone
    <3> QED BY <1>1, <1>5, <3>1, <3>2
  <2>2. ASSUME NEW t \in Ses, meta[t] = "stopped" PROVE task'[t] \in {"none", "finalized"}
    BY <1>5, <2>2 DEF SesInv, FilesTold, Gone
  <2>3. ASSUME NEW t \in dir PROVE ctl'[t].status # "none"
    BY <1>2, <1>4 DEF SesInv, SesTyped, FilesTold, GetSession
  <2> QED BY <1>1, <2>1, <2>2, <2>3 DEF FilesTold, Gone, GetSession
<1>10. RowsTruthful'
  BY <1>1, <1>4, <1>5 DEF SesInv, RowsTruthful, ListLive
<1>11. SweptWasIdle'
  BY <1>1 DEF SesInv, SweptWasIdle
<1> QED BY <1>6, <1>7, <1>8, <1>9, <1>10, <1>11 DEF SesInv

\* The steps that move a task on.
LEMMA TaskStep ==
    ASSUME SesInv, NEW s \in Ses, CaptureEnds(s) \/ TaskCloses(s) \/ removeTask(s) \/ StopAll
    PROVE  SesInv'
<1>1. UNCHANGED <<ctl, dir, meta, svc, ghost, mcp>>
  BY DEF CaptureEnds, TaskCloses, removeTask, StopAll, fileSide
<1>2. task \in [Ses -> {"none", "running", "stopping", "closed", "finalized"}] /\ mcp \subseteq CallsS
  BY DEF SesInv, SesTyped
<1>3. \A k \in mcp : k.s \in ghost.used /\ (k.op \in {"both", "file"} => Gone(k.s))
  BY DEF SesInv, UsedOnly, FilesTold
<1>4. CASE CaptureEnds(s)
  BY <1>1, <1>2, <1>3, <1>4, TasksMove DEF CaptureEnds, Gone
<1>5. CASE TaskCloses(s)
  BY <1>1, <1>2, <1>3, <1>5, TasksMove DEF TaskCloses, Gone
<1>6. CASE removeTask(s)
  BY <1>1, <1>2, <1>3, <1>6, TasksMove DEF removeTask, Gone
<1>7. CASE StopAll
  BY <1>1, <1>2, <1>3, <1>7, TasksMove DEF StopAll, Gone
<1> QED BY <1>4, <1>5, <1>6, <1>7

\* The pipeline is told to stop a session.
LEMMA StopCaptureStep ==
    ASSUME SesInv, NEW u \in SesUsers, NEW s \in Ses, StopCapture(u, s)
    PROVE  SesInv'
<1>1. /\ s \in ghost.used /\ task[s] \in {"none", "running"} /\ UNCHANGED <<ctl, dir, meta, svc, ghost>>
      /\ task' = [task EXCEPT ![s] = IF task[s] = "running" THEN "stopping" ELSE task[s]]
      /\ mcp' = mcp \cup {[op |-> "stop", u |-> u, s |-> s]}
  BY DEF StopCapture, fileSide
<1>2. task \in [Ses -> {"none", "running", "stopping", "closed", "finalized"}] /\ mcp \subseteq CallsS
  BY DEF SesInv, SesTyped
<1>3. mcp' \subseteq CallsS /\ \A k \in mcp' : k.s \in ghost.used /\ (k.op \in {"both", "file"} => Gone(k.s))
  <2>1. [op |-> "stop", u |-> u, s |-> s] \in CallsS
    BY DEF CallsS
  <2> QED BY <1>1, <1>2, <2>1 DEF SesInv, UsedOnly, FilesTold
<1>4. /\ task' \in [Ses -> {"none", "running", "stopping", "closed", "finalized"}] /\ \A t \in Ses : t # s => task'[t] = task[t]
      /\ task'[s] = (IF task[s] = "running" THEN "stopping" ELSE task[s])
  BY <1>1, <1>2
<1> QED BY <1>1, <1>3, <1>4, TasksMove DEF Gone

\* The steps of gt-mcp that write the files of a session.
LEMMA McpWritesStep ==
    ASSUME SesInv, NEW k \in mcp, writeSessionMetadata(k) \/ StartWritesCurrent(k) \/ handleStopCapture(k)
    PROVE  SesInv'
<1>1. /\ UNCHANGED <<task, ctl, svc, dir, ghost>> /\ k.s \in Ses /\ k.s \in ghost.used
      /\ ctl \in [Ses -> CtlRows] /\ meta \in [Ses -> {"none", "running", "stopped"}] /\ mcp \subseteq CallsS
      /\ svc = [up |-> svc.up, crashes |-> svc.crashes]
      /\ \A c \in mcp : c.s \in ghost.used /\ (c.op \in {"both", "file"} => Gone(c.s))
  BY CallParts DEF writeSessionMetadata, StartWritesCurrent, handleStopCapture, pipeSide, SesInv, SesTyped, UsedOnly, FilesTold
<1>2. CASE writeSessionMetadata(k)
  <2>1. /\ meta' = [meta EXCEPT ![k.s] = IF k.s \in dir THEN "running" ELSE meta[k.s]]
        /\ mcp' = (mcp \ {k}) \cup {[k EXCEPT !.op = "cur"]}
    BY <1>2 DEF writeSessionMetadata
  <2>6. PICK op \in {"meta", "cur", "stop", "both", "file"} : op = "cur"
    OBVIOUS
  <2>2. PICK c \in CallsS : c = [k EXCEPT !.op = op] /\ c.op = op /\ c.s = k.s
    BY CallMoved DEF SesInv
  <2>3. mcp' = (mcp \ {k}) \cup {c}
    BY <2>1, <2>2, <2>6
  <2>4. mcp' \subseteq CallsS /\ \A x \in mcp' : x.s \in ghost.used /\ (x.op \in {"both", "file"} => Gone(x.s))
    BY <1>1, <2>2, <2>3, <2>6
  <2>5. /\ meta' \in [Ses -> {"none", "running", "stopped"}]
        /\ \A s \in Ses : /\ meta'[s] = "stopped" => meta[s] = "stopped" \/ Gone(s)
                          /\ meta'[s] # "none" => meta[s] # "none" \/ s \in ghost.used
    BY <1>1, <2>1
  <2> QED BY <1>1, <2>4, <2>5, FilesMove
<1>3. CASE StartWritesCurrent(k)
  <2>1. mcp' = mcp \ {k} /\ meta' = meta
    BY <1>3 DEF StartWritesCurrent
  <2> QED BY <1>1, <2>1, FilesMove
<1>4. CASE handleStopCapture(k)
  <2>1. /\ k.op \in {"both", "file"} /\ mcp' = mcp \ {k}
        /\ meta' = [meta EXCEPT ![k.s] = IF k.s \in dir THEN "stopped" ELSE meta[k.s]]
    BY <1>4 DEF handleStopCapture
  <2>2. /\ meta' \in [Ses -> {"none", "running", "stopped"}]
        /\ \A s \in Ses : /\ meta'[s] = "stopped" => meta[s] = "stopped" \/ Gone(s)
                          /\ meta'[s] # "none" => meta[s] # "none" \/ s \in ghost.used
    BY <1>1, <2>1
  <2> QED BY <1>1, <2>1, <2>2, FilesMove
<1> QED BY <1>2, <1>3, <1>4

\* A stop reads the files when the task has gone.
LEMMA StopReadsStep ==
    ASSUME SesInv, NEW k \in mcp, StopReads(k)
    PROVE  SesInv'
<1>1. /\ UNCHANGED <<task, ctl, svc, dir, meta, ghost>> /\ k.s \in Ses /\ k.s \in ghost.used /\ Gone(k.s)
      /\ ctl \in [Ses -> CtlRows] /\ meta \in [Ses -> {"none", "running", "stopped"}] /\ mcp \subseteq CallsS
      /\ svc = [up |-> svc.up, crashes |-> svc.crashes]
      /\ \A c \in mcp : c.s \in ghost.used /\ (c.op \in {"both", "file"} => Gone(c.s))
  BY CallParts DEF StopReads, pipeSide, fileSide, SesInv, SesTyped, UsedOnly, FilesTold, Gone
<1>2. PICK op \in {"meta", "cur", "stop", "both", "file"} : op = IF cur[k.u].s = k.s THEN "both" ELSE "file"
  OBVIOUS
<1>3. PICK c \in CallsS : c = [k EXCEPT !.op = op] /\ c.op = op /\ c.s = k.s
  BY CallMoved DEF SesInv
<1>4. mcp' \subseteq mcp \cup {c}
  BY <1>2, <1>3 DEF StopReads
<1>5. mcp' \subseteq CallsS /\ \A x \in mcp' : x.s \in ghost.used /\ (x.op \in {"both", "file"} => Gone(x.s))
  BY <1>1, <1>3, <1>4
<1> QED BY <1>1, <1>5, FilesMove

\* A session is deleted, by its owner or by retention.
LEMMA DeleteStep ==
    ASSUME SesInv, NEW s \in Ses, deleteSessionForRetention(s) \/ (\E u \in SesUsers : handleDeleteSession(u, s))
    PROVE  SesInv'
<1>1. /\ UNCHANGED <<task, svc, mcp, ghost>> /\ dir' = dir \ {s} /\ meta' = [meta EXCEPT ![s] = "none"]
      /\ ctl' = ctl \/ ctl' = DeleteSession(s)
  BY DEF deleteSessionForRetention, handleDeleteSession, pipeSide
<1>2. /\ ctl \in [Ses -> CtlRows] /\ meta \in [Ses -> {"none", "running", "stopped"}] /\ mcp \subseteq CallsS /\ dir \subseteq Ses
      /\ svc = [up |-> svc.up, crashes |-> svc.crashes]
      /\ \A c \in mcp : c.s \in ghost.used /\ (c.op \in {"both", "file"} => Gone(c.s))
  BY DEF SesInv, SesTyped, UsedOnly, FilesTold
<1>3. /\ ctl' \in [Ses -> CtlRows] /\ \A t \in Ses : t # s => ctl'[t] = ctl[t]
      /\ ctl'[s] = ctl[s] \/ ctl'[s].status = "none"
  <2> DEFINE r == [ctl[s] EXCEPT !.status = "none"]
  <2>1. r \in CtlRows /\ r.status = "none"
    BY <1>2 DEF CtlRows
  <2>2. ctl' = ctl \/ ctl' = [ctl EXCEPT ![s] = r]
    BY <1>1 DEF DeleteSession
  <2> HIDE DEF r
  <2> QED BY <1>2, <2>1, <2>2
<1>4. /\ meta' \in [Ses -> {"none", "running", "stopped"}] /\ meta'[s] = "none"
      /\ \A t \in Ses : t # s => meta'[t] = meta[t]
  BY <1>1, <1>2
<1>5. /\ \A t \in Ses : ctl'[t].status # "none" => ctl[t].status # "none"
      /\ \A t \in Ses : ctl'[t].status = "running" => ctl[t].status = "running"
      /\ \A t \in dir' : ctl'[t] = ctl[t]
  BY <1>1, <1>2, <1>3
<1> QED BY <1>1, <1>2, <1>3, <1>4, <1>5, FilesMove

\* A crash of gt-mcp forgets its calls; time and the retention sweep change no file by themselves.
LEMMA McpCrashesStep ==
    ASSUME SesInv, McpCrashes
    PROVE  SesInv'
<1>1. /\ UNCHANGED <<task, ctl, dir, meta, ghost>> /\ mcp' = {} /\ svc' = [svc EXCEPT !.crashes = @ - 1]
  BY DEF McpCrashes, fileSide
<1>2. /\ ctl \in [Ses -> CtlRows] /\ meta \in [Ses -> {"none", "running", "stopped"}]
      /\ svc = [up |-> svc.up, crashes |-> svc.crashes]
  BY DEF SesInv, SesTyped
<1>3. svc' = [up |-> svc.up, crashes |-> svc'.crashes]
  BY <1>1, <1>2
<1>4. mcp' \subseteq CallsS /\ \A k \in mcp' : k.s \in ghost.used /\ (k.op \in {"both", "file"} => Gone(k.s))
  BY <1>1
<1> QED BY <1>1, <1>2, <1>3, <1>4, FilesMove

\* A session writes nothing for the TTL.
LEMMA GoesQuietStep ==
    ASSUME SesInv, NEW s \in Ses, GoesQuiet(s)
    PROVE  SesInv'
<1>1. UNCHANGED <<task, ctl, dir, meta, svc, ghost, mcp>>
  BY DEF GoesQuiet, pipeSide, fileSide
<1>2. /\ ctl \in [Ses -> CtlRows] /\ meta \in [Ses -> {"none", "running", "stopped"}] /\ mcp \subseteq CallsS
      /\ svc = [up |-> svc.up, crashes |-> svc.crashes]
      /\ \A c \in mcp : c.s \in ghost.used /\ (c.op \in {"both", "file"} => Gone(c.s))
  BY DEF SesInv, SesTyped, UsedOnly, FilesTold
<1> QED BY <1>1, <1>2, FilesMove

\* What the count limit takes is not running: its file would say so, for the file says
\* stopped only when the task has gone.
LEMMA RetentionStep ==
    ASSUME SesInv, enforceRetention
    PROVE  SesInv'
<1> DEFINE over == overLimit(dir \ quiet)
<1>1. /\ UNCHANGED <<task, ctl, svc, dir, meta, mcp>>
      /\ ghost' = [ghost EXCEPT !.busy = @ \cup {s \in over : Running(s) /\ meta[s] # "none"}]
  BY DEF enforceRetention, pipeSide, fileSide
<1>2. SesTyped
  BY DEF SesInv
<1>3. ASSUME NEW s \in over, Running(s), meta[s] # "none" PROVE FALSE
  <2>1. s \in dir /\ readSessionMetadata(s, 0) # "running"
    BY DEF overLimit
  <2>2. readSessionMetadata(s, 0) = meta[s]
    BY <1>3, <2>1, SesAssumption DEF readSessionMetadata
  <2>3. meta[s] = "stopped" /\ s \in Ses
    BY <1>2, <1>3, <2>1, <2>2 DEF SesTyped
  <2> QED BY <1>3, <2>3 DEF SesInv, FilesTold, Gone, Running
<1>4. {s \in over : Running(s) /\ meta[s] # "none"} = {}
  BY <1>3
<1> HIDE DEF over
<1>5. ghost' = ghost
  BY <1>1, <1>2, <1>4 DEF SesTyped
<1>6. /\ ctl \in [Ses -> CtlRows] /\ meta \in [Ses -> {"none", "running", "stopped"}] /\ mcp \subseteq CallsS
      /\ svc = [up |-> svc.up, crashes |-> svc.crashes]
      /\ \A c \in mcp : c.s \in ghost.used /\ (c.op \in {"both", "file"} => Gone(c.s))
  BY DEF SesInv, SesTyped, UsedOnly, FilesTold
<1> QED BY <1>1, <1>5, <1>6, FilesMove

\* The pipeline dies with its tasks; the next one corrects the rows before it serves.
LEMMA PipelineCrashesStep ==
    ASSUME SesInv, PipelineCrashes
    PROVE  SesInv'
<1>1. /\ UNCHANGED <<ctl, dir, meta, mcp, ghost>> /\ task' = [s \in Ses |-> "none"]
      /\ svc' = [up |-> FALSE, crashes |-> svc.crashes - 1]
  BY DEF PipelineCrashes, fileSide
<1>2. SesTyped
  BY DEF SesInv
<1>3. ~svc'.up /\ svc'.up \in BOOLEAN /\ svc' = [up |-> svc'.up, crashes |-> svc'.crashes]
  BY <1>1
<1>4. \A s \in Ses : task'[s] = "none"
  BY <1>1
<1>5. SesTyped'
  BY <1>1, <1>2, <1>3 DEF SesTyped
<1>6. UsedOnly'
  BY <1>1, <1>4 DEF SesInv, UsedOnly
<1>7. TasksTold'
  BY <1>4 DEF TasksTold
<1>8. FilesTold'
  <2>1. \A k \in mcp : k.s \in Ses
    BY <1>2, CallParts
  <2> QED BY <1>1, <1>4, <2>1 DEF SesInv, FilesTold, Gone, GetSession
<1>9. RowsTruthful' /\ SweptWasIdle'
  BY <1>1, <1>3 DEF SesInv, RowsTruthful, SweptWasIdle
<1> QED BY <1>5, <1>6, <1>7, <1>8, <1>9 DEF SesInv

\* The pipeline starts and reconciles its rows.
LEMMA PipelineStartsStep ==
    ASSUME SesInv, PipelineStarts
    PROVE  SesInv'
<1>1. /\ UNCHANGED <<task, dir, meta, mcp, ghost>> /\ svc' = [svc EXCEPT !.up = TRUE]
      /\ ctl' = [s \in Ses |-> IF ctl[s].status = "running" THEN [ctl[s] EXCEPT !.status = "stopped"] ELSE ctl[s]]
      /\ ~svc.up
  BY DEF PipelineStarts, fileSide, ReconcileRunningSessions
<1>2. SesTyped
  BY DEF SesInv
<1>3. svc'.up \in BOOLEAN /\ svc' = [up |-> svc'.up, crashes |-> svc'.crashes]
  BY <1>1, <1>2 DEF SesTyped
<1>4. ASSUME NEW s \in Ses
      PROVE  ctl'[s] \in CtlRows /\ ctl'[s].status # "running" /\ (ctl'[s].status # "none" <=> ctl[s].status # "none")
  <2> DEFINE r == [ctl[s] EXCEPT !.status = "stopped"]
  <2>1. ctl[s] \in CtlRows
    BY <1>2, SesParts
  <2>2. r \in CtlRows /\ r.status = "stopped"
    BY <2>1 DEF CtlRows
  <2>3. ctl'[s] = IF ctl[s].status = "running" THEN r ELSE ctl[s]
    BY <1>1
  <2> HIDE DEF r
  <2> QED BY <2>1, <2>2, <2>3
<1>5. ctl' \in [Ses -> CtlRows]
  <2>1. ctl' = [s \in Ses |-> ctl'[s]]
    BY <1>1
  <2> QED BY <1>4, <2>1
<1>6. SesTyped'
  BY <1>1, <1>2, <1>3, <1>5 DEF SesTyped
<1>7. UsedOnly'
  BY <1>1, <1>4 DEF SesInv, UsedOnly
<1>8. TasksTold'
  BY <1>1, <1>4 DEF SesInv, TasksTold
<1>9. FilesTold'
  BY <1>1, <1>2, <1>4 DEF SesInv, SesTyped, FilesTold, Gone, GetSession
<1>10. RowsTruthful' /\ SweptWasIdle'
  BY <1>1, <1>4 DEF SesInv, RowsTruthful, SweptWasIdle
<1> QED BY <1>6, <1>7, <1>8, <1>9, <1>10 DEF SesInv

\* Nothing has been captured at first.
LEMMA SesInvInit ==
    ASSUME SesInit
    PROVE  SesInv
<1>1. \A s \in Ses : task[s] = "none" /\ ctl[s] = NoRowS /\ meta[s] = "none"
  BY DEF SesInit
<1>2. dir = {} /\ mcp = {}
  BY DEF SesInit
<1>3. NoRowS \in CtlRows /\ NoRowS.status = "none"
  BY DEF NoRowS, CtlRows
<1>4. task \in [Ses -> {"none", "running", "stopping", "closed", "finalized"}] /\ meta \in [Ses -> {"none", "running", "stopped"}]
  BY DEF SesInit
<1>5. ctl \in [Ses -> CtlRows]
  BY <1>3 DEF SesInit
<1>6. svc = [up |-> svc.up, crashes |-> svc.crashes] /\ svc.up \in BOOLEAN /\ svc.up
  <2>1. svc = [up |-> TRUE, crashes |-> MaxCrashes]
    BY DEF SesInit
  <2> QED BY <2>1
<1>7. ghost \in [used : SUBSET Ses, failed : SUBSET Ses, busy : SUBSET Ses] /\ ghost.busy = {}
  BY DEF SesInit
<1>8. SesTyped
  BY <1>2, <1>4, <1>5, <1>6, <1>7 DEF SesTyped
<1>9. UsedOnly /\ TasksTold /\ FilesTold
  BY <1>1, <1>2, <1>3 DEF UsedOnly, TasksTold, FilesTold
<1>10. RowsTruthful /\ SweptWasIdle
  BY <1>1, <1>3, <1>7 DEF RowsTruthful, SweptWasIdle
<1> QED BY <1>8, <1>9, <1>10 DEF SesInv

\* Every step keeps the invariant.
LEMMA SesInvStep ==
    ASSUME SesInv, [SesNext]_sesVars
    PROVE  SesInv'
<1>1. ASSUME NEW u \in SesUsers, StartCapture(u) PROVE SesInv'
  BY <1>1, StartCaptureStep
<1>2. ASSUME NEW s \in Ses, CaptureEnds(s) \/ TaskCloses(s) \/ removeTask(s) PROVE SesInv'
  BY <1>2, TaskStep
<1>3. ASSUME NEW s \in Ses, FinalizeUpdates(s) PROVE SesInv'
  BY <1>3, FinalizeUpdatesStep
<1>4. ASSUME NEW s \in Ses, GoesQuiet(s) PROVE SesInv'
  BY <1>4, GoesQuietStep
<1>5. ASSUME NEW s \in Ses, deleteSessionForRetention(s) PROVE SesInv'
  BY <1>5, DeleteStep
<1>6. ASSUME NEW s \in Ses, NEW u \in SesUsers, StopCapture(u, s) PROVE SesInv'
  BY <1>6, StopCaptureStep
<1>7. ASSUME NEW s \in Ses, NEW u \in SesUsers, handleDeleteSession(u, s) PROVE SesInv'
  BY <1>7, DeleteStep
<1>8. ASSUME NEW k \in mcp, writeSessionMetadata(k) \/ StartWritesCurrent(k) \/ handleStopCapture(k) PROVE SesInv'
  BY <1>8, McpWritesStep
<1>9. ASSUME NEW k \in mcp, StopReads(k) PROVE SesInv'
  BY <1>9, StopReadsStep
<1>10. CASE StopAll
  <2>1. PICK s \in Ses : task[s] = "running"
    BY <1>10 DEF StopAll
  <2> QED BY <1>10, <2>1, TaskStep
<1>11. CASE PipelineCrashes \/ PipelineStarts \/ McpCrashes \/ enforceRetention
  BY <1>11, PipelineCrashesStep, PipelineStartsStep, McpCrashesStep, RetentionStep
<1>12. CASE UNCHANGED sesVars
  BY <1>12 DEF sesVars, SesInv, SesTyped, UsedOnly, TasksTold, FilesTold, Gone, GetSession, RowsTruthful, ListLive, SweptWasIdle
<1> QED BY <1>1, <1>2, <1>3, <1>4, <1>5, <1>6, <1>7, <1>8, <1>9, <1>10, <1>11, <1>12 DEF SesNext

\* Who is named by the row of a session that runs, and has its directory, finds it listed.
LEMMA ListsRunning ==
    ASSUME SesInv
    PROVE  ListTellsTruth
<1> SUFFICES ASSUME NEW u \in SesUsers, svc.up
             PROVE  LET list == handleListAllSessions(u) IN
                    /\ \A s \in DOMAIN list : (list[s] = "running") = Running(s)
                    /\ \A s \in dir : Running(s) /\ ctl[s].owner = u => s \in DOMAIN list
                    /\ \A s \in Ses : handleGetSessionStatus(s, u) = "running" => Running(s)
  BY DEF ListTellsTruth
<1> DEFINE list == handleListAllSessions(u)
<1>1. dir \subseteq Ses
  BY DEF SesInv, SesTyped
<1>2. DOMAIN list = listSessions(u) \cup {t \in ListLive : authorizeSession(t, u)}
  BY DEF handleListAllSessions
<1>3. \A s \in DOMAIN list : list[s] = IF s \in listSessions(u) THEN displayed(s, u) ELSE GetStatus(s)
  BY DEF handleListAllSessions
<1>4. DOMAIN list \subseteq Ses
  BY <1>1, <1>2 DEF listSessions, ListLive
<1> HIDE DEF list
<1>5. \A s \in Ses : (GetStatus(s) = "running") = Running(s)
  <2>1. ASSUME NEW s \in Ses PROVE (GetStatus(s) = "running") = Running(s)
    <3>1. CASE Running(s)
      BY <3>1 DEF GetStatus, Running
    <3>2. CASE ~Running(s)
      BY <3>2 DEF GetStatus, Running
    <3> QED BY <3>1, <3>2
  <2> QED BY <2>1
<1>6. ASSUME NEW s \in Ses PROVE (displayed(s, u) = "running") = Running(s)
  <2>1. CASE s \in ListLive
    BY <1>5, <2>1 DEF displayed
  <2>2. CASE s \notin ListLive
    <3>1. ~Running(s)
      BY <2>2 DEF ListLive, Running
    <3>2. displayed(s, u) # "running"
      BY <2>2 DEF displayed
    <3> QED BY <3>1, <3>2 DEF Running
  <2> QED BY <2>1, <2>2
<1>7. \A s \in DOMAIN list : (list[s] = "running") = Running(s)
  BY <1>3, <1>4, <1>5, <1>6
<1>8. ASSUME NEW s \in dir, Running(s), ctl[s].owner = u PROVE s \in DOMAIN list
  <2>1. s \in Ses /\ GetSession(s) /\ s \in ListLive
    BY <1>1, <1>8 DEF SesInv, FilesTold, ListLive, Running
  <2> QED BY <1>2, <1>8, <2>1 DEF authorizeSession
<1>9. \A s \in Ses : handleGetSessionStatus(s, u) = "running" => Running(s)
  BY <1>5 DEF handleGetSessionStatus
<1> QED BY <1>7, <1>8, <1>9 DEF list

\* A control row says running only while the pipeline has the task, across crashes and
\* deletions; the retention sweep's count limit never takes a session that is being
\* captured; and the lists show as running exactly what can be stopped.
THEOREM SessionsKeptSafe == SesSpec => []SessionsKept
<1>1. SesInit => SesInv
  BY SesInvInit
<1>2. SesInv /\ [SesNext]_sesVars => SesInv'
  BY SesInvStep
<1>3. SesInv => SessionsKept
  BY ListsRunning DEF SesInv, SessionsKept
<1> QED BY <1>1, <1>2, <1>3, PTL DEF SesSpec

(***************************************************************************)
(* The raw store while an older version's file is converted, by any number *)
(* of openers.                                                             *)
(***************************************************************************)

RawTyped ==
    /\ opener \in [Openers -> {"closed", "scan", "update", "open"}]
    /\ fetched \in [Openers -> SUBSET OldRows]
    /\ textual \subseteq OldRows
    /\ IsFiniteSet(DOMAIN stamped \ OldRows)

\* A row is still text or has the time its text said.
Converted == \A r \in OldRows \ textual : r \in DOMAIN stamped /\ stamped[r] = rawTimestamp(r)

\* The version says there is no text, and who opened the file knows it by the version.
VersionTold ==
    /\ userVersion = 1 => textual = {}
    /\ \A p \in Openers : opener[p] = "open" => userVersion = 1

RawInv == RawTyped /\ Converted /\ VersionTold

\* At first every row is text and nobody has opened the file.
LEMMA RawStarts == RawInit => RawInv
  <1> SUFFICES ASSUME RawInit PROVE RawInv
    OBVIOUS
  <1> USE DEF RawInit, Closed
  <1>1. DOMAIN stamped = {}
    OBVIOUS
  <1>2. RawTyped
    BY <1>1, FS_EmptySet DEF RawTyped
  <1> QED  BY <1>2 DEF RawInv, Converted, VersionTold

\* Every step of a process that opens, migrates, fills or leaves the file keeps it.
LEMMA RawStep == RawInv /\ [RawNext]_rawVars => RawInv'
  <1> SUFFICES ASSUME RawInv, [RawNext]_rawVars PROVE RawInv'
    OBVIOUS
  <1> USE DEF RawInv, RawTyped, Converted, VersionTold, Closed
  <1>1. CASE UNCHANGED rawVars
    BY <1>1 DEF rawVars, rawTimestamp
  <1>2. CASE RawNext
    <2> PICK p \in Openers : NewSQLiteStore(p) \/ ScanBatch(p) \/ UpdateBatch(p) \/ SetVersion(p)
                             \/ AppendStamped(p) \/ StopsOrCloses(p)
      BY <1>2 DEF RawNext
    <2>1. CASE NewSQLiteStore(p)
      BY <2>1 DEF NewSQLiteStore, rawTimestamp
    <2>2. CASE ScanBatch(p)
      BY <2>2 DEF ScanBatch, rawTimestamp
    <2>3. CASE UpdateBatch(p)
      <3> USE <2>3 DEF UpdateBatch
      <3>1. DOMAIN stamped' = DOMAIN stamped \cup fetched[p]
        OBVIOUS
      <3>2. DOMAIN stamped' \ OldRows = DOMAIN stamped \ OldRows
        BY <3>1
      <3>3. RawTyped'
        BY <3>2
      <3>4. ASSUME NEW r \in OldRows \ textual' PROVE r \in DOMAIN stamped' /\ stamped'[r] = rawTimestamp(r)
        BY <3>1
      <3> QED  BY <3>3, <3>4 DEF rawTimestamp
    <2>4. CASE SetVersion(p)
      BY <2>4 DEF SetVersion, NoneLeft, rawTimestamp
    <2>5. CASE AppendStamped(p)
      <3> USE <2>5 DEF AppendStamped
      <3> DEFINE new == FirstNew + Cardinality(DOMAIN stamped \ OldRows)
      <3>1. Cardinality(DOMAIN stamped \ OldRows) \in Nat
        BY FS_CardinalityType
      <3>2. new \notin OldRows
        BY <3>1, RawAssumption
      <3>3. DOMAIN stamped' = DOMAIN stamped \cup {new}
        OBVIOUS
      <3>4. DOMAIN stamped' \ OldRows = (DOMAIN stamped \ OldRows) \cup {new}
        BY <3>2, <3>3
      <3>5. IsFiniteSet(DOMAIN stamped' \ OldRows)
        <4>1. PICK S : S = DOMAIN stamped \ OldRows
          OBVIOUS
        <4>2. PICK T : T = DOMAIN stamped' \ OldRows
          OBVIOUS
        <4>3. IsFiniteSet(S) /\ T = S \cup {new}
          BY <4>1, <4>2, <3>4
        <4>4. IsFiniteSet(T)
          <5> HIDE DEF new
          <5> QED  BY ONLY <4>3, FS_AddElement
        <4> QED  BY <4>2, <4>4
      <3>6. ASSUME NEW r \in OldRows \ textual' PROVE r \in DOMAIN stamped' /\ stamped'[r] = rawTimestamp(r)
        BY <3>2, <3>3
      <3> QED  BY <3>5, <3>6 DEF rawTimestamp
    <2>6. CASE StopsOrCloses(p)
      BY <2>6 DEF StopsOrCloses, rawTimestamp
    <2> QED  BY <2>1, <2>2, <2>3, <2>4, <2>5, <2>6
  <1> QED  BY <1>1, <1>2

\* An open store reads its packets in the order they were captured.
THEOREM OpenedSafe == RawSpec => []OpenedIsOrdered
  <1>1. RawInv => OpenedIsOrdered
    BY DEF RawInv, Converted, VersionTold, OpenedIsOrdered
  <1> QED  BY <1>1, RawStarts, RawStep, PTL DEF RawSpec

(***************************************************************************)
(* The rows of the probe registry, for any number of handlers, names and   *)
(* segments.                                                               *)
(***************************************************************************)

SegmentLists == UNION {[S -> Nat] : S \in SUBSET Nat}
PrbOps == {"idle", "lookup", "upsert", "revoke", "status", "list", "replace"}
Subjects == {<<>>} \cup ({"machine"} \X PrbUsers \X Hostnames) \cup ({"status", "segments", "token"} \X Nat)
PrbCallSet == [op : PrbOps, on : Subjects, id : Nat, user : PrbUsers \cup {0}, host : Hostnames \cup {0},
               status : Nat, segs : SegmentLists, old : SegmentLists]
PrbRowSet == [owner : PrbUsers, host : Hostnames, name : Hostnames \cup PrbNames, token : Nat, status : Nat]

PrbTyped ==
    /\ probeRows \in Seq(PrbRowSet)
    /\ given \in Seq(PrbUsers)
    /\ cached \in Seq(SegmentLists) /\ Len(cached) = Len(probeRows)
    /\ reported \in Seq(SegmentLists) /\ Len(reported) = Len(probeRows)
    /\ conns \subseteq Probes
    /\ latest \in SegmentLists /\ DOMAIN latest \subseteq Probes
    /\ prbCalls \in [PrbCalls -> PrbCallSet]
    /\ handled \in Nat

\* What a handler works on, and what it has established.
Handles(k) ==
    /\ k.op \in {"lookup", "upsert"} =>
          k.on = <<"machine", k.user, k.host>> /\ k.user \in PrbUsers /\ k.host \in Hostnames
    /\ k.op = "upsert" /\ k.id # 0 => k.id \in Probes /\ probeRows[k.id].owner = k.user
    /\ k.op = "status" => k.on = <<"status", k.id>>
    /\ k.op \in {"list", "replace"} => k.on = <<"segments", k.id>>
    /\ k.op \in {"revoke", "status", "list", "replace"} => k.id \in Probes
Handling == \A c \in PrbCalls : Handles(prbCalls[c])

Works(k) == k.op \notin {"idle", "revoke"}
\* Two handlers work on the same thing only if that has been recorded.
Alone ==
    \A c, d \in PrbCalls :
       Works(prbCalls[c]) /\ Works(prbCalls[d]) /\ prbCalls[c].on = prbCalls[d].on /\ prbCalls[c].on \notin raced => c = d

\* A token was given to the owner of its row, and to one row.
TokensTrue ==
    /\ \A p \in Probes : probeRows[p].token # 0 =>
          probeRows[p].token \in DOMAIN given /\ given[probeRows[p].token] = probeRows[p].owner
    /\ \A p, q \in Probes : probeRows[p].token = probeRows[q].token /\ probeRows[p].token # 0 => p = q

Upserts(k, u, h) == k.op = "upsert" /\ k.user = u /\ k.host = h
MachinesOnce ==
    \A u \in PrbUsers, h \in Hostnames : <<"machine", u, h>> \notin raced =>
       /\ \A p, q \in SameMachine(u, h) : p = q
       /\ \A c \in PrbCalls : Upserts(prbCalls[c], u, h) => SameMachine(u, h) \subseteq {prbCalls[c].id}

Merges(k, p) == k.op \in {"list", "replace"} /\ k.id = p
SegmentsTrue ==
    \A p \in Probes : <<"segments", p>> \notin raced =>
       /\ (\A c \in PrbCalls : ~Merges(prbCalls[c], p)) => cached[p] = reported[p]
       /\ \A c \in PrbCalls : Merges(prbCalls[c], p) =>
             /\ reported[p] = Overlay(prbCalls[c].segs, cached[p])
             /\ prbCalls[c].op = "replace" => prbCalls[c].old = cached[p]

Reports(k, p) == k.op = "status" /\ k.id = p
StatusTrue ==
    \A p \in Probes : <<"status", p>> \notin raced =>
       /\ (\A c \in PrbCalls : ~Reports(prbCalls[c], p)) => (p \in DOMAIN latest => latest[p] = probeRows[p].status)
       /\ \A c \in PrbCalls : Reports(prbCalls[c], p) => p \in DOMAIN latest /\ latest[p] = prbCalls[c].status

PrbInv == PrbTyped /\ Handling /\ Alone /\ TokensTrue /\ MachinesOnce /\ SegmentsTrue /\ StatusTrue

(***************************************************************************)
(* Lists of segments.                                                      *)
(***************************************************************************)
\* A list gives numbers to some numbers.
LEMMA SegmentListIs ==
    ASSUME NEW f \in SegmentLists
    PROVE  DOMAIN f \subseteq Nat /\ f = [s \in DOMAIN f |-> f[s]] /\ \A s \in DOMAIN f : f[s] \in Nat
  <1>1. PICK S \in SUBSET Nat : f \in [S -> Nat]
    BY DEF SegmentLists
  <1> QED  BY <1>1

\* Any such function is a list.
LEMMA SegmentListMade ==
    ASSUME NEW S \in SUBSET Nat, NEW f \in [S -> Nat] PROVE f \in SegmentLists
  BY DEF SegmentLists

\* Nothing is a list, and the answer for a window is one.
LEMMA NoSegments == <<>> \in SegmentLists /\ DOMAIN <<>> = {}
  <1>1. <<>> \in [{} -> Nat]
    OBVIOUS
  <1> QED  BY <1>1, SegmentListMade

\* A list laid over a list is a list of what is in either.
LEMMA OverlayIs ==
    ASSUME NEW f \in SegmentLists, NEW g \in SegmentLists
    PROVE  /\ Overlay(f, g) \in SegmentLists
           /\ DOMAIN Overlay(f, g) = DOMAIN f \cup DOMAIN g
           /\ \A s \in DOMAIN f \cup DOMAIN g : Overlay(f, g)[s] = IF s \in DOMAIN f THEN f[s] ELSE g[s]
  <1>1. /\ DOMAIN f \subseteq Nat /\ \A s \in DOMAIN f : f[s] \in Nat
        /\ DOMAIN g \subseteq Nat /\ \A s \in DOMAIN g : g[s] \in Nat
    BY SegmentListIs
  <1>2. Overlay(f, g) \in [DOMAIN f \cup DOMAIN g -> Nat]
    BY <1>1 DEF Overlay
  <1>3. DOMAIN f \cup DOMAIN g \in SUBSET Nat
    BY <1>1
  <1>4. Overlay(f, g) \in SegmentLists
    BY <1>2, <1>3, SegmentListMade
  <1> QED  BY <1>4 DEF Overlay

\* A sequence with one more element.
LEMMA ListGrows ==
    ASSUME NEW S, NEW q \in Seq(S), NEW e \in S, NEW r, r = Append(q, e), NEW n, n = Len(q)
    PROVE  /\ r \in Seq(S) /\ Len(r) = n + 1 /\ r[n + 1] = e /\ n \in Nat
           /\ \A p \in 1 .. n : r[p] = q[p]
  OBVIOUS

\* Asked for everything, the row's whole list is read.
LEMMA AllListed ==
    ASSUME PrbTyped, NEW p \in Probes PROVE ListProbeSegments(p, 0, 0) = cached[p]
  <1>1. cached[p] \in SegmentLists
    BY DEF PrbTyped, Probes
  <1>2. PICK f : f = cached[p]
    OBVIOUS
  <1>3. f = [s \in DOMAIN f |-> f[s]]
    BY <1>1, <1>2, SegmentListIs
  <1>4. {s \in DOMAIN f : (0 > 0 => s >= 0) /\ (0 > 0 => s <= 0)} = DOMAIN f
    OBVIOUS
  <1>5. ListProbeSegments(p, 0, 0) = [s \in DOMAIN f |-> f[s]]
    BY <1>2, <1>4 DEF ListProbeSegments, Restrict
  <1> QED  BY <1>2, <1>3, <1>5

(***************************************************************************)
(* Frames: what a handler that does something else leaves as it was.       *)
(***************************************************************************)
\* The handlers of these operations are the same as before.
SameFor(ops) ==
    \A c \in PrbCalls : prbCalls'[c] = prbCalls[c] \/ (prbCalls[c].op \notin ops /\ prbCalls'[c].op \notin ops)

\* Who worked alone still does when no handler has come to something else.
LEMMA AloneKept ==
    ASSUME Alone, raced \subseteq raced',
           \A c \in PrbCalls : Works(prbCalls'[c]) => Works(prbCalls[c]) /\ prbCalls'[c].on = prbCalls[c].on
    PROVE  Alone'
  BY DEF Alone

\* A handler that begins works alone, or that is recorded.
LEMMA AloneStarts ==
    ASSUME Alone, NEW c \in PrbCalls, NEW k, prbCalls \in [PrbCalls -> PrbCallSet], Starts(c, k), Works(k)
    PROVE  Alone'
  <1>1. prbCalls'[c] = k /\ \A d \in PrbCalls \ {c} : prbCalls'[d] = prbCalls[d]
    BY DEF Starts
  <1>2. raced \subseteq raced' /\ (InHand(k.on) => k.on \in raced')
    BY DEF Starts, Works
  <1>3. ASSUME NEW d \in PrbCalls \ {c}, Works(prbCalls[d]), prbCalls[d].on = k.on PROVE k.on \in raced'
    BY <1>2, <1>3 DEF InHand, Works
  <1>4. SUFFICES ASSUME NEW d \in PrbCalls, NEW e \in PrbCalls, Works(prbCalls'[d]), Works(prbCalls'[e]),
                        prbCalls'[d].on = prbCalls'[e].on, prbCalls'[d].on \notin raced'
                 PROVE  d = e
    BY DEF Alone
  <1>5. CASE d = c /\ e # c
    BY <1>1, <1>3, <1>4, <1>5
  <1>6. CASE e = c /\ d # c
    BY <1>1, <1>3, <1>4, <1>6
  <1>7. CASE d # c /\ e # c
    BY <1>1, <1>2, <1>4, <1>7 DEF Alone
  <1> QED  BY <1>5, <1>6, <1>7

\* The rows of each machine are as good as before when no row changes hands or
\* machine, and no handler is new to its upsert.
LEMMA MachinesKept ==
    ASSUME MachinesOnce, SameFor({"upsert"}), raced \subseteq raced', Probes' = Probes,
           \A p \in Probes : probeRows'[p].owner = probeRows[p].owner /\ probeRows'[p].host = probeRows[p].host
    PROVE  MachinesOnce'
  <1>1. \A u \in PrbUsers, h \in Hostnames : SameMachine(u, h)' = SameMachine(u, h)
    BY DEF SameMachine
  <1>2. \A u \in PrbUsers, h \in Hostnames, c \in PrbCalls :
           Upserts(prbCalls'[c], u, h) => Upserts(prbCalls[c], u, h) /\ prbCalls'[c] = prbCalls[c]
    BY DEF SameFor, Upserts
  <1> QED  BY <1>1, <1>2 DEF MachinesOnce

\* The same of the lists of segments.
LEMMA SegmentsKept ==
    ASSUME SegmentsTrue, SameFor({"list", "replace"}), raced \subseteq raced', Probes' = Probes,
           cached' = cached, reported' = reported
    PROVE  SegmentsTrue'
  <1>1. \A p \in Probes, c \in PrbCalls :
           /\ Merges(prbCalls'[c], p) <=> Merges(prbCalls[c], p)
           /\ Merges(prbCalls'[c], p) => prbCalls'[c] = prbCalls[c]
    BY DEF SameFor, Merges
  <1> QED  BY <1>1 DEF SegmentsTrue

\* The same of the status.
LEMMA StatusKept ==
    ASSUME StatusTrue, SameFor({"status"}), raced \subseteq raced', Probes' = Probes, latest' = latest,
           \A p \in Probes : probeRows'[p].status = probeRows[p].status
    PROVE  StatusTrue'
  <1>1. \A p \in Probes, c \in PrbCalls :
           /\ Reports(prbCalls'[c], p) <=> Reports(prbCalls[c], p)
           /\ Reports(prbCalls'[c], p) => prbCalls'[c] = prbCalls[c]
    BY DEF SameFor, Reports
  <1> QED  BY <1>1 DEF StatusTrue

\* The same of the tokens.
LEMMA PrbTokensKept ==
    ASSUME TokensTrue, Probes' = Probes, given' = given,
           \A p \in Probes : probeRows'[p].owner = probeRows[p].owner /\ probeRows'[p].token \in {0, probeRows[p].token}
    PROVE  TokensTrue'
  BY DEF TokensTrue

\* What the handlers have established stays so.
LEMMA HandlingKept ==
    ASSUME Handling, Probes \subseteq Probes', \A p \in Probes : probeRows'[p].owner = probeRows[p].owner,
           NEW c \in PrbCalls, \A d \in PrbCalls \ {c} : prbCalls'[d] = prbCalls[d], Handles(prbCalls[c])' 
    PROVE  Handling'
  <1>1. ASSUME NEW d \in PrbCalls \ {c} PROVE Handles(prbCalls[d])'
    <2>1. Handles(prbCalls[d]) /\ prbCalls'[d] = prbCalls[d]
      BY <1>1 DEF Handling
    <2> QED  BY <2>1 DEF Handles
  <1> QED  BY <1>1 DEF Handling

(***************************************************************************)
(* The steps.                                                              *)
(***************************************************************************)
\* The record of a handler that does nothing.
LEMMA NoHandlerTyped == NoHandler \in PrbCallSet /\ NoHandler.op = "idle"
  BY NoSegments DEF NoHandler, PrbCallSet, PrbOps, Subjects

\* RegisterProbe begins.
LEMMA RegisterStep ==
    ASSUME PrbInv, NEW c \in PrbCalls, NEW u \in PrbUsers, NEW h \in Hostnames, NEW prev \in 0 .. MaxRows,
           Register(c, u, h, prev)
    PROVE  PrbInv'
  <1> USE DEF PrbInv
  <1>1. PICK k : /\ k = [NoHandler EXCEPT !.op = IF prev = 0 THEN "lookup" ELSE "upsert",
                                          !.on = <<"machine", u, h>>, !.id = prev, !.user = u, !.host = h]
    OBVIOUS
  <1>2. Starts(c, k) /\ GetProbe(prev, u) /\ UNCHANGED <<probeRows, cached, conns, latest, given, reported>>
    BY <1>1 DEF Register, managerMemory, ghosts
  <1>3. /\ k \in PrbCallSet /\ k.op = (IF prev = 0 THEN "lookup" ELSE "upsert") /\ k.on = <<"machine", u, h>>
        /\ k.id = prev /\ k.user = u /\ k.host = h
    <2>1. <<"machine", u, h>> \in Subjects /\ prev \in Nat
      BY PrbAssumption DEF Subjects
    <2> QED  BY <1>1, <2>1, NoHandlerTyped DEF NoHandler, PrbCallSet, PrbOps
  <1>4. /\ prbCalls[c] = NoHandler /\ prbCalls' = [prbCalls EXCEPT ![c] = k]
        /\ raced \subseteq raced' /\ handled' = handled + 1
        /\ NewlyNamed(k) => k.on \in raced'
    BY <1>2 DEF Starts
  <1>5. prbCalls'[c] = k /\ \A d \in PrbCalls \ {c} : prbCalls'[d] = prbCalls[d]
    BY <1>4 DEF PrbTyped
  <1>6. Probes' = Probes
    BY <1>2 DEF Probes
  <1>7. PrbTyped'
    BY <1>2, <1>3, <1>4, <1>6 DEF PrbTyped
  <1>8. Handling'
    <2>1. Handles(prbCalls[c])'
      BY <1>2, <1>3, <1>5 DEF Handles, GetProbe, Probes
    <2> QED  BY <2>1, <1>2, <1>5, <1>6, HandlingKept
  <1>9. Alone'
    BY <1>2, <1>3, AloneStarts DEF PrbTyped, Works
  <1>10. TokensTrue'
    BY <1>2, <1>6, PrbTokensKept
  <1>11. MachinesOnce'
    <2>1. ASSUME NEW v \in PrbUsers, NEW g \in Hostnames, <<"machine", v, g>> \notin raced'
          PROVE  /\ \A p, q \in SameMachine(v, g)' : p = q
                 /\ \A d \in PrbCalls : Upserts(prbCalls'[d], v, g) => SameMachine(v, g)' \subseteq {prbCalls'[d].id}
      <3>1. SameMachine(v, g)' = SameMachine(v, g)
        BY <1>2 DEF SameMachine, Probes
      <3>2. \A p, q \in SameMachine(v, g) : p = q
        BY <2>1, <1>4 DEF MachinesOnce
      <3>3. ASSUME NEW d \in PrbCalls, Upserts(prbCalls'[d], v, g) PROVE SameMachine(v, g) \subseteq {prbCalls'[d].id}
        <4>1. CASE d # c
          BY <4>1, <3>3, <2>1, <1>4, <1>5 DEF MachinesOnce
        <4>2. CASE d = c
          <5>1. prev # 0 /\ u = v /\ h = g
            BY <4>2, <3>3, <1>3, <1>5 DEF Upserts
          <5>2. ~NewlyNamed(k)
            BY <5>1, <2>1, <1>3, <1>4
          <5>3. prev \in SameMachine(v, g)
            BY <5>1, <5>2, <1>2, <1>3 DEF NewlyNamed, GetProbe, SameMachine
          <5> QED  BY <5>3, <3>2, <4>2, <1>3, <1>5
        <4> QED  BY <4>1, <4>2
      <3> QED  BY <3>1, <3>2, <3>3
    <2> QED  BY <2>1 DEF MachinesOnce
  <1>12. SegmentsTrue'
    <2>1. SameFor({"list", "replace"})
      BY <1>3, <1>4, <1>5, NoHandlerTyped DEF SameFor
    <2> QED  BY <2>1, <1>2, <1>4, <1>6, SegmentsKept
  <1>13. StatusTrue'
    <2>1. SameFor({"status"})
      BY <1>3, <1>4, <1>5, NoHandlerTyped DEF SameFor
    <2> QED  BY <2>1, <1>2, <1>4, <1>6, StatusKept
  <1> QED  BY <1>7, <1>8, <1>9, <1>10, <1>11, <1>12, <1>13

\* A non-empty set of rows has a last one.
LEMMA LastRow ==
    ASSUME PrbTyped, NEW S \in SUBSET Probes, S # {} PROVE Max(S) \in S
  <1>1. Probes = 1 .. Len(probeRows) /\ Len(probeRows) \in Nat
    BY DEF Probes, PrbTyped
  <1>2. \E m \in S : \A x \in S : x <= m
    BY <1>1, GreatestBelow
  <1>3. \E m \in S : \A x \in S : m >= x
    BY <1>1, <1>2
  <1> QED  BY <1>3 DEF Max

\* It has looked the machine up.
LEMMA LooksUpStep ==
    ASSUME PrbInv, NEW c \in PrbCalls, LooksUp(c) PROVE PrbInv'
  <1> USE DEF PrbInv
  <1>1. /\ prbCalls[c].op = "lookup" /\ prbCalls[c] \in PrbCallSet
        /\ UNCHANGED <<probeRows, cached, conns, latest, given, reported, handled, raced>>
    BY DEF LooksUp, managerMemory, ghosts, PrbTyped
  <1>2. PICK same : same = SameMachine(prbCalls[c].user, prbCalls[c].host)
    OBVIOUS
  <1>3. PICK i : i = IF same = {} THEN 0 ELSE Max(same)
    OBVIOUS
  <1>4. same \subseteq Probes /\ Probes \subseteq Nat /\ (same # {} => i \in same) /\ (same = {} => i = 0)
    <2>1. same \subseteq Probes /\ Probes \subseteq Nat
      BY <1>2 DEF SameMachine, Probes, PrbTyped
    <2>2. same # {} => i \in same
      BY <2>1, <1>3, LastRow
    <2> QED  BY <2>1, <2>2, <1>3
  <1>5. PICK k : k = [prbCalls[c] EXCEPT !.op = "upsert", !.id = i]
    OBVIOUS
  <1>6. /\ k \in PrbCallSet /\ k.op = "upsert" /\ k.id = i
        /\ k.on = prbCalls[c].on /\ k.user = prbCalls[c].user /\ k.host = prbCalls[c].host
    <2>1. i \in Nat
      <3>1. CASE same = {}
        BY <3>1, <1>4
      <3>2. CASE same # {}
        BY <3>2, <1>4, Zenon
      <3> QED  BY <3>1, <3>2
    <2> QED  BY <1>1, <1>5, <2>1 DEF PrbCallSet, PrbOps
  <1>7. prbCalls' = [prbCalls EXCEPT ![c] = k]
    BY <1>2, <1>3, <1>5 DEF LooksUp, PrbTyped
  <1>8. prbCalls'[c] = k /\ \A d \in PrbCalls \ {c} : prbCalls'[d] = prbCalls[d]
    BY <1>7 DEF PrbTyped
  <1>9. Probes' = Probes
    BY <1>1 DEF Probes
  <1>10. PrbTyped'
    BY <1>1, <1>6, <1>7, <1>9 DEF PrbTyped
  <1>11. Handles(prbCalls[c])
    BY DEF Handling
  <1>12. Handling'
    <2>1. i # 0 => i \in Probes /\ probeRows[i].owner = k.user
      BY <1>2, <1>4, <1>6 DEF SameMachine
    <2>2. Handles(prbCalls[c])'
      BY <2>1, <1>1, <1>6, <1>8, <1>9, <1>11 DEF Handles
    <2> QED  BY <2>2, <1>1, <1>8, <1>9, HandlingKept
  <1>13. Alone'
    <2>1. \A d \in PrbCalls : Works(prbCalls'[d]) => Works(prbCalls[d]) /\ prbCalls'[d].on = prbCalls[d].on
      BY <1>1, <1>6, <1>8 DEF Works
    <2> QED  BY <2>1, <1>1, AloneKept
  <1>14. TokensTrue'
    BY <1>1, <1>9, PrbTokensKept
  <1>15. MachinesOnce'
    <2>1. ASSUME NEW v \in PrbUsers, NEW g \in Hostnames, <<"machine", v, g>> \notin raced
          PROVE  /\ \A p, q \in SameMachine(v, g)' : p = q
                 /\ \A d \in PrbCalls : Upserts(prbCalls'[d], v, g) => SameMachine(v, g)' \subseteq {prbCalls'[d].id}
      <3>1. SameMachine(v, g)' = SameMachine(v, g)
        BY <1>1 DEF SameMachine, Probes
      <3>2. \A p, q \in SameMachine(v, g) : p = q
        BY <2>1 DEF MachinesOnce
      <3>3. ASSUME NEW d \in PrbCalls, Upserts(prbCalls'[d], v, g) PROVE SameMachine(v, g) \subseteq {prbCalls'[d].id}
        <4>1. CASE d # c
          BY <4>1, <3>3, <2>1, <1>8 DEF MachinesOnce
        <4>2. CASE d = c
          BY <4>2, <3>2, <3>3, <1>2, <1>4, <1>6, <1>8 DEF Upserts
        <4> QED  BY <4>1, <4>2
      <3> QED  BY <3>1, <3>2, <3>3
    <2> QED  BY <2>1, <1>1 DEF MachinesOnce
  <1>16. SegmentsTrue'
    <2>1. SameFor({"list", "replace"})
      BY <1>1, <1>6, <1>8 DEF SameFor
    <2> QED  BY <2>1, <1>1, <1>9, SegmentsKept
  <1>17. StatusTrue'
    <2>1. SameFor({"status"})
      BY <1>1, <1>6, <1>8 DEF SameFor
    <2> QED  BY <2>1, <1>1, <1>9, StatusKept
  <1> QED  BY <1>10, <1>12, <1>13, <1>14, <1>15, <1>16, <1>17

\* The row is written.
LEMMA WritesRowStep ==
    ASSUME PrbInv, NEW c \in PrbCalls, WritesRow(c) PROVE PrbInv'
  <1> USE DEF PrbInv
  <1>1. PICK k : k = prbCalls[c]
    OBVIOUS
  <1>2. /\ k \in PrbCallSet /\ k.op = "upsert" /\ Handles(k)
        /\ probeRows' = UpsertProbe(k.id, k.user, k.host, Len(given) + 1)
        /\ given' = Append(given, k.user)
        /\ UNCHANGED <<conns, latest, handled, raced>>
        /\ prbCalls' = [prbCalls EXCEPT ![c] = NoHandler]
    BY <1>1 DEF WritesRow, HandlerReturns, managerMemory, PrbTyped, Handling
  <1>3. IF k.id # 0 THEN UNCHANGED <<cached, reported>>
        ELSE cached' = Append(cached, <<>>) /\ reported' = Append(reported, <<>>)
    BY <1>1 DEF WritesRow
  <1>4. /\ prbCalls'[c] = NoHandler /\ \A d \in PrbCalls \ {c} : prbCalls'[d] = prbCalls[d]
        /\ NoHandler \in PrbCallSet /\ NoHandler.op = "idle"
    BY <1>2, NoHandlerTyped DEF PrbTyped
  <1>5. /\ k.user \in PrbUsers /\ k.host \in Hostnames /\ k.on = <<"machine", k.user, k.host>>
        /\ k.id # 0 => k.id \in Probes /\ probeRows[k.id].owner = k.user
    BY <1>2 DEF Handles
  <1>6. PICK t : t = Len(given) + 1
    OBVIOUS
  <1>7. PICK w : w = IF k.id = 0 THEN Len(probeRows) + 1 ELSE k.id
    OBVIOUS
  <1>8. /\ Len(given) \in Nat /\ Len(probeRows) \in Nat /\ Probes = 1 .. Len(probeRows)
        /\ DOMAIN given = 1 .. Len(given) /\ t \in Nat \ {0}
    BY <1>6 DEF PrbTyped, Probes
  <1>9. /\ Probes' = Probes \cup {w} /\ w \in Nat \ {0} /\ (k.id = 0 => w \notin Probes)
        /\ Len(probeRows') = IF k.id = 0 THEN w ELSE Len(probeRows)
        /\ probeRows' \in Seq(PrbRowSet)
        /\ probeRows'[w].owner = k.user /\ probeRows'[w].host = k.host /\ probeRows'[w].token = t
        /\ \A p \in Probes \ {w} : probeRows'[p] = probeRows[p]
        /\ k.id # 0 => probeRows'[w].status = probeRows[w].status
        /\ k.id = 0 => probeRows'[w].status = 0
    <2>1. CASE k.id = 0
      <3>1. PICK r : r = [owner |-> k.user, host |-> k.host, name |-> k.host, token |-> t, status |-> 0]
        OBVIOUS
      <3>2. r \in PrbRowSet
        BY <3>1, <1>5, <1>8 DEF PrbRowSet
      <3>3. probeRows' = Append(probeRows, r)
        BY <2>1, <3>1, <1>2, <1>6 DEF UpsertProbe
      <3>4. /\ probeRows' \in Seq(PrbRowSet) /\ Len(probeRows') = Len(probeRows) + 1 /\ probeRows'[w] = r
            /\ \A p \in Probes : probeRows'[p] = probeRows[p]
        BY <3>2, <3>3, <2>1, <1>7, <1>8 DEF PrbTyped
      <3>5. Probes' = Probes \cup {w} /\ w \in Nat \ {0} /\ w \notin Probes
        BY <3>4, <2>1, <1>7, <1>8 DEF Probes
      <3> QED  BY <3>1, <3>4, <3>5, <2>1, <1>7
    <2>2. CASE k.id # 0
      <3>1. PICK r : r = [probeRows[w] EXCEPT !.name = k.host, !.host = k.host, !.token = t]
        OBVIOUS
      <3>2. w \in Probes /\ probeRows[w] \in PrbRowSet /\ probeRows[w].owner = k.user
        BY <2>2, <1>5, <1>7 DEF PrbTyped, Probes
      <3>3. r \in PrbRowSet /\ r.owner = k.user /\ r.host = k.host /\ r.token = t /\ r.status = probeRows[w].status
        BY <3>1, <3>2, <1>5, <1>8 DEF PrbRowSet
      <3>4. probeRows' = [probeRows EXCEPT ![w] = r]
        BY <2>2, <3>1, <3>2, <1>2, <1>6, <1>7 DEF UpsertProbe, PrbTyped, Probes
      <3>5. /\ probeRows' \in Seq(PrbRowSet) /\ Len(probeRows') = Len(probeRows) /\ probeRows'[w] = r
            /\ \A p \in Probes \ {w} : probeRows'[p] = probeRows[p]
        BY <3>2, <3>3, <3>4, <1>8 DEF PrbTyped, Probes
      <3>6. Probes' = Probes \cup {w} /\ w \in Nat \ {0}
        <4>1. Probes' = 1 .. Len(probeRows')
          BY <3>5 DEF Probes
        <4>2. Probes' = Probes
          BY <4>1, <3>5, <1>8
        <4>3. w \in 1 .. Len(probeRows)
          BY <3>2, <1>8
        <4> QED  BY <4>2, <4>3, <3>2, <1>8
      <3> QED  BY <3>3, <3>5, <3>6, <2>2
    <2> QED  BY <2>1, <2>2
  <1>10. /\ DOMAIN given' = DOMAIN given \cup {t} /\ given'[t] = k.user
         /\ \A n \in DOMAIN given : given'[n] = given[n] /\ n # t
         /\ given' \in Seq(PrbUsers)
    BY <1>2, <1>5, <1>6, <1>8 DEF PrbTyped
  <1>11. /\ cached' \in Seq(SegmentLists) /\ Len(cached') = Len(probeRows')
         /\ reported' \in Seq(SegmentLists) /\ Len(reported') = Len(probeRows')
         /\ \A p \in Probes : cached'[p] = cached[p] /\ reported'[p] = reported[p]
         /\ k.id = 0 => cached'[w] = reported'[w]
    <2>1. CASE k.id = 0
      <3>1. PICK e : e = <<>>
        OBVIOUS
      <3>2. e \in SegmentLists /\ cached' = Append(cached, e) /\ reported' = Append(reported, e)
        BY <2>1, <3>1, <1>3, NoSegments
      <3>3. /\ cached \in Seq(SegmentLists) /\ Len(cached) = Len(probeRows)
            /\ reported \in Seq(SegmentLists) /\ Len(reported) = Len(probeRows)
        BY DEF PrbTyped
      <3>4. w = Len(probeRows) + 1 /\ Len(probeRows') = w
        BY <2>1, <1>7, <1>9
      <3>5. /\ cached' \in Seq(SegmentLists) /\ Len(cached') = w /\ cached'[w] = e
            /\ \A p \in 1 .. Len(probeRows) : cached'[p] = cached[p]
        BY <3>2, <3>3, <3>4, <1>8, ListGrows
      <3>6. /\ reported' \in Seq(SegmentLists) /\ Len(reported') = w /\ reported'[w] = e
            /\ \A p \in 1 .. Len(probeRows) : reported'[p] = reported[p]
        BY <3>2, <3>3, <3>4, <1>8, ListGrows
      <3> QED  BY <3>4, <3>5, <3>6, <1>8
    <2>2. CASE k.id # 0
      BY <2>2, <1>3, <1>9 DEF PrbTyped
    <2> QED  BY <2>1, <2>2
  <1>12. PrbTyped'
    BY <1>2, <1>4, <1>9, <1>10, <1>11 DEF PrbTyped
  <1>13. Handling'
    <2>1. Handles(prbCalls[c])'
      BY <1>4 DEF Handles
    <2>2. \A p \in Probes : probeRows'[p].owner = probeRows[p].owner
      BY <1>5, <1>7, <1>9
    <2> QED  BY <2>1, <2>2, <1>4, <1>9, HandlingKept
  <1>14. Alone'
    <2>1. \A d \in PrbCalls : Works(prbCalls'[d]) => Works(prbCalls[d]) /\ prbCalls'[d].on = prbCalls[d].on
      BY <1>4 DEF Works
    <2> QED  BY <2>1, <1>2, AloneKept
  <1>15. TokensTrue'
    <2>1. ASSUME NEW p \in Probes', probeRows'[p].token # 0
          PROVE  probeRows'[p].token \in DOMAIN given' /\ given'[probeRows'[p].token] = probeRows'[p].owner
      <3>1. CASE p = w
        BY <3>1, <1>9, <1>10
      <3>2. CASE p # w
        BY <3>2, <2>1, <1>9, <1>10 DEF TokensTrue
      <3> QED  BY <3>1, <3>2
    <2>2. ASSUME NEW p \in Probes \ {w}, probeRows[p].token # 0 PROVE probeRows[p].token # t
      BY <2>2, <1>10 DEF TokensTrue
    <2>3. ASSUME NEW p \in Probes', NEW q \in Probes', probeRows'[p].token = probeRows'[q].token, probeRows'[p].token # 0
          PROVE  p = q
      <3>1. CASE p = w /\ q # w
        BY <3>1, <2>2, <2>3, <1>9
      <3>2. CASE q = w /\ p # w
        BY <3>2, <2>2, <2>3, <1>9
      <3>3. CASE p # w /\ q # w
        BY <3>3, <2>3, <1>9 DEF TokensTrue
      <3> QED  BY <3>1, <3>2, <3>3
    <2> QED  BY <2>1, <2>3 DEF TokensTrue
  <1>16. MachinesOnce'
    <2>1. ASSUME NEW v \in PrbUsers, NEW g \in Hostnames, <<"machine", v, g>> \notin raced'
          PROVE  /\ \A p, q \in SameMachine(v, g)' : p = q
                 /\ \A d \in PrbCalls : Upserts(prbCalls'[d], v, g) => SameMachine(v, g)' \subseteq {prbCalls'[d].id}
      <3>1. <<"machine", v, g>> \notin raced /\ \A p, q \in SameMachine(v, g) : p = q
        BY <2>1, <1>2 DEF MachinesOnce
      <3>2. CASE v = k.user /\ g = k.host
        <4>1. SameMachine(v, g) \subseteq {k.id}
          BY <3>1, <3>2, <1>1, <1>2 DEF MachinesOnce, Upserts
        <4>2. SameMachine(v, g)' \subseteq {w}
          BY <4>1, <3>2, <1>7, <1>8, <1>9 DEF SameMachine
        <4>3. ASSUME NEW d \in PrbCalls, Upserts(prbCalls'[d], v, g) PROVE FALSE
          <5>1. d # c /\ prbCalls'[d] = prbCalls[d]
            BY <4>3, <1>4 DEF Upserts
          <5>2. prbCalls[d].on = k.on /\ Works(prbCalls[d]) /\ Works(k)
            <6>1. Handles(prbCalls[d])
              BY DEF Handling
            <6> QED  BY <6>1, <5>1, <4>3, <3>2, <1>2, <1>5 DEF Upserts, Works, Handles
          <5> QED  BY <5>1, <5>2, <3>1, <3>2, <1>1, <1>5 DEF Alone
        <4> QED  BY <4>2, <4>3
      <3>3. CASE ~(v = k.user /\ g = k.host)
        <4>1. SameMachine(v, g)' \subseteq SameMachine(v, g)
          BY <3>3, <1>9 DEF SameMachine
        <4>2. ASSUME NEW d \in PrbCalls, Upserts(prbCalls'[d], v, g) PROVE SameMachine(v, g) \subseteq {prbCalls'[d].id}
          <5>1. prbCalls'[d] = prbCalls[d]
            BY <4>2, <1>4 DEF Upserts
          <5> QED  BY <5>1, <4>2, <3>1 DEF MachinesOnce
        <4> QED  BY <4>1, <4>2, <3>1
      <3> QED  BY <3>2, <3>3
    <2> QED  BY <2>1 DEF MachinesOnce
  <1>17. SegmentsTrue'
    <2>1. ASSUME NEW p \in Probes', <<"segments", p>> \notin raced'
          PROVE  /\ (\A d \in PrbCalls : ~Merges(prbCalls'[d], p)) => cached'[p] = reported'[p]
                 /\ \A d \in PrbCalls : Merges(prbCalls'[d], p) =>
                       /\ reported'[p] = Overlay(prbCalls'[d].segs, cached'[p])
                       /\ prbCalls'[d].op = "replace" => prbCalls'[d].old = cached'[p]
      <3>1. \A d \in PrbCalls, q \in Nat : /\ Merges(prbCalls'[d], q) <=> Merges(prbCalls[d], q)
                                           /\ Merges(prbCalls'[d], q) => prbCalls'[d] = prbCalls[d]
        BY <1>1, <1>2, <1>4 DEF Merges
      <3>2. p \in Nat
        BY <1>8, <1>9
      <3>3. CASE p \in Probes
        BY <3>1, <3>2, <3>3, <2>1, <1>2, <1>11 DEF SegmentsTrue
      <3>4. CASE p \notin Probes
        <4>1. p = w /\ k.id = 0
          BY <3>4, <1>7, <1>9, <1>5
        <4>2. ASSUME NEW d \in PrbCalls, Merges(prbCalls[d], p) PROVE FALSE
          <5>1. Handles(prbCalls[d])
            BY DEF Handling
          <5> QED  BY <5>1, <4>2, <3>4 DEF Handles, Merges
        <4> QED  BY <4>1, <4>2, <3>1, <3>2, <1>11
      <3> QED  BY <3>3, <3>4
    <2> QED  BY <2>1 DEF SegmentsTrue
  <1>18. StatusTrue'
    <2>1. ASSUME NEW p \in Probes', <<"status", p>> \notin raced'
          PROVE  /\ (\A d \in PrbCalls : ~Reports(prbCalls'[d], p)) =>
                       (p \in DOMAIN latest' => latest'[p] = probeRows'[p].status)
                 /\ \A d \in PrbCalls : Reports(prbCalls'[d], p) =>
                       p \in DOMAIN latest' /\ latest'[p] = prbCalls'[d].status
      <3>1. \A d \in PrbCalls, q \in Nat : /\ Reports(prbCalls'[d], q) <=> Reports(prbCalls[d], q)
                                           /\ Reports(prbCalls'[d], q) => prbCalls'[d] = prbCalls[d]
        BY <1>1, <1>2, <1>4 DEF Reports
      <3>2. p \in Nat
        BY <1>8, <1>9
      <3>3. CASE p \in Probes
        <4>1. probeRows'[p].status = probeRows[p].status
          BY <3>3, <1>7, <1>9
        <4> QED  BY <4>1, <3>1, <3>2, <3>3, <2>1, <1>2 DEF StatusTrue
      <3>4. CASE p \notin Probes
        <4>1. p \notin DOMAIN latest
          BY <3>4 DEF PrbTyped
        <4>2. ASSUME NEW d \in PrbCalls, Reports(prbCalls[d], p) PROVE FALSE
          <5>1. Handles(prbCalls[d])
            BY DEF Handling
          <5> QED  BY <5>1, <4>2, <3>4 DEF Handles, Reports
        <4> QED  BY <4>1, <4>2, <3>1, <3>2, <1>2
      <3> QED  BY <3>3, <3>4
    <2> QED  BY <2>1 DEF StatusTrue
  <1> QED  BY <1>12, <1>13, <1>14, <1>15, <1>16, <1>17, <1>18

\* A control stream opens or ends.
LEMMA StreamsStep ==
    ASSUME PrbInv, conns' \subseteq Probes,
           UNCHANGED <<probeRows, cached, latest, prbCalls, given, reported, handled, raced>>
    PROVE  PrbInv'
  <1> USE DEF PrbInv
  <1>1. Probes' = Probes
    BY DEF Probes
  <1>2. \A k : Handles(k)' <=> Handles(k)
    BY <1>1 DEF Handles
  <1>3. PrbTyped' /\ Handling'
    BY <1>1, <1>2 DEF PrbTyped, Handling
  <1>4. SameFor({"upsert"}) /\ SameFor({"list", "replace"}) /\ SameFor({"status"})
    BY DEF SameFor
  <1>5. Alone'
    BY DEF Alone
  <1>6. TokensTrue' /\ MachinesOnce'
    BY <1>1, <1>4, PrbTokensKept, MachinesKept
  <1>7. SegmentsTrue' /\ StatusTrue'
    BY <1>1, <1>4, SegmentsKept, StatusKept
  <1> QED  BY <1>3, <1>5, <1>6, <1>7

\* The rows a token opens are rows.
LEMMA ConnectStep == ASSUME PrbInv, NEW t, Connect(t) PROVE PrbInv'
  <1>1. conns' \subseteq Probes
    BY DEF Connect, GetProbeByTokenHash, PrbInv, PrbTyped
  <1> QED  BY <1>1, StreamsStep DEF Connect, ghosts

\* Less streams than there were.
LEMMA DisconnectStep == ASSUME PrbInv, NEW p, Disconnect(p) PROVE PrbInv'
  <1>1. conns' \subseteq Probes
    BY DEF Disconnect, PrbInv, PrbTyped
  <1> QED  BY <1>1, StreamsStep DEF Disconnect, ghosts

\* What an update of one row leaves alone.
LEMMA RowSet ==
    ASSUME PrbTyped, NEW p \in Probes, NEW r \in PrbRowSet, probeRows' = [probeRows EXCEPT ![p] = r]
    PROVE  /\ probeRows' \in Seq(PrbRowSet) /\ Len(probeRows') = Len(probeRows) /\ Probes' = Probes
           /\ probeRows'[p] = r /\ \A q \in Probes \ {p} : probeRows'[q] = probeRows[q]
  BY DEF PrbTyped, Probes

\* A probe is given another name.
LEMMA RenameStep == ASSUME PrbInv, NEW p \in Probes, NEW n \in PrbNames, Rename(p, n) PROVE PrbInv'
  <1> USE DEF PrbInv
  <1>1. PICK r : r = [probeRows[p] EXCEPT !.name = n]
    OBVIOUS
  <1>2. probeRows[p] \in PrbRowSet
    BY DEF PrbTyped, Probes
  <1>3. /\ r \in PrbRowSet /\ r.owner = probeRows[p].owner /\ r.host = probeRows[p].host
        /\ r.token = probeRows[p].token /\ r.status = probeRows[p].status
    BY <1>1, <1>2 DEF PrbRowSet
  <1>4. /\ probeRows' = [probeRows EXCEPT ![p] = r]
        /\ UNCHANGED <<cached, conns, latest, prbCalls, given, reported, handled, raced>>
    BY <1>1 DEF Rename, RenameProbe, managerMemory, ghosts
  <1>5. /\ probeRows' \in Seq(PrbRowSet) /\ Len(probeRows') = Len(probeRows) /\ Probes' = Probes
        /\ probeRows'[p] = r /\ \A q \in Probes \ {p} : probeRows'[q] = probeRows[q]
    BY <1>3, <1>4, RowSet
  <1>6. \A q \in Probes : /\ probeRows'[q].owner = probeRows[q].owner /\ probeRows'[q].host = probeRows[q].host
                          /\ probeRows'[q].token = probeRows[q].token /\ probeRows'[q].status = probeRows[q].status
    BY <1>3, <1>5
  <1>7. PrbTyped'
    BY <1>4, <1>5 DEF PrbTyped
  <1>8. Handling'
    <2>1. \A k : Handles(k) => Handles(k)'
      BY <1>5, <1>6 DEF Handles
    <2> QED  BY <2>1, <1>4 DEF Handling
  <1>9. SameFor({"upsert"}) /\ SameFor({"list", "replace"}) /\ SameFor({"status"})
    BY <1>4 DEF SameFor
  <1>10. Alone'
    BY <1>4 DEF Alone
  <1>11. TokensTrue' /\ MachinesOnce'
    BY <1>4, <1>5, <1>6, <1>9, PrbTokensKept, MachinesKept
  <1>12. SegmentsTrue' /\ StatusTrue'
    BY <1>4, <1>5, <1>6, <1>9, SegmentsKept, StatusKept
  <1> QED  BY <1>7, <1>8, <1>10, <1>11, <1>12

\* The manager cuts the stream of a probe whose token is being taken away.
LEMMA RevokeStep == ASSUME PrbInv, NEW c \in PrbCalls, NEW p \in Probes, Revoke(c, p) PROVE PrbInv'
  <1> USE DEF PrbInv
  <1>1. PICK k : k = [NoHandler EXCEPT !.op = "revoke", !.on = <<"token", p>>, !.id = p]
    OBVIOUS
  <1>2. p \in Nat
    BY DEF PrbTyped, Probes
  <1>3. k \in PrbCallSet /\ k.op = "revoke" /\ k.id = p
    <2>1. <<"token", p>> \in Subjects
      BY <1>2 DEF Subjects
    <2> QED  BY <1>1, <1>2, <2>1, NoHandlerTyped DEF NoHandler, PrbCallSet, PrbOps
  <1>4. Starts(c, k) /\ conns' = conns \ {p} /\ UNCHANGED <<probeRows, cached, latest, given, reported>>
    BY <1>1 DEF Revoke, ghosts
  <1>5. /\ prbCalls[c] = NoHandler /\ prbCalls' = [prbCalls EXCEPT ![c] = k]
        /\ raced' = raced /\ handled' = handled + 1
    BY <1>3, <1>4 DEF Starts, NewlyNamed
  <1>6. prbCalls'[c] = k /\ \A d \in PrbCalls \ {c} : prbCalls'[d] = prbCalls[d]
    BY <1>5 DEF PrbTyped
  <1>7. Probes' = Probes
    BY <1>4 DEF Probes
  <1>8. PrbTyped'
    BY <1>3, <1>4, <1>5, <1>7 DEF PrbTyped
  <1>9. Handling'
    <2>1. Handles(prbCalls[c])'
      BY <1>3, <1>6, <1>7 DEF Handles
    <2> QED  BY <2>1, <1>4, <1>6, <1>7, HandlingKept
  <1>10. SameFor({"upsert"}) /\ SameFor({"list", "replace"}) /\ SameFor({"status"})
    BY <1>3, <1>5, <1>6, NoHandlerTyped DEF SameFor
  <1>11. Alone'
    <2>1. \A d \in PrbCalls : Works(prbCalls'[d]) => Works(prbCalls[d]) /\ prbCalls'[d].on = prbCalls[d].on
      BY <1>3, <1>6 DEF Works
    <2> QED  BY <2>1, <1>5, AloneKept
  <1>12. TokensTrue' /\ MachinesOnce'
    BY <1>4, <1>5, <1>7, <1>10, PrbTokensKept, MachinesKept
  <1>13. SegmentsTrue' /\ StatusTrue'
    BY <1>4, <1>5, <1>7, <1>10, SegmentsKept, StatusKept
  <1> QED  BY <1>8, <1>9, <1>11, <1>12, <1>13

\* The row is written: the token is taken away, or the status is stored.
LEMMA WritesStep == ASSUME PrbInv, NEW c \in PrbCalls, Writes(c) PROVE PrbInv'
  <1> USE DEF PrbInv
  <1>1. PICK k : k = prbCalls[c]
    OBVIOUS
  <1>2. /\ k \in PrbCallSet /\ k.op \in {"revoke", "status"} /\ Handles(k) /\ k.id \in Probes
        /\ probeRows' = IF k.op = "revoke" THEN RevokeProbe(k.id) ELSE UpdateProbeStatus(k.id, k.status)
        /\ prbCalls' = [prbCalls EXCEPT ![c] = NoHandler]
        /\ UNCHANGED <<cached, conns, latest, given, reported, handled, raced>>
    <2>1. k \in PrbCallSet /\ k.op \in {"revoke", "status"} /\ Handles(k)
      BY <1>1 DEF Writes, PrbTyped, Handling
    <2> QED  BY <2>1, <1>1 DEF Writes, HandlerReturns, managerMemory, ghosts, Handles
  <1>3. /\ prbCalls'[c] = NoHandler /\ \A d \in PrbCalls \ {c} : prbCalls'[d] = prbCalls[d]
        /\ NoHandler \in PrbCallSet /\ NoHandler.op = "idle"
    BY <1>2, NoHandlerTyped DEF PrbTyped
  <1>4. PICK p : p = k.id
    OBVIOUS
  <1>5. p \in Probes /\ probeRows[p] \in PrbRowSet /\ k.status \in Nat
    BY <1>2, <1>4 DEF PrbTyped, Probes, PrbCallSet
  <1>6. PICK r : r = IF k.op = "revoke" THEN [probeRows[p] EXCEPT !.token = 0] ELSE [probeRows[p] EXCEPT !.status = k.status]
    OBVIOUS
  <1>7. /\ r \in PrbRowSet /\ r.owner = probeRows[p].owner /\ r.host = probeRows[p].host
        /\ r.token \in {0, probeRows[p].token}
        /\ r.status = IF k.op = "revoke" THEN probeRows[p].status ELSE k.status
    <2>1. CASE k.op = "revoke"
      BY <2>1, <1>5, <1>6 DEF PrbRowSet
    <2>2. CASE k.op # "revoke"
      BY <2>2, <1>5, <1>6 DEF PrbRowSet
    <2> QED  BY <2>1, <2>2
  <1>8. probeRows' = [probeRows EXCEPT ![p] = r]
    BY <1>2, <1>4, <1>5, <1>6 DEF RevokeProbe, UpdateProbeStatus, PrbTyped, Probes
  <1>9. /\ probeRows' \in Seq(PrbRowSet) /\ Len(probeRows') = Len(probeRows) /\ Probes' = Probes
        /\ probeRows'[p] = r /\ \A q \in Probes \ {p} : probeRows'[q] = probeRows[q]
    BY <1>5, <1>7, <1>8, RowSet
  <1>10. \A q \in Probes : /\ probeRows'[q].owner = probeRows[q].owner /\ probeRows'[q].host = probeRows[q].host
                           /\ probeRows'[q].token \in {0, probeRows[q].token}
    BY <1>7, <1>9
  <1>11. PrbTyped'
    BY <1>2, <1>3, <1>9 DEF PrbTyped
  <1>12. Handling'
    <2>1. Handles(prbCalls[c])'
      BY <1>3 DEF Handles
    <2> QED  BY <2>1, <1>3, <1>9, <1>10, HandlingKept
  <1>13. SameFor({"upsert"}) /\ SameFor({"list", "replace"})
    BY <1>1, <1>2, <1>3 DEF SameFor
  <1>14. Alone'
    <2>1. \A d \in PrbCalls : Works(prbCalls'[d]) => Works(prbCalls[d]) /\ prbCalls'[d].on = prbCalls[d].on
      BY <1>3 DEF Works
    <2> QED  BY <2>1, <1>2, AloneKept
  <1>15. TokensTrue' /\ MachinesOnce' /\ SegmentsTrue'
    BY <1>2, <1>9, <1>10, <1>13, PrbTokensKept, MachinesKept, SegmentsKept
  <1>16. StatusTrue'
    <2>1. CASE k.op = "revoke"
      <3>1. SameFor({"status"})
        BY <2>1, <1>1, <1>3 DEF SameFor
      <3>2. \A q \in Probes : probeRows'[q].status = probeRows[q].status
        BY <2>1, <1>7, <1>9
      <3> QED  BY <3>1, <3>2, <1>2, <1>9, StatusKept
    <2>2. CASE k.op = "status"
      <3>1. ASSUME NEW q \in Probes, <<"status", q>> \notin raced
            PROVE  /\ (\A d \in PrbCalls : ~Reports(prbCalls'[d], q)) =>
                         (q \in DOMAIN latest => latest[q] = probeRows'[q].status)
                   /\ \A d \in PrbCalls : Reports(prbCalls'[d], q) =>
                         q \in DOMAIN latest /\ latest[q] = prbCalls'[d].status
        <4>1. ASSUME NEW d \in PrbCalls, Reports(prbCalls'[d], q)
              PROVE  q \in DOMAIN latest /\ latest[q] = prbCalls'[d].status
          <5>1. prbCalls'[d] = prbCalls[d]
            BY <4>1, <1>3 DEF Reports
          <5> QED  BY <5>1, <4>1, <3>1 DEF StatusTrue
        <4>2. CASE q = p
          <5>1. q \in DOMAIN latest /\ latest[q] = k.status
            BY <4>2, <3>1, <2>2, <1>1, <1>4 DEF StatusTrue, Reports
          <5>2. probeRows'[q].status = k.status
            BY <4>2, <2>2, <1>7, <1>9
          <5> QED  BY <5>1, <5>2, <4>1
        <4>3. CASE q # p
          <5>1. ~Reports(prbCalls[c], q) /\ probeRows'[q] = probeRows[q]
            BY <4>3, <1>1, <1>4, <1>9 DEF Reports
          <5>2. ASSUME \A d \in PrbCalls : ~Reports(prbCalls'[d], q) PROVE \A d \in PrbCalls : ~Reports(prbCalls[d], q)
            BY <5>1, <5>2, <1>3
          <5> QED  BY <5>1, <5>2, <4>1, <3>1 DEF StatusTrue
        <4> QED  BY <4>2, <4>3
      <3> QED  BY <3>1, <1>2, <1>9 DEF StatusTrue
    <2> QED  BY <2>1, <2>2, <1>2
  <1> QED  BY <1>11, <1>12, <1>14, <1>15, <1>16

\* The manager takes a heartbeat in.
LEMMA HeartbeatStep == ASSUME PrbInv, NEW c \in PrbCalls, NEW p \in Probes, Heartbeat(c, p) PROVE PrbInv'
  <1> USE DEF PrbInv
  <1>1. PICK k : k = [NoHandler EXCEPT !.op = "status", !.on = <<"status", p>>, !.id = p, !.status = handled + 1]
    OBVIOUS
  <1>2. p \in Nat /\ handled + 1 \in Nat
    BY DEF PrbTyped, Probes
  <1>3. k \in PrbCallSet /\ k.op = "status" /\ k.id = p /\ k.on = <<"status", p>> /\ k.status = handled + 1
    <2>1. <<"status", p>> \in Subjects
      BY <1>2 DEF Subjects
    <2> QED  BY <1>1, <1>2, <2>1, NoHandlerTyped DEF NoHandler, PrbCallSet, PrbOps
  <1>4. /\ Starts(c, k) /\ latest' = Overlay([x \in {p} |-> handled + 1], latest)
        /\ UNCHANGED <<probeRows, cached, conns, given, reported>>
    BY <1>1 DEF Heartbeat, ghosts
  <1>5. /\ prbCalls[c] = NoHandler /\ prbCalls' = [prbCalls EXCEPT ![c] = k]
        /\ raced \subseteq raced' /\ handled' = handled + 1
    BY <1>4 DEF Starts
  <1>6. prbCalls'[c] = k /\ \A d \in PrbCalls \ {c} : prbCalls'[d] = prbCalls[d]
    BY <1>5 DEF PrbTyped
  <1>7. Probes' = Probes
    BY <1>4 DEF Probes
  <1>8. /\ latest' \in SegmentLists /\ DOMAIN latest' = DOMAIN latest \cup {p}
        /\ latest'[p] = handled + 1 /\ \A q \in DOMAIN latest \ {p} : latest'[q] = latest[q]
    <2>1. PICK n : n = handled + 1
      OBVIOUS
    <2>2. PICK f : f = [x \in {p} |-> n]
      OBVIOUS
    <2>3. n \in Nat /\ f \in [{p} -> Nat] /\ DOMAIN f = {p} /\ f[p] = n
      BY <1>2, <2>1, <2>2
    <2>4. f \in SegmentLists
      BY <2>3, <1>2, SegmentListMade
    <2>5. latest' = Overlay(f, latest) /\ latest \in SegmentLists
      BY <1>4, <2>1, <2>2 DEF PrbTyped
    <2>6. PICK g : g = latest
      OBVIOUS
    <2>7. g \in SegmentLists
      BY <2>5, <2>6
    <2>8. /\ Overlay(f, g) \in SegmentLists /\ DOMAIN Overlay(f, g) = DOMAIN f \cup DOMAIN g
          /\ \A x \in DOMAIN f \cup DOMAIN g : Overlay(f, g)[x] = IF x \in DOMAIN f THEN f[x] ELSE g[x]
      BY <2>4, <2>7, OverlayIs
    <2> QED  BY <2>1, <2>3, <2>5, <2>6, <2>8
  <1>9. PrbTyped'
    BY <1>3, <1>4, <1>5, <1>7, <1>8 DEF PrbTyped
  <1>10. Handling'
    <2>1. Handles(prbCalls[c])'
      BY <1>3, <1>6, <1>7 DEF Handles
    <2> QED  BY <2>1, <1>4, <1>6, <1>7, HandlingKept
  <1>11. SameFor({"upsert"}) /\ SameFor({"list", "replace"})
    BY <1>3, <1>5, <1>6, NoHandlerTyped DEF SameFor
  <1>12. Alone'
    BY <1>3, <1>4, AloneStarts DEF PrbTyped, Works
  <1>13. TokensTrue' /\ MachinesOnce' /\ SegmentsTrue'
    BY <1>4, <1>5, <1>7, <1>11, PrbTokensKept, MachinesKept, SegmentsKept
  <1>14. StatusTrue'
    <2>1. ASSUME NEW q \in Probes, <<"status", q>> \notin raced'
          PROVE  /\ (\A d \in PrbCalls : ~Reports(prbCalls'[d], q)) =>
                       (q \in DOMAIN latest' => latest'[q] = probeRows'[q].status)
                 /\ \A d \in PrbCalls : Reports(prbCalls'[d], q) =>
                       q \in DOMAIN latest' /\ latest'[q] = prbCalls'[d].status
      <3>1. CASE q = p
        <4>1. Reports(prbCalls'[c], q)
          BY <3>1, <1>3, <1>6 DEF Reports
        <4>2. ASSUME NEW d \in PrbCalls, Reports(prbCalls'[d], q) PROVE d = c
          <5>1. Handles(prbCalls[d])'
            BY <1>10 DEF Handling
          <5>2. Works(prbCalls'[d]) /\ Works(prbCalls'[c]) /\ prbCalls'[d].on = prbCalls'[c].on /\ prbCalls'[c].on = <<"status", q>>
            BY <5>1, <4>2, <3>1, <1>3, <1>6 DEF Handles, Reports, Works
          <5> QED  BY <5>2, <2>1, <1>12 DEF Alone
        <4> QED  BY <4>1, <4>2, <3>1, <1>3, <1>6, <1>8
      <3>2. CASE q # p
        <4>1. \A d \in PrbCalls : /\ Reports(prbCalls'[d], q) <=> Reports(prbCalls[d], q)
                                  /\ Reports(prbCalls'[d], q) => prbCalls'[d] = prbCalls[d]
          BY <3>2, <1>3, <1>5, <1>6, NoHandlerTyped DEF Reports
        <4> QED  BY <4>1, <3>2, <2>1, <1>4, <1>5, <1>8 DEF StatusTrue
      <3> QED  BY <3>1, <3>2
    <2> QED  BY <2>1, <1>7 DEF StatusTrue
  <1> QED  BY <1>9, <1>10, <1>12, <1>13, <1>14

\* What an update of one list leaves alone.
LEMMA ListSet ==
    ASSUME NEW L, L \in Seq(SegmentLists), NEW M, NEW p \in DOMAIN L, NEW f \in SegmentLists, M = [L EXCEPT ![p] = f]
    PROVE  M \in Seq(SegmentLists) /\ Len(M) = Len(L) /\ M[p] = f /\ \A q \in DOMAIN L \ {p} : M[q] = L[q]
  OBVIOUS

\* A probe answers what it has of its archive.
LEMMA ArchiveStep ==
    ASSUME PrbInv, NEW c \in PrbCalls, NEW p \in Probes, NEW w \in PrbWindows, ArchiveAnswered(c, p, w) PROVE PrbInv'
  <1> USE DEF PrbInv
  <1>1. PICK answer : answer = [s \in w |-> handled + 1]
    OBVIOUS
  <1>2. p \in Nat /\ answer \in SegmentLists
    <2>1. PICK n : n = handled + 1
      OBVIOUS
    <2>2. n \in Nat
      BY <2>1 DEF PrbTyped
    <2>3. w \in SUBSET Nat
      <3>1. w \subseteq PrbSegments /\ PrbSegments \subseteq Nat \ {0}
        BY PrbAssumption
      <3> QED  BY <3>1
    <2>4. answer \in [w -> Nat]
      BY <1>1, <2>1, <2>2
    <2>5. answer \in SegmentLists
      BY <2>3, <2>4, SegmentListMade
    <2> QED  BY <2>5 DEF Probes, PrbTyped
  <1>3. PICK k : k = [NoHandler EXCEPT !.op = "list", !.on = <<"segments", p>>, !.id = p, !.segs = answer]
    OBVIOUS
  <1>4. k \in PrbCallSet /\ k.op = "list" /\ k.id = p /\ k.on = <<"segments", p>> /\ k.segs = answer
    <2>1. <<"segments", p>> \in Subjects
      BY <1>2 DEF Subjects
    <2> QED  BY <1>2, <1>3, <2>1, NoHandlerTyped DEF NoHandler, PrbCallSet, PrbOps
  <1>5. /\ Starts(c, k) /\ reported' = [reported EXCEPT ![p] = Overlay(answer, reported[p])]
        /\ UNCHANGED <<probeRows, cached, conns, latest, given>>
    BY <1>1, <1>3 DEF ArchiveAnswered, managerMemory
  <1>6. /\ prbCalls[c] = NoHandler /\ prbCalls' = [prbCalls EXCEPT ![c] = k]
        /\ raced \subseteq raced' /\ handled' = handled + 1
    BY <1>5 DEF Starts
  <1>7. prbCalls'[c] = k /\ \A d \in PrbCalls \ {c} : prbCalls'[d] = prbCalls[d]
    BY <1>6 DEF PrbTyped
  <1>8. Probes' = Probes /\ p \in DOMAIN reported /\ Probes = DOMAIN reported
    BY <1>5 DEF Probes, PrbTyped
  <1>9. /\ reported' \in Seq(SegmentLists) /\ Len(reported') = Len(reported)
        /\ reported'[p] = Overlay(answer, reported[p]) /\ \A q \in Probes \ {p} : reported'[q] = reported[q]
    <2>1. PICK f : f = Overlay(answer, reported[p])
      OBVIOUS
    <2>2. reported[p] \in SegmentLists /\ reported \in Seq(SegmentLists)
      BY <1>8 DEF PrbTyped
    <2>3. f \in SegmentLists
      BY <1>2, <2>1, <2>2, OverlayIs
    <2>4. reported' = [reported EXCEPT ![p] = f]
      BY <2>1, <1>5
    <2> QED  BY <2>1, <2>2, <2>3, <2>4, <1>8, ListSet
  <1>10. PrbTyped'
    BY <1>4, <1>5, <1>6, <1>8, <1>9 DEF PrbTyped
  <1>11. Handling'
    <2>1. Handles(prbCalls[c])'
      BY <1>4, <1>7, <1>8 DEF Handles
    <2> QED  BY <2>1, <1>5, <1>7, <1>8, HandlingKept
  <1>12. SameFor({"upsert"}) /\ SameFor({"status"})
    BY <1>4, <1>6, <1>7, NoHandlerTyped DEF SameFor
  <1>13. Alone'
    BY <1>4, <1>5, AloneStarts DEF PrbTyped, Works
  <1>14. TokensTrue' /\ MachinesOnce' /\ StatusTrue'
    BY <1>5, <1>6, <1>8, <1>12, PrbTokensKept, MachinesKept, StatusKept
  <1>15. SegmentsTrue'
    <2>1. ASSUME NEW q \in Probes, <<"segments", q>> \notin raced'
          PROVE  /\ (\A d \in PrbCalls : ~Merges(prbCalls'[d], q)) => cached'[q] = reported'[q]
                 /\ \A d \in PrbCalls : Merges(prbCalls'[d], q) =>
                       /\ reported'[q] = Overlay(prbCalls'[d].segs, cached'[q])
                       /\ prbCalls'[d].op = "replace" => prbCalls'[d].old = cached'[q]
      <3>1. CASE q = p
        <4>1. Merges(prbCalls'[c], q) /\ ~Merges(prbCalls[c], q)
          BY <3>1, <1>4, <1>6, <1>7, NoHandlerTyped DEF Merges
        <4>2. ASSUME NEW d \in PrbCalls, Merges(prbCalls'[d], q) PROVE d = c
          <5>1. Handles(prbCalls[d])'
            BY <1>11 DEF Handling
          <5>2. /\ Works(prbCalls'[d]) /\ Works(prbCalls'[c])
                /\ prbCalls'[d].on = prbCalls'[c].on /\ prbCalls'[c].on = <<"segments", q>>
            BY <5>1, <4>2, <3>1, <1>4, <1>7 DEF Handles, Merges, Works
          <5> QED  BY <5>2, <2>1, <1>13 DEF Alone
        <4>3. \A d \in PrbCalls : ~Merges(prbCalls[d], q)
          BY <4>1, <4>2, <1>7
        <4>4. cached[q] = reported[q]
          BY <4>3, <2>1, <1>6 DEF SegmentsTrue
        <4>5. reported'[q] = Overlay(prbCalls'[c].segs, cached'[q])
          BY <4>4, <3>1, <1>4, <1>5, <1>7, <1>9
        <4> QED  BY <4>1, <4>2, <4>5, <1>4, <1>7
      <3>2. CASE q # p
        <4>1. \A d \in PrbCalls : /\ Merges(prbCalls'[d], q) <=> Merges(prbCalls[d], q)
                                  /\ Merges(prbCalls'[d], q) => prbCalls'[d] = prbCalls[d]
          BY <3>2, <1>4, <1>6, <1>7, NoHandlerTyped DEF Merges
        <4> QED  BY <4>1, <3>2, <2>1, <1>5, <1>6, <1>9 DEF SegmentsTrue
      <3> QED  BY <3>1, <3>2
    <2> QED  BY <2>1, <1>8 DEF SegmentsTrue
  <1> QED  BY <1>10, <1>11, <1>13, <1>14, <1>15

\* The list kept so far is read.
LEMMA ListsStep == ASSUME PrbInv, NEW c \in PrbCalls, ListsSegments(c) PROVE PrbInv'
  <1> USE DEF PrbInv
  <1>1. /\ prbCalls[c].op = "list" /\ prbCalls[c] \in PrbCallSet /\ Handles(prbCalls[c])
        /\ UNCHANGED <<probeRows, cached, conns, latest, given, reported, handled, raced>>
    BY DEF ListsSegments, managerMemory, ghosts, PrbTyped, Handling
  <1>2. PICK p : p = prbCalls[c].id
    OBVIOUS
  <1>3. PICK f : f = ListProbeSegments(prbCalls[c].id, 0, 0)
    OBVIOUS
  <1>4. p \in Probes /\ f = cached[p] /\ f \in SegmentLists
    <2>1. p \in Probes
      BY <1>1, <1>2 DEF Handles
    <2>2. f = cached[p]
      BY <2>1, <1>2, <1>3, AllListed
    <2> QED  BY <2>1, <2>2 DEF PrbTyped, Probes
  <1>5. PICK k : k = [prbCalls[c] EXCEPT !.op = "replace", !.old = f]
    OBVIOUS
  <1>6. /\ k \in PrbCallSet /\ k.op = "replace" /\ k.id = p /\ k.on = prbCalls[c].on
        /\ k.segs = prbCalls[c].segs /\ k.old = f
    BY <1>1, <1>2, <1>4, <1>5 DEF PrbCallSet, PrbOps
  <1>7. prbCalls' = [prbCalls EXCEPT ![c] = k]
    BY <1>3, <1>5 DEF ListsSegments, PrbTyped
  <1>8. prbCalls'[c] = k /\ \A d \in PrbCalls \ {c} : prbCalls'[d] = prbCalls[d]
    BY <1>7 DEF PrbTyped
  <1>9. Probes' = Probes
    BY <1>1 DEF Probes
  <1>10. PrbTyped'
    BY <1>1, <1>6, <1>7, <1>9 DEF PrbTyped
  <1>11. Handling'
    <2>1. Handles(prbCalls[c])'
      BY <1>1, <1>2, <1>6, <1>8, <1>9 DEF Handles
    <2> QED  BY <2>1, <1>1, <1>8, <1>9, HandlingKept
  <1>12. SameFor({"upsert"}) /\ SameFor({"status"})
    BY <1>1, <1>6, <1>8 DEF SameFor
  <1>13. Alone'
    <2>1. \A d \in PrbCalls : Works(prbCalls'[d]) => Works(prbCalls[d]) /\ prbCalls'[d].on = prbCalls[d].on
      BY <1>1, <1>6, <1>8 DEF Works
    <2> QED  BY <2>1, <1>1, AloneKept
  <1>14. TokensTrue' /\ MachinesOnce' /\ StatusTrue'
    BY <1>1, <1>9, <1>12, PrbTokensKept, MachinesKept, StatusKept
  <1>15. SegmentsTrue'
    <2>1. ASSUME NEW q \in Probes, <<"segments", q>> \notin raced
          PROVE  /\ (\A d \in PrbCalls : ~Merges(prbCalls'[d], q)) => cached[q] = reported[q]
                 /\ \A d \in PrbCalls : Merges(prbCalls'[d], q) =>
                       /\ reported[q] = Overlay(prbCalls'[d].segs, cached[q])
                       /\ prbCalls'[d].op = "replace" => prbCalls'[d].old = cached[q]
      <3>1. \A d \in PrbCalls : Merges(prbCalls'[d], q) <=> Merges(prbCalls[d], q)
        BY <1>1, <1>2, <1>6, <1>8 DEF Merges
      <3>2. ASSUME NEW d \in PrbCalls, Merges(prbCalls'[d], q)
            PROVE  /\ reported[q] = Overlay(prbCalls'[d].segs, cached[q])
                   /\ prbCalls'[d].op = "replace" => prbCalls'[d].old = cached[q]
        <4>1. CASE d = c
          <5>1. q = p /\ Merges(prbCalls[c], q)
            BY <4>1, <3>1, <3>2, <1>6, <1>8 DEF Merges
          <5> QED  BY <5>1, <4>1, <2>1, <1>4, <1>6, <1>8 DEF SegmentsTrue
        <4>2. CASE d # c
          BY <4>2, <3>1, <3>2, <2>1, <1>8 DEF SegmentsTrue
        <4> QED  BY <4>1, <4>2
      <3> QED  BY <3>1, <3>2, <2>1 DEF SegmentsTrue
    <2> QED  BY <2>1, <1>1, <1>9 DEF SegmentsTrue
  <1> QED  BY <1>10, <1>11, <1>13, <1>14, <1>15

\* The merged list is written back.
LEMMA ReplacesStep == ASSUME PrbInv, NEW c \in PrbCalls, ReplacesSegments(c) PROVE PrbInv'
  <1> USE DEF PrbInv
  <1>1. PICK k : k = prbCalls[c]
    OBVIOUS
  <1>2. /\ k \in PrbCallSet /\ k.op = "replace" /\ Handles(k) /\ k.id \in Probes
        /\ cached' = ReplaceProbeSegments(k.id, MergeSegments(k.old, k.segs))
        /\ prbCalls' = [prbCalls EXCEPT ![c] = NoHandler]
        /\ UNCHANGED <<probeRows, conns, latest, given, reported, handled, raced>>
    <2>1. k \in PrbCallSet /\ k.op = "replace" /\ Handles(k)
      BY <1>1 DEF ReplacesSegments, PrbTyped, Handling
    <2> QED  BY <2>1, <1>1 DEF ReplacesSegments, HandlerReturns, managerMemory, ghosts, Handles
  <1>3. /\ prbCalls'[c] = NoHandler /\ \A d \in PrbCalls \ {c} : prbCalls'[d] = prbCalls[d]
        /\ NoHandler \in PrbCallSet /\ NoHandler.op = "idle"
    BY <1>2, NoHandlerTyped DEF PrbTyped
  <1>4. PICK p : p = k.id
    OBVIOUS
  <1>5. PICK f : f = Overlay(k.segs, k.old)
    OBVIOUS
  <1>6. Probes' = Probes /\ p \in Probes /\ Probes = DOMAIN cached
    BY <1>2, <1>4 DEF Probes, PrbTyped
  <1>7. /\ cached' \in Seq(SegmentLists) /\ Len(cached') = Len(cached)
        /\ cached'[p] = f /\ \A q \in Probes \ {p} : cached'[q] = cached[q]
    <2>1. k.segs \in SegmentLists /\ k.old \in SegmentLists
      BY <1>2 DEF PrbCallSet
    <2>2. f \in SegmentLists
      BY <2>1, <1>5, OverlayIs
    <2>3. cached' = [cached EXCEPT ![p] = f]
      BY <1>2, <1>4, <1>5 DEF ReplaceProbeSegments, MergeSegments
    <2>4. cached \in Seq(SegmentLists)
      BY DEF PrbTyped
    <2> QED  BY <2>2, <2>3, <2>4, <1>6, ListSet
  <1>8. PrbTyped'
    BY <1>2, <1>3, <1>6, <1>7 DEF PrbTyped
  <1>9. Handling'
    <2>1. Handles(prbCalls[c])'
      BY <1>3 DEF Handles
    <2> QED  BY <2>1, <1>2, <1>3, <1>6, HandlingKept
  <1>10. SameFor({"upsert"}) /\ SameFor({"status"})
    BY <1>1, <1>2, <1>3 DEF SameFor
  <1>11. Alone'
    <2>1. \A d \in PrbCalls : Works(prbCalls'[d]) => Works(prbCalls[d]) /\ prbCalls'[d].on = prbCalls[d].on
      BY <1>3 DEF Works
    <2> QED  BY <2>1, <1>2, AloneKept
  <1>12. TokensTrue' /\ MachinesOnce' /\ StatusTrue'
    BY <1>2, <1>6, <1>10, PrbTokensKept, MachinesKept, StatusKept
  <1>13. SegmentsTrue'
    <2>1. ASSUME NEW q \in Probes, <<"segments", q>> \notin raced
          PROVE  /\ (\A d \in PrbCalls : ~Merges(prbCalls'[d], q)) => cached'[q] = reported[q]
                 /\ \A d \in PrbCalls : Merges(prbCalls'[d], q) =>
                       /\ reported[q] = Overlay(prbCalls'[d].segs, cached'[q])
                       /\ prbCalls'[d].op = "replace" => prbCalls'[d].old = cached'[q]
      <3>1. CASE q = p
        <4>1. Merges(prbCalls[c], q)
          BY <3>1, <1>1, <1>2, <1>4 DEF Merges
        <4>2. reported[q] = Overlay(k.segs, cached[q]) /\ k.old = cached[q]
          BY <4>1, <2>1, <1>1, <1>2 DEF SegmentsTrue
        <4>3. cached'[q] = reported[q]
          BY <4>2, <3>1, <1>5, <1>7
        <4>4. ASSUME NEW d \in PrbCalls, Merges(prbCalls'[d], q) PROVE FALSE
          <5>1. d # c /\ prbCalls'[d] = prbCalls[d]
            BY <4>4, <1>3 DEF Merges
          <5>2. Handles(prbCalls[d]) /\ Handles(prbCalls[c])
            BY DEF Handling
          <5>3. /\ Works(prbCalls[d]) /\ Works(prbCalls[c])
                /\ prbCalls[d].on = prbCalls[c].on /\ prbCalls[c].on = <<"segments", q>>
            BY <5>1, <5>2, <4>1, <4>4 DEF Handles, Merges, Works
          <5> QED  BY <5>1, <5>3, <2>1 DEF Alone
        <4> QED  BY <4>3, <4>4
      <3>2. CASE q # p
        <4>1. \A d \in PrbCalls : /\ Merges(prbCalls'[d], q) <=> Merges(prbCalls[d], q)
                                  /\ Merges(prbCalls'[d], q) => prbCalls'[d] = prbCalls[d]
          BY <3>2, <1>1, <1>3, <1>4 DEF Merges
        <4>2. cached'[q] = cached[q]
          BY <3>2, <1>7
        <4> QED  BY <4>1, <4>2, <2>1 DEF SegmentsTrue
      <3> QED  BY <3>1, <3>2
    <2> QED  BY <2>1, <1>2, <1>6 DEF SegmentsTrue
  <1> QED  BY <1>8, <1>9, <1>11, <1>12, <1>13

\* The server goes away with everything it was doing, and comes back with the rows.
LEMMA PrbRestartStep == ASSUME PrbInv, PrbRestart PROVE PrbInv'
  <1> USE DEF PrbInv
  <1>1. /\ conns' = {} /\ latest' = <<>> /\ prbCalls' = [d \in PrbCalls |-> NoHandler]
        /\ UNCHANGED <<probeRows, cached, given, reported, handled>> /\ raced \subseteq raced'
        /\ \A d \in PrbCalls : prbCalls[d].op \in {"status", "list", "replace"} => prbCalls[d].on \in raced'
    BY DEF PrbRestart, ghosts
  <1>2. \A d \in PrbCalls : prbCalls'[d] = NoHandler
    BY <1>1
  <1>3. Probes' = Probes
    BY <1>1 DEF Probes
  <1>4. PrbTyped'
    BY <1>1, <1>3, NoHandlerTyped, NoSegments DEF PrbTyped
  <1>5. Handling' /\ Alone'
    BY <1>2, NoHandlerTyped DEF Handling, Handles, Alone, Works
  <1>6. TokensTrue'
    BY <1>1, <1>3, PrbTokensKept
  <1>7. MachinesOnce'
    <2>1. \A v \in PrbUsers, g \in Hostnames : SameMachine(v, g)' = SameMachine(v, g)
      BY <1>1 DEF SameMachine, Probes
    <2>2. \A v \in PrbUsers, g \in Hostnames, d \in PrbCalls : ~Upserts(prbCalls'[d], v, g)
      BY <1>2, NoHandlerTyped DEF Upserts
    <2> QED  BY <2>1, <2>2, <1>1 DEF MachinesOnce
  <1>8. SegmentsTrue'
    <2>1. ASSUME NEW q \in Probes, <<"segments", q>> \notin raced'
          PROVE  cached[q] = reported[q] /\ \A d \in PrbCalls : ~Merges(prbCalls'[d], q)
      <3>1. ASSUME NEW d \in PrbCalls, Merges(prbCalls[d], q) PROVE FALSE
        <4>1. Handles(prbCalls[d])
          BY DEF Handling
        <4> QED  BY <4>1, <3>1, <2>1, <1>1 DEF Handles, Merges
      <3> QED  BY <3>1, <2>1, <1>1, <1>2, NoHandlerTyped DEF SegmentsTrue, Merges
    <2> QED  BY <2>1, <1>1, <1>3 DEF SegmentsTrue
  <1>9. StatusTrue'
    <2>1. DOMAIN latest' = {}
      BY <1>1, NoSegments
    <2>2. \A q \in Probes, d \in PrbCalls : ~Reports(prbCalls'[d], q)
      BY <1>2, NoHandlerTyped DEF Reports
    <2> QED  BY <2>1, <2>2, <1>3 DEF StatusTrue
  <1> QED  BY <1>4, <1>5, <1>6, <1>7, <1>8, <1>9

\* At first there is nothing.
LEMMA PrbStarts == PrbInit => PrbInv
  <1> SUFFICES ASSUME PrbInit PROVE PrbInv
    OBVIOUS
  <1> USE DEF PrbInit
  <1>1. Probes = {} /\ \A d \in PrbCalls : prbCalls[d] = NoHandler
    BY DEF Probes
  <1>2. PrbTyped
    BY <1>1, NoHandlerTyped, NoSegments DEF PrbTyped
  <1>3. Handling /\ Alone
    BY <1>1, NoHandlerTyped DEF Handling, Handles, Alone, Works
  <1>4. TokensTrue /\ SegmentsTrue /\ StatusTrue
    BY <1>1 DEF TokensTrue, SegmentsTrue, StatusTrue
  <1>5. MachinesOnce
    BY <1>1, NoHandlerTyped DEF MachinesOnce, SameMachine, Upserts
  <1> QED  BY <1>2, <1>3, <1>4, <1>5 DEF PrbInv

\* Every statement of every handler keeps it.
LEMMA PrbStep == PrbInv /\ [PrbNext]_prbVars => PrbInv'
  <1> SUFFICES ASSUME PrbInv, [PrbNext]_prbVars PROVE PrbInv'
    OBVIOUS
  <1>1. CASE UNCHANGED prbVars
    <2>1. conns' \subseteq Probes
      BY <1>1 DEF prbVars, PrbInv, PrbTyped
    <2> QED  BY <2>1, <1>1, StreamsStep DEF prbVars
  <1>2. ASSUME NEW c \in PrbCalls, NEW u \in PrbUsers, NEW h \in Hostnames, NEW prev \in 0 .. MaxRows, Register(c, u, h, prev)
        PROVE  PrbInv'
    BY <1>2, RegisterStep
  <1>3. ASSUME NEW c \in PrbCalls, LooksUp(c) \/ WritesRow(c) \/ Writes(c) PROVE PrbInv'
    BY <1>3, LooksUpStep, WritesRowStep, WritesStep
  <1>4. ASSUME NEW c \in PrbCalls, ListsSegments(c) \/ ReplacesSegments(c) PROVE PrbInv'
    BY <1>4, ListsStep, ReplacesStep
  <1>5. ASSUME NEW c \in PrbCalls, NEW p \in Probes, Revoke(c, p) \/ Heartbeat(c, p) PROVE PrbInv'
    BY <1>5, RevokeStep, HeartbeatStep
  <1>6. ASSUME NEW c \in PrbCalls, NEW p \in Probes, NEW w \in PrbWindows, ArchiveAnswered(c, p, w) PROVE PrbInv'
    BY <1>6, ArchiveStep
  <1>7. ASSUME NEW t \in DOMAIN given, Connect(t) PROVE PrbInv'
    BY <1>7, ConnectStep
  <1>8. ASSUME NEW p \in Probes, Disconnect(p) \/ \E n \in PrbNames : Rename(p, n) PROVE PrbInv'
    BY <1>8, DisconnectStep, RenameStep
  <1>9. CASE PrbRestart
    BY <1>9, PrbRestartStep
  <1> QED  BY <1>1, <1>2, <1>3, <1>4, <1>5, <1>6, <1>7, <1>8, <1>9 DEF PrbNext

\* A set without two different elements has at most one.
LEMMA NotTwo == ASSUME NEW S, \A a, b \in S : a = b PROVE Cardinality(S) <= 1
  <1>1. CASE S = {}
    BY <1>1, FS_EmptySet
  <1>2. CASE S # {}
    <2>1. PICK a : S = {a}
      BY <1>2
    <2> QED  BY <2>1, FS_Singleton
  <1> QED  BY <1>1, <1>2

\* What the handlers establish step by step is what the rows promise.
LEMMA RowsPromise == PrbInv => ProbesKept
  <1> SUFFICES ASSUME PrbInv PROVE ProbesKept
    OBVIOUS
  <1> USE DEF PrbInv
  <1>1. TokenIsTheirs
    <2>1. ASSUME NEW t \in DOMAIN given
          PROVE  /\ Cardinality(GetProbeByTokenHash(t)) <= 1
                 /\ \A p \in GetProbeByTokenHash(t) : probeRows[p].owner = given[t]
      <3>1. \A a, b \in GetProbeByTokenHash(t) : a = b
        BY DEF GetProbeByTokenHash, TokensTrue
      <3>2. \A p \in GetProbeByTokenHash(t) : probeRows[p].owner = given[t]
        BY DEF GetProbeByTokenHash, TokensTrue
      <3> QED  BY <3>1, <3>2, NotTwo
    <2> QED  BY <2>1 DEF TokenIsTheirs
  <1>2. OneRowPerMachine
    <2>1. ASSUME NEW u \in PrbUsers, NEW h \in Hostnames, <<"machine", u, h>> \notin raced
          PROVE  ~(Cardinality(SameMachine(u, h)) > 1)
      <3>1. \A p, q \in SameMachine(u, h) : p = q
        BY <2>1 DEF MachinesOnce
      <3>2. SameMachine(u, h) = {} \/ \E p : SameMachine(u, h) = {p}
        BY <3>1
      <3>3. Cardinality(SameMachine(u, h)) \in {0, 1}
        BY <3>2, FS_EmptySet, FS_Singleton
      <3> QED  BY <3>3
    <2> QED  BY <2>1 DEF OneRowPerMachine
  <1>3. SegmentsListed
    <2>1. ASSUME NEW p \in Probes, <<"segments", p>> \notin raced, ~InHand(<<"segments", p>>)
          PROVE  /\ cached[p] = reported[p]
                 /\ \A s \in PrbSegments : DOMAIN ListProbeSegments(p, s, s) = {s} \cap DOMAIN reported[p]
      <3>1. ASSUME NEW d \in PrbCalls, Merges(prbCalls[d], p) PROVE FALSE
        <4>1. Handles(prbCalls[d])
          BY DEF Handling
        <4> QED  BY <4>1, <3>1, <2>1 DEF Handles, Merges, InHand
      <3>2. cached[p] = reported[p]
        BY <3>1, <2>1 DEF SegmentsTrue
      <3>3. cached[p] \in SegmentLists
        BY DEF PrbTyped, Probes
      <3>4. DOMAIN cached[p] \subseteq Nat
        BY <3>3, SegmentListIs
      <3>5. ASSUME NEW s \in PrbSegments PROVE DOMAIN ListProbeSegments(p, s, s) = {s} \cap DOMAIN reported[p]
        <4>1. s \in Nat \ {0}
          BY PrbAssumption
        <4>2. {x \in DOMAIN cached[p] : (s > 0 => x >= s) /\ (s > 0 => x <= s)} = {s} \cap DOMAIN cached[p]
          BY <4>1, <3>4
        <4> QED  BY <4>2, <3>2 DEF ListProbeSegments, Restrict
      <3> QED  BY <3>2, <3>5
    <2> QED  BY <2>1 DEF SegmentsListed
  <1>4. SnapshotStored
    <2>1. ASSUME NEW p \in Probes, <<"status", p>> \notin raced, ~InHand(<<"status", p>>)
          PROVE  ListShows(p).status = probeRows[p].status
      <3>1. ASSUME NEW d \in PrbCalls, Reports(prbCalls[d], p) PROVE FALSE
        <4>1. Handles(prbCalls[d])
          BY DEF Handling
        <4> QED  BY <4>1, <3>1, <2>1 DEF Handles, Reports, InHand
      <3> QED  BY <3>1, <2>1 DEF StatusTrue, ListShows
    <2> QED  BY <2>1 DEF SnapshotStored
  <1> QED  BY <1>1, <1>2, <1>3, <1>4 DEF ProbesKept

\* A token opens the row of the user it was given to and no other; a machine registered
\* again and again has one row; the archive list and the stored status are what the
\* probe said last.  For any number of handlers at once, wherever the server is stopped.
THEOREM ProbesKeptSafe == PrbSpec => []ProbesKept
  <1> QED  BY PrbStarts, PrbStep, RowsPromise, PTL DEF PrbSpec

(***************************************************************************)
(* The development of a plugin.                                            *)
(***************************************************************************)
DevAt == {"idle", "begin", "explain", "wires", "clears", "starts", "gate", "integrates", "kills", "drops", "deregisters"}
DevMessages == {"", "no-binary", "exited", "already-active", "start-failed", "diagnostics", "no-diagnostics", "no-process", "kill-failed"}
TryRecords == [action : {"build", "activate", "deactivate"}, ok : BOOLEAN, msg : DevMessages, ref : Nat]
Processes == [killed : BOOLEAN, exited : BOOLEAN, waiting : BOOLEAN]
DevCalls == [op : {"none", "build", "activate", "deactivate", "explain"}, at : DevAt, pid : Nat, from : Nat, about : Nat]

DevTyped ==
    /\ source \in Nat
    /\ binary \in [from : Nat, stale : BOOLEAN]
    /\ launched \in Seq(Processes)
    /\ tracked \in 0..Len(launched)
    /\ instance \in 0..Len(launched)
    /\ attempts \in Seq(TryRecords)
    /\ dev \in [DevCallers -> DevCalls]
    /\ sequential \in BOOLEAN

\* What a call holds: the attempt it explains, the process it started or kills.
DevHolds ==
    \A c \in DevCallers :
        /\ dev[c].at = "wires" => dev[c].about \in DOMAIN attempts
        /\ dev[c].at \in {"gate", "kills"} => dev[c].pid \in DOMAIN launched

\* No process runs that has not been killed.
AllDown == \A p \in DOMAIN launched : launched[p].exited \/ launched[p].killed

OneToggle == \A c, d \in DevCallers : Toggles(dev[c].op) /\ Toggles(dev[d].op) => c = d

\* What a call that starts or stops a process has seen and is still so.
TogglesSee ==
    \A c \in DevCallers :
        /\ dev[c].op = "activate" /\ dev[c].at = "starts" => AllDown
        /\ dev[c].op = "deactivate" /\ dev[c].at = "kills" => tracked \in {0, dev[c].pid}
        /\ dev[c].op = "deactivate" /\ dev[c].at = "drops" => AllDown

Tracked == \A p \in DOMAIN launched : ~launched[p].exited /\ ~launched[p].killed => tracked = p

DevOrderly == sequential => OneToggle /\ TogglesSee /\ Tracked

Explains(c) == dev[c].at = "explain" \/ (dev[c].at = "wires" /\ dev[c].about = LastAttempt)

RefsOwn == \A i \in DOMAIN attempts : attempts[i].ref \in {0, i} /\ (attempts[i].ok => attempts[i].ref = 0)
LastExplained ==
    LastAttempt # 0 /\ ~attempts[LastAttempt].ok /\ attempts[LastAttempt].action # "deactivate"
        => attempts[LastAttempt].ref = LastAttempt \/ \E c \in DevCallers : Explains(c)

Messages ==
    \A i \in DOMAIN attempts : attempts[i].action = "activate" /\ ~attempts[i].ok =>
        attempts[i].msg \in {"no-binary", "exited", "already-active", "start-failed"}

DevInv == DevTyped /\ DevHolds /\ DevOrderly /\ RefsOwn /\ LastExplained /\ Messages

----------------------------------------------------------------------------
\* The invariant holds of a plugin nobody has worked on.
LEMMA DevInitInv == DevInit => DevInv
  BY DEF DevInit, DevInv, DevTyped, DevHolds, DevOrderly, RefsOwn, LastExplained, Messages, OneToggle, TogglesSee,
     Tracked, Toggles, NoDev, DevCalls, DevAt, LastAttempt, Processes, TryRecords

\* One call moves, the others stay.
LEMMA CallTyped ==
    ASSUME dev \in [DevCallers -> DevCalls], NEW c \in DevCallers, NEW r \in DevCalls, dev' = [dev EXCEPT ![c] = r]
    PROVE  /\ dev' \in [DevCallers -> DevCalls]
           /\ dev'[c] = r
           /\ \A d \in DevCallers : d # c => dev'[d] = dev[d]
  OBVIOUS

\* What a sequence holds with one element more.
LEMMA Appended ==
    ASSUME NEW S, NEW q \in Seq(S), NEW x \in S, NEW p, p = Append(q, x)
    PROVE  /\ p \in Seq(S) /\ Len(p) = Len(q) + 1
           /\ p[Len(q) + 1] = x
           /\ \A i \in DOMAIN q : i \in DOMAIN p /\ p[i] = q[i]
           /\ \A i \in DOMAIN p : i \in DOMAIN q \/ i = Len(q) + 1
  OBVIOUS

\* The calls change in one place; what explains goes on.
NewTry(a, r) ==
    /\ a.ref = 0
    /\ a.action = "activate" /\ ~a.ok => a.msg \in {"no-binary", "exited", "already-active", "start-failed"}
    /\ r.at # "wires"
    /\ ~a.ok /\ a.action # "deactivate" => r.at = "explain"

\* An attempt that is recorded is explained by itself or by nobody yet.
LEMMA Tries ==
    ASSUME DevInv, NEW c \in DevCallers, NEW a \in TryRecords, attempts' = Append(attempts, a),
           NEW r \in DevCalls, dev' = [dev EXCEPT ![c] = r], NewTry(a, r)
    PROVE  /\ attempts' \in Seq(TryRecords) /\ dev' \in [DevCallers -> DevCalls]
           /\ RefsOwn' /\ LastExplained' /\ Messages'
           /\ \A d \in DevCallers : dev'[d].at = "wires" => dev'[d].about \in DOMAIN attempts'
<1>0. attempts \in Seq(TryRecords) /\ dev \in [DevCallers -> DevCalls]
  BY DEF DevInv, DevTyped
<1>1. RefsOwn /\ Messages /\ DevHolds
  BY DEF DevInv
<1>4. /\ attempts' \in Seq(TryRecords) /\ Len(attempts') = Len(attempts) + 1
      /\ attempts'[Len(attempts) + 1] = a
      /\ \A i \in DOMAIN attempts : i \in DOMAIN attempts' /\ attempts'[i] = attempts[i]
      /\ \A i \in DOMAIN attempts' : i \in DOMAIN attempts \/ i = Len(attempts) + 1
  BY <1>0, Appended
<1>5. RefsOwn'
  BY <1>0, <1>1, <1>4 DEF RefsOwn, NewTry
<1>6. Messages'
  BY <1>0, <1>1, <1>4 DEF Messages, NewTry
<1>7. dev' \in [DevCallers -> DevCalls] /\ dev'[c] = r /\ \A d \in DevCallers : d # c => dev'[d] = dev[d]
  BY <1>0, CallTyped
<1>8. LastExplained'
  BY <1>4, <1>7 DEF NewTry, LastExplained, LastAttempt, Explains
<1>9. \A d \in DevCallers : dev'[d].at = "wires" => dev'[d].about \in DOMAIN attempts'
  BY <1>0, <1>1, <1>4, <1>7 DEF DevHolds, NewTry
<1> QED BY <1>4, <1>5, <1>6, <1>7, <1>8, <1>9

\* What a call becomes that records nothing.
Onward(c, r) ==
    /\ r.at = "wires" => r.about \in DOMAIN attempts
    /\ LastAttempt # 0 /\ Explains(c) => r.at = "explain" \/ (r.at = "wires" /\ r.about = LastAttempt)

\* A step that records no attempt, in which no call but c moves.
LEMMA NoTry ==
    ASSUME DevInv, NEW c \in DevCallers, NEW r \in DevCalls, dev' = [dev EXCEPT ![c] = r], UNCHANGED attempts, Onward(c, r)
    PROVE  /\ attempts' \in Seq(TryRecords) /\ dev' \in [DevCallers -> DevCalls]
           /\ RefsOwn' /\ LastExplained' /\ Messages'
           /\ \A d \in DevCallers : dev'[d].at = "wires" => dev'[d].about \in DOMAIN attempts'
<1>1. /\ attempts \in Seq(TryRecords) /\ dev \in [DevCallers -> DevCalls]
      /\ RefsOwn /\ Messages /\ DevHolds /\ LastExplained
  BY DEF DevInv, DevTyped
<1>2. dev'[c] = r /\ \A d \in DevCallers : d # c => dev'[d] = dev[d]
  BY <1>1, CallTyped
<1>3. LastExplained'
  BY <1>1, <1>2 DEF LastExplained, LastAttempt, Explains, Onward
<1> QED BY <1>1, <1>2, <1>3, CallTyped DEF RefsOwn, Messages, DevHolds, Onward

\* A step that moves no call and records no attempt.
LEMMA NoCall ==
    ASSUME DevInv, UNCHANGED <<dev, attempts>>
    PROVE  /\ attempts' \in Seq(TryRecords) /\ dev' \in [DevCallers -> DevCalls]
           /\ RefsOwn' /\ LastExplained' /\ Messages'
           /\ \A d \in DevCallers : dev'[d].at = "wires" => dev'[d].about \in DOMAIN attempts'
  BY DEF DevInv, DevTyped, DevHolds, RefsOwn, LastExplained, Messages, LastAttempt, Explains

----------------------------------------------------------------------------
PidHeld == \A c \in DevCallers : dev[c].at \in {"gate", "kills"} => dev[c].pid \in DOMAIN launched

\* The call that c becomes neither begins nor is about to touch a process.
Aside(o, r) ==
    /\ Toggles(r.op) => r.op = o.op
    /\ r.at \notin {"starts", "gate", "kills", "drops"}

\* A step of c that leaves the processes alone.
LEMMA Asides ==
    ASSUME DevInv, UNCHANGED <<launched, tracked, sequential>>,
           NEW c \in DevCallers, NEW r \in DevCalls, dev' = [dev EXCEPT ![c] = r], Aside(dev[c], r)
    PROVE  DevOrderly' /\ PidHeld'
<1>0. dev \in [DevCallers -> DevCalls]
  BY DEF DevInv, DevTyped
<1>1. dev'[c] = r /\ \A d \in DevCallers : d # c => dev'[d] = dev[d]
  BY <1>0, CallTyped
<1>2. DevOrderly /\ DevHolds
  BY DEF DevInv
<1>3. PidHeld'
  BY <1>1, <1>2 DEF PidHeld, DevHolds, Aside
<1>4. sequential => OneToggle'
  BY <1>1, <1>2 DEF DevOrderly, OneToggle, Aside
<1>5. sequential => TogglesSee'
  BY <1>1, <1>2 DEF DevOrderly, TogglesSee, AllDown, Aside
<1> QED BY <1>2, <1>3, <1>4, <1>5 DEF DevOrderly, Tracked

\* The parts that make up the next state's invariant.
LEMMA DevParts ==
    ASSUME DevTyped', PidHeld', DevOrderly', RefsOwn', LastExplained', Messages',
           \A d \in DevCallers : dev'[d].at = "wires" => dev'[d].about \in DOMAIN attempts'
    PROVE  DevInv'
  BY DEF DevInv, DevHolds, PidHeld

\* What is left of the types when a call moves.
LEMMA StillTyped ==
    ASSUME DevInv, source' \in Nat, binary' \in [from : Nat, stale : BOOLEAN], UNCHANGED <<launched, tracked, instance, sequential>>,
           attempts' \in Seq(TryRecords), dev' \in [DevCallers -> DevCalls]
    PROVE  DevTyped'
  BY DEF DevInv, DevTyped

\* A step of c that records an attempt and leaves the processes alone.
LEMMA TryStep ==
    ASSUME DevInv, UNCHANGED <<source, launched, tracked, instance, sequential>>, binary' \in [from : Nat, stale : BOOLEAN],
           NEW c \in DevCallers, NEW a \in TryRecords, attempts' = Append(attempts, a),
           NEW r \in DevCalls, dev' = [dev EXCEPT ![c] = r], NewTry(a, r), Aside(dev[c], r)
    PROVE  DevInv'
<1>1. source' \in Nat
  BY DEF DevInv, DevTyped
<1> QED BY <1>1, Tries, Asides, DevParts, StillTyped

\* A call moves on and records nothing.
LEMMA QuietStep ==
    ASSUME DevInv, UNCHANGED <<source, binary, launched, tracked, attempts, sequential>>, instance' \in 0..Len(launched),
           NEW c \in DevCallers, NEW r \in DevCalls, dev' = [dev EXCEPT ![c] = r], Onward(c, r), Aside(dev[c], r)
    PROVE  DevInv'
<1>1. /\ attempts' \in Seq(TryRecords) /\ dev' \in [DevCallers -> DevCalls]
      /\ RefsOwn' /\ LastExplained' /\ Messages'
      /\ \A d \in DevCallers : dev'[d].at = "wires" => dev'[d].about \in DOMAIN attempts'
  BY NoTry
<1>2. DevTyped'
  BY <1>1 DEF DevInv, DevTyped
<1> QED BY <1>1, <1>2, Asides, DevParts

----------------------------------------------------------------------------
\* A caller without a call.
LEMMA NoDevTyped == NoDev \in DevCalls /\ NoDev.op = "none" /\ NoDev.at = "idle"
  BY DEF NoDev, DevCalls, DevAt

\* A call in another place is the same call.
LEMMA MovedTyped ==
    ASSUME DevInv, NEW c \in DevCallers, NEW at \in DevAt, NEW r, r = [dev[c] EXCEPT !.at = at]
    PROVE  r \in DevCalls /\ r.at = at /\ r.op = dev[c].op /\ r.pid = dev[c].pid /\ r.about = dev[c].about
  BY DEF DevInv, DevTyped, DevCalls

\* The call ends.
LEMMA FinishStep ==
    ASSUME DevInv, UNCHANGED <<source, binary, launched, tracked, attempts, sequential>>, instance' \in 0..Len(launched),
           NEW c \in DevCallers, Finishes(c), LastAttempt = 0 \/ ~Explains(c)
    PROVE  DevInv'
<1>1. NoDev \in DevCalls /\ dev' = [dev EXCEPT ![c] = NoDev]
  BY NoDevTyped DEF Finishes, SetDev
<1>2. Onward(c, NoDev) /\ Aside(dev[c], NoDev)
  BY NoDevTyped DEF Onward, Aside, Toggles
<1> QED BY <1>1, <1>2, QuietStep

\* What a build reads and writes.
LEMMA BinaryTyped ==
    ASSUME DevInv
    PROVE  /\ binary \in [from : Nat, stale : BOOLEAN] /\ source \in Nat
           /\ \A c \in DevCallers : dev[c] \in DevCalls /\ dev[c].from \in Nat
  BY DEF DevInv, DevTyped, DevCalls

FreshTry(a, at) ==
    /\ a.ref = 0
    /\ a.action = "activate" /\ ~a.ok => a.msg \in {"no-binary", "exited", "already-active", "start-failed"}
    /\ ~a.ok /\ a.action # "deactivate" => at = "explain"

\* The call records what it tried and moves on.
LEMMA RecordStep ==
    ASSUME DevInv, UNCHANGED <<source, launched, tracked, instance, sequential>>, binary' \in [from : Nat, stale : BOOLEAN],
           NEW c \in DevCallers, NEW a \in TryRecords, attempts' = Append(attempts, a),
           NEW at \in {"clears", "explain", "integrates", "deregisters"}, MovesTo(c, at), FreshTry(a, at)
    PROVE  DevInv'
<1> DEFINE r == [dev[c] EXCEPT !.at = at]
<1>2. at \in DevAt
  BY DEF DevAt
<1>3. r \in DevCalls /\ r.at = at /\ r.op = dev[c].op
  BY <1>2, MovedTyped
<1>4. dev' = [dev EXCEPT ![c] = r]
  BY DEF MovesTo, SetDev
<1> HIDE DEF r
<1>5. NewTry(a, r)
  BY <1>3 DEF NewTry, FreshTry
<1>6. Aside(dev[c], r)
  BY <1>3 DEF Aside
<1> QED BY <1>3, <1>4, <1>5, <1>6, TryStep

TryOf(action, ok, msg) == [action |-> action, ok |-> ok, msg |-> msg, ref |-> 0]

\* What is recorded is an attempt as FreshTry says.
LEMMA FailedTries ==
    ASSUME NEW action \in {"build", "activate", "deactivate"}, NEW msg \in DevMessages, NEW at,
           action = "activate" => msg \in {"no-binary", "exited", "already-active", "start-failed"},
           action # "deactivate" => at = "explain"
    PROVE  TryOf(action, FALSE, msg) \in TryRecords /\ FreshTry(TryOf(action, FALSE, msg), at)
  BY DEF TryOf, TryRecords, FreshTry

\* So is an attempt that succeeds.
LEMMA DoneTries ==
    ASSUME NEW action \in {"build", "activate", "deactivate"}, NEW at
    PROVE  TryOf(action, TRUE, "") \in TryRecords /\ FreshTry(TryOf(action, TRUE, ""), at)
  BY DEF TryOf, TryRecords, FreshTry, DevMessages

\* BuildPlugin keeps the invariant: a failed build goes on to its explanation.
LEMMA BuildStep ==
    ASSUME DevInv, NEW c \in DevCallers, BuildSucceeds(c) \/ BuildFails(c)
    PROVE  DevInv'
<1>1. CASE BuildSucceeds(c)
  <2>1. /\ attempts' = Append(attempts, TryOf("build", TRUE, ""))
        /\ MovesTo(c, "clears") /\ UNCHANGED <<source, launched, tracked, instance, sequential>>
        /\ binary' = [from |-> dev[c].from, stale |-> FALSE]
    BY <1>1 DEF BuildSucceeds, recordAttempt, runtime, TryOf
  <2>2. binary' \in [from : Nat, stale : BOOLEAN]
    BY <2>1, BinaryTyped
  <2>3. TryOf("build", TRUE, "") \in TryRecords /\ FreshTry(TryOf("build", TRUE, ""), "clears")
    BY DoneTries
  <2> QED BY <2>1, <2>2, <2>3, RecordStep
<1>2. CASE BuildFails(c)
  <2> DEFINE msg == IF source = 0 THEN "no-diagnostics" ELSE "diagnostics"
  <2>1. /\ attempts' = Append(attempts, TryOf("build", FALSE, msg))
        /\ MovesTo(c, "explain") /\ UNCHANGED <<source, binary, launched, tracked, instance, sequential>>
    BY <1>2 DEF BuildFails, recordAttempt, runtime, onDisk, TryOf
  <2>2. binary' \in [from : Nat, stale : BOOLEAN]
    BY <2>1, BinaryTyped
  <2>3. msg \in DevMessages
    BY DEF DevMessages
  <2> HIDE DEF msg
  <2>4. TryOf("build", FALSE, msg) \in TryRecords /\ FreshTry(TryOf("build", FALSE, msg), "explain")
    BY <2>3, FailedTries
  <2> QED BY <2>1, <2>2, <2>4, RecordStep
<1> QED BY <1>1, <1>2

\* A failed activation.
LEMMA ActivateFails ==
    ASSUME DevInv, NEW c \in DevCallers, NEW msg \in {"no-binary", "exited", "already-active", "start-failed"},
           recordActivateFail(c, msg), UNCHANGED <<source, binary, launched, tracked, instance, sequential>>
    PROVE  DevInv'
<1>1. attempts' = Append(attempts, TryOf("activate", FALSE, msg)) /\ MovesTo(c, "explain")
  BY DEF recordActivateFail, recordAttempt, TryOf
<1>2. binary' \in [from : Nat, stale : BOOLEAN]
  BY BinaryTyped
<1>3. TryOf("activate", FALSE, msg) \in TryRecords /\ FreshTry(TryOf("activate", FALSE, msg), "explain")
  BY FailedTries DEF DevMessages
<1> QED BY <1>1, <1>2, <1>3, RecordStep

\* A deactivation that finds nothing to stop.
LEMMA DeactivateFails ==
    ASSUME DevInv, NEW c \in DevCallers, NEW msg \in DevMessages,
           recordAttempt("deactivate", FALSE, msg), MovesTo(c, "deregisters"),
           UNCHANGED <<source, binary, launched, tracked, instance, sequential>>
    PROVE  DevInv'
<1>1. attempts' = Append(attempts, TryOf("deactivate", FALSE, msg))
  BY DEF recordAttempt, TryOf
<1>2. binary' \in [from : Nat, stale : BOOLEAN]
  BY BinaryTyped
<1>3. TryOf("deactivate", FALSE, msg) \in TryRecords /\ FreshTry(TryOf("deactivate", FALSE, msg), "deregisters")
  BY FailedTries
<1> QED BY <1>1, <1>2, <1>3, RecordStep

----------------------------------------------------------------------------
\* Moves that record nothing and change no process, the step that sees it included.
LEMMA MoveStep ==
    ASSUME DevInv, UNCHANGED <<source, binary, launched, tracked, instance, attempts, sequential>>,
           NEW c \in DevCallers, NEW r \in DevCalls, dev' = [dev EXCEPT ![c] = r], Onward(c, r),
           PidHeld', DevOrderly'
    PROVE  DevInv'
<1>1. /\ attempts' \in Seq(TryRecords) /\ dev' \in [DevCallers -> DevCalls]
      /\ RefsOwn' /\ LastExplained' /\ Messages'
      /\ \A d \in DevCallers : dev'[d].at = "wires" => dev'[d].about \in DOMAIN attempts'
  BY NoTry
<1>2. DevTyped'
  BY <1>1 DEF DevInv, DevTyped
<1> QED BY <1>1, <1>2, DevParts

\* Explain reads the last attempt.
LEMMA ExplainStep ==
    ASSUME DevInv, NEW c \in DevCallers, ExplainReads(c)
    PROVE  DevInv'
<1>0. /\ dev[c].at = "explain"
      /\ UNCHANGED <<source, binary, launched, tracked, instance, attempts, sequential>>
      /\ instance' \in 0..Len(launched)
      /\ dev \in [DevCallers -> DevCalls] /\ attempts \in Seq(TryRecords)
  BY DEF ExplainReads, DevInv, DevTyped, onDisk, tracker, runtime
<1>1. CASE LastAttempt = 0
  <2>1. Finishes(c)
    BY <1>1 DEF ExplainReads
  <2> QED BY <1>0, <1>1, <2>1, FinishStep
<1>2. CASE LastAttempt # 0
  <2> DEFINE r == [dev[c] EXCEPT !.at = "wires", !.about = LastAttempt]
  <2>1. LastAttempt \in Nat /\ LastAttempt \in DOMAIN attempts
    BY <1>0, <1>2 DEF LastAttempt
  <2>2. r \in DevCalls /\ r.at = "wires" /\ r.about = LastAttempt /\ r.op = dev[c].op
    BY <1>0, <2>1 DEF DevCalls, DevAt
  <2>3. dev' = [dev EXCEPT ![c] = r]
    BY <1>2 DEF ExplainReads, SetDev
  <2> HIDE DEF r
  <2>4. Onward(c, r) /\ Aside(dev[c], r)
    BY <2>1, <2>2 DEF Onward, Aside
  <2> QED BY <1>0, <2>2, <2>3, <2>4, QuietStep
<1> QED BY <1>1, <1>2

\* The explanation is wired to the attempt that was read, whatever was recorded since.
LEMMA WiresStep ==
    ASSUME DevInv, NEW c \in DevCallers, ExplainWires(c)
    PROVE  DevInv'
<1> DEFINE a == dev[c].about
<1>0. /\ dev[c].at = "wires" /\ dev' = [dev EXCEPT ![c] = NoDev]
      /\ attempts' = IF Category(attempts[a]) = "nothing" THEN attempts ELSE [attempts EXCEPT ![a].ref = a]
      /\ UNCHANGED <<source, binary, launched, tracked, instance, sequential>>
      /\ dev \in [DevCallers -> DevCalls] /\ attempts \in Seq(TryRecords)
      /\ a \in DOMAIN attempts
  BY DEF ExplainWires, ExplainTarget, Finishes, SetDev, DevInv, DevTyped, DevHolds, onDisk, runtime
<1>1. RefsOwn /\ LastExplained /\ Messages /\ DevHolds
  BY DEF DevInv
<1>2. NoDev \in DevCalls /\ NoDev.at = "idle" /\ NoDev.op = "none"
  BY NoDevTyped
<1>3. /\ dev' \in [DevCallers -> DevCalls] /\ dev'[c] = NoDev
      /\ \A d \in DevCallers : d # c => dev'[d] = dev[d]
  BY <1>0, <1>2, CallTyped
<1> HIDE DEF a
<1>4. a \in Nat /\ attempts[a] \in TryRecords
  BY <1>0
<1>5. Category(attempts[a]) = "nothing" => attempts[a].ok
  BY <1>0, <1>1, <1>4 DEF Category, explainBuild, explainActivate, Messages, TryRecords
<1> DEFINE b == [attempts[a] EXCEPT !.ref = a]
<1>6. /\ b \in TryRecords /\ b.ref = a /\ b.ok = attempts[a].ok /\ b.msg = attempts[a].msg /\ b.action = attempts[a].action
  BY <1>4 DEF TryRecords
<1>7. attempts[a].ok => Category(attempts[a]) = "nothing"
  BY DEF Category
<1>8. attempts' = attempts \/ (~attempts[a].ok /\ attempts' = [attempts EXCEPT ![a] = b])
  BY <1>0, <1>7
<1>9. attempts[a].ok => attempts' = attempts
  BY <1>0, <1>7
<1>10. ~attempts[a].ok => attempts' = [attempts EXCEPT ![a] = b]
  BY <1>0, <1>5
<1> HIDE DEF b
<1>11. /\ attempts' \in Seq(TryRecords) /\ Len(attempts') = Len(attempts) /\ DOMAIN attempts' = DOMAIN attempts
       /\ \A i \in DOMAIN attempts : i # a => attempts'[i] = attempts[i]
       /\ attempts'[a] = IF attempts[a].ok THEN attempts[a] ELSE b
  BY <1>0, <1>6, <1>9, <1>10
<1>12. RefsOwn'
  BY <1>1, <1>4, <1>6, <1>11 DEF RefsOwn
<1>13. Messages'
  BY <1>1, <1>6, <1>11 DEF Messages
<1>14. LastExplained'
  <2>1. ASSUME Len(attempts) # 0, ~attempts'[Len(attempts)].ok, attempts'[Len(attempts)].action # "deactivate"
        PROVE  attempts'[Len(attempts)].ref = Len(attempts) \/ \E d \in DevCallers : Explains(d)'
    <3>1. Len(attempts) \in DOMAIN attempts
      BY <1>0, <2>1
    <3>2. CASE a = Len(attempts)
      BY <1>6, <1>11, <2>1, <3>2
    <3>3. CASE a # Len(attempts)
      <4>1. attempts'[Len(attempts)] = attempts[Len(attempts)]
        BY <1>11, <3>1, <3>3
      <4>2. attempts[Len(attempts)].ref = Len(attempts) \/ \E d \in DevCallers : Explains(d)
        BY <1>1, <2>1, <4>1 DEF LastExplained, LastAttempt
      <4>3. ~Explains(c)
        BY <1>0, <3>3 DEF Explains, LastAttempt, a
      <4>4. \A d \in DevCallers : d # c /\ Explains(d) => Explains(d)'
        BY <1>3, <1>11 DEF Explains, LastAttempt
      <4> QED BY <4>1, <4>2, <4>3, <4>4
    <3> QED BY <3>2, <3>3
  <2> QED BY <1>11, <2>1 DEF LastExplained, LastAttempt
<1>15. \A d \in DevCallers : dev'[d].at = "wires" => dev'[d].about \in DOMAIN attempts'
  BY <1>1, <1>2, <1>3, <1>11 DEF DevHolds
<1>16. Aside(dev[c], NoDev)
  BY <1>2 DEF Aside, Toggles
<1>17. DevOrderly' /\ PidHeld'
  BY <1>0, <1>2, <1>16, Asides
<1>18. DevTyped'
  BY <1>0, <1>3, <1>11 DEF DevInv, DevTyped
<1> QED BY <1>12, <1>13, <1>14, <1>15, <1>17, <1>18, DevParts

\* Activate and deactivate begin; sequential stays true only if they are alone.
LEMMA BeginStep ==
    ASSUME DevInv, NEW c \in DevCallers, NEW op \in {"build", "activate", "deactivate", "explain"}, Begins(c, op)
    PROVE  DevInv'
<1> DEFINE r == [NoDev EXCEPT !.op = op, !.at = IF op = "explain" THEN "explain" ELSE "begin", !.from = IF op = "build" THEN source ELSE 0]
<1>0. /\ dev[c] = NoDev /\ dev' = [dev EXCEPT ![c] = r]
      /\ sequential' = (sequential /\ (Toggles(op) => \A o \in DevCallers : ~Toggles(dev[o].op)))
      /\ UNCHANGED <<source, binary, launched, tracked, instance, attempts>>
      /\ dev \in [DevCallers -> DevCalls]
  BY DEF Begins, SetDev, DevInv, DevTyped, onDisk, tracker, runtime
<1>1. r \in DevCalls /\ r.at \in {"explain", "begin"} /\ r.op = op
  BY BinaryTyped DEF NoDev, DevCalls, DevAt
<1> HIDE DEF r
<1>2. Onward(c, r)
  BY <1>0, <1>1, NoDevTyped DEF Onward, Explains
<1>3. dev' \in [DevCallers -> DevCalls] /\ dev'[c] = r /\ \A d \in DevCallers : d # c => dev'[d] = dev[d]
  BY <1>0, <1>1, CallTyped
<1>4. DevOrderly /\ DevHolds
  BY DEF DevInv
<1>5. PidHeld'
  BY <1>0, <1>1, <1>3, <1>4 DEF PidHeld, DevHolds
<1>6. sequential' => sequential /\ (Toggles(op) => \A o \in DevCallers : ~Toggles(dev[o].op))
  BY <1>0
<1>7. sequential' => OneToggle'
  BY <1>1, <1>3, <1>4, <1>6 DEF OneToggle, DevOrderly
<1>8. sequential' => TogglesSee'
  BY <1>0, <1>1, <1>3, <1>4, <1>6 DEF TogglesSee, AllDown, DevOrderly
<1>9. DevOrderly'
  BY <1>0, <1>4, <1>6, <1>7, <1>8 DEF DevOrderly, Tracked
<1>10. /\ attempts' \in Seq(TryRecords)
       /\ RefsOwn' /\ LastExplained' /\ Messages'
       /\ \A d \in DevCallers : dev'[d].at = "wires" => dev'[d].about \in DOMAIN attempts'
  BY <1>0, <1>1, <1>2, NoTry
<1>11. sequential' \in BOOLEAN
  BY <1>0
<1>12. DevTyped'
  BY <1>0, <1>3, <1>10, <1>11 DEF DevInv, DevTyped
<1> QED BY <1>5, <1>9, <1>10, <1>12, DevParts

\* Activate is refused without a binary or beside a running process.
LEMMA ActivateChecksStep ==
    ASSUME DevInv, NEW c \in DevCallers, ActivateChecks(c)
    PROVE  DevInv'
<1>0. /\ dev[c].op = "activate" /\ dev[c].at = "begin"
      /\ UNCHANGED <<source, binary, launched, tracked, instance, sequential>>
      /\ dev \in [DevCallers -> DevCalls] /\ DevOrderly /\ DevHolds
  BY DEF ActivateChecks, DevInv, DevTyped, onDisk, runtime
<1>1. CASE binary.from = 0
  BY <1>0, <1>1, ActivateFails DEF ActivateChecks
<1>2. CASE binary.from # 0 /\ tracked # 0 /\ ~launched[tracked].exited
  BY <1>0, <1>2, ActivateFails DEF ActivateChecks
<1>3. CASE binary.from # 0 /\ ~(tracked # 0 /\ ~launched[tracked].exited)
  <2> DEFINE r == [dev[c] EXCEPT !.at = "starts"]
  <2>1. r \in DevCalls /\ r.at = "starts" /\ r.op = "activate"
    BY <1>0 DEF DevCalls, DevAt
  <2>2. dev' = [dev EXCEPT ![c] = r] /\ UNCHANGED attempts
    BY <1>3 DEF ActivateChecks, MovesTo, SetDev
  <2> HIDE DEF r
  <2>3. dev'[c] = r /\ \A d \in DevCallers : d # c => dev'[d] = dev[d]
    BY <1>0, <2>1, <2>2, CallTyped
  <2>4. Onward(c, r)
    BY <1>0, <2>1 DEF Onward, Explains
  <2>5. PidHeld'
    BY <1>0, <2>1, <2>3 DEF PidHeld, DevHolds
  <2>6. sequential => AllDown
    BY <1>0, <1>3 DEF DevOrderly, Tracked, AllDown, DevInv, DevTyped
  <2>7. sequential => OneToggle' /\ TogglesSee'
    BY <1>0, <2>1, <2>3, <2>6 DEF DevOrderly, OneToggle, TogglesSee, AllDown
  <2>8. DevOrderly'
    BY <1>0, <2>7 DEF DevOrderly, Tracked
  <2> QED BY <1>0, <2>1, <2>2, <2>4, <2>5, <2>8, MoveStep
<1> QED BY <1>1, <1>2, <1>3

\* A process more.
LEMMA LaunchStep ==
    ASSUME DevInv, NEW c \in DevCallers, dev[c].op = "activate", dev[c].at = "starts",
           NEW p, p = [killed |-> FALSE, exited |-> FALSE, waiting |-> TRUE],
           launched' = Append(launched, p), tracked' = Len(launched) + 1,
           NEW r \in DevCalls, dev' = [dev EXCEPT ![c] = r], r.at = "gate", r.op = dev[c].op, r.pid = Len(launched) + 1,
           UNCHANGED <<source, binary, attempts, instance, sequential>>
    PROVE  DevInv'
<1>0. /\ dev \in [DevCallers -> DevCalls] /\ DevOrderly /\ DevHolds
      /\ launched \in Seq(Processes) /\ tracked \in 0..Len(launched) /\ instance \in 0..Len(launched)
  BY DEF DevInv, DevTyped
<1>1. p \in Processes /\ ~p.exited /\ ~p.killed
  BY DEF Processes
<1>2. /\ launched' \in Seq(Processes) /\ Len(launched') = Len(launched) + 1
      /\ launched'[Len(launched) + 1] = p
      /\ \A i \in DOMAIN launched : i \in DOMAIN launched' /\ launched'[i] = launched[i]
      /\ \A i \in DOMAIN launched' : i \in DOMAIN launched \/ i = Len(launched) + 1
  BY <1>0, <1>1, Appended
<1>3. r \in DevCalls /\ r.at = "gate" /\ r.op = "activate" /\ r.pid = Len(launched) + 1
  OBVIOUS
<1>4. dev' \in [DevCallers -> DevCalls] /\ dev'[c] = r /\ \A d \in DevCallers : d # c => dev'[d] = dev[d]
  BY <1>0, <1>3, CallTyped
<1>5. Onward(c, r)
  BY <1>3 DEF Onward, Explains
<1>6. Len(launched) + 1 \in DOMAIN launched'
  BY <1>0, <1>2
<1>7. PidHeld'
  BY <1>0, <1>2, <1>3, <1>4, <1>6 DEF PidHeld, DevHolds
<1>8. sequential => AllDown /\ OneToggle
  BY <1>0 DEF DevOrderly, TogglesSee
<1>9. sequential => OneToggle'
  BY <1>3, <1>4, <1>8 DEF OneToggle
<1>10. sequential => \A d \in DevCallers : d # c => ~Toggles(dev[d].op)
  BY <1>8 DEF OneToggle, Toggles
<1>11. sequential => TogglesSee'
  BY <1>3, <1>4, <1>10 DEF TogglesSee, Toggles
<1>12. sequential => Tracked'
  BY <1>2, <1>8 DEF Tracked, AllDown
<1>13. DevOrderly'
  BY <1>9, <1>11, <1>12 DEF DevOrderly
<1>14. /\ attempts' \in Seq(TryRecords)
       /\ RefsOwn' /\ LastExplained' /\ Messages'
       /\ \A d \in DevCallers : dev'[d].at = "wires" => dev'[d].about \in DOMAIN attempts'
  BY <1>3, <1>5, NoTry
<1>15. tracked' \in 0..Len(launched') /\ instance' \in 0..Len(launched')
  BY <1>0, <1>2
<1>16. DevTyped'
  BY <1>2, <1>4, <1>14, <1>15 DEF DevInv, DevTyped
<1> QED BY <1>7, <1>13, <1>14, <1>16, DevParts

\* Activate launches a process, or finds it gone at the gate.
LEMMA ActivateStep ==
    ASSUME DevInv, NEW c \in DevCallers, ActivateLaunches(c) \/ ActivateGate(c)
    PROVE  DevInv'
<1>1. CASE ActivateLaunches(c)
  <2>0. /\ dev[c].op = "activate" /\ dev[c].at = "starts"
        /\ UNCHANGED <<source, binary, instance, sequential>>
    BY <1>1 DEF ActivateLaunches, onDisk, runtime
  <2>1. CASE recordActivateFail(c, "start-failed") /\ UNCHANGED <<launched, tracked>>
    BY <2>0, <2>1, ActivateFails
  <2>2. CASE ~(recordActivateFail(c, "start-failed") /\ UNCHANGED <<launched, tracked>>)
    <3> DEFINE r == [dev[c] EXCEPT !.at = "gate", !.pid = Len(launched) + 1]
    <3>1. /\ launched' = Append(launched, [killed |-> FALSE, exited |-> FALSE, waiting |-> TRUE])
          /\ tracked' = Len(launched) + 1
          /\ dev' = [dev EXCEPT ![c] = r]
          /\ UNCHANGED attempts
      BY <1>1, <2>2 DEF ActivateLaunches, SetDev
    <3>2. dev[c] \in DevCalls /\ Len(launched) + 1 \in Nat
      BY DEF DevInv, DevTyped
    <3>3. r \in DevCalls /\ r.at = "gate" /\ r.op = dev[c].op /\ r.pid = Len(launched) + 1
      BY <3>2 DEF DevCalls, DevAt
    <3> HIDE DEF r
    <3> QED BY <2>0, <3>1, <3>3, LaunchStep
  <2> QED BY <2>1, <2>2
<1>2. CASE ActivateGate(c)
  <2>0. UNCHANGED <<source, binary, launched, tracked, instance, sequential>>
    BY <1>2 DEF ActivateGate, onDisk, runtime
  <2>1. CASE launched[dev[c].pid].exited
    BY <1>2, <2>0, <2>1, ActivateFails DEF ActivateGate
  <2>2. CASE ~launched[dev[c].pid].exited
    <3>1. attempts' = Append(attempts, TryOf("activate", TRUE, "")) /\ MovesTo(c, "integrates")
      BY <1>2, <2>2 DEF ActivateGate, recordAttempt, TryOf
    <3>2. TryOf("activate", TRUE, "") \in TryRecords /\ FreshTry(TryOf("activate", TRUE, ""), "integrates")
      BY DoneTries
    <3>3. binary' \in [from : Nat, stale : BOOLEAN]
      BY <2>0, BinaryTyped
    <3> QED BY <2>0, <3>1, <3>2, <3>3, RecordStep
  <2> QED BY <2>1, <2>2
<1> QED BY <1>1, <1>2

\* Deactivate reads the process that the tracker names.
LEMMA DeactivateReadsStep ==
    ASSUME DevInv, NEW c \in DevCallers, DeactivateReads(c)
    PROVE  DevInv'
<1>0. /\ dev[c].op = "deactivate" /\ dev[c].at = "begin"
      /\ UNCHANGED <<source, binary, launched, tracked, instance, sequential>>
      /\ dev \in [DevCallers -> DevCalls] /\ DevOrderly /\ DevHolds
      /\ launched \in Seq(Processes) /\ tracked \in 0..Len(launched)
  BY DEF DeactivateReads, DevInv, DevTyped, onDisk, runtime
<1>1. CASE tracked = 0
  <2>1. "no-process" \in DevMessages
    BY DEF DevMessages
  <2> QED BY <1>0, <1>1, <2>1, DeactivateFails DEF DeactivateReads
<1>2. CASE tracked # 0
  <2> DEFINE r == [dev[c] EXCEPT !.at = "kills", !.pid = tracked]
  <2>1. tracked \in Nat /\ tracked \in DOMAIN launched
    BY <1>0, <1>2
  <2>2. r \in DevCalls /\ r.at = "kills" /\ r.op = "deactivate" /\ r.pid = tracked
    BY <1>0, <2>1 DEF DevCalls, DevAt
  <2>3. dev' = [dev EXCEPT ![c] = r] /\ UNCHANGED attempts
    BY <1>2 DEF DeactivateReads, SetDev
  <2> HIDE DEF r
  <2>4. dev'[c] = r /\ \A d \in DevCallers : d # c => dev'[d] = dev[d]
    BY <1>0, <2>2, <2>3, CallTyped
  <2>5. Onward(c, r)
    BY <1>0, <2>2 DEF Onward, Explains
  <2>6. PidHeld'
    BY <1>0, <2>1, <2>2, <2>4 DEF PidHeld, DevHolds
  <2>7. sequential => OneToggle' /\ TogglesSee'
    BY <1>0, <2>2, <2>4 DEF DevOrderly, OneToggle, TogglesSee, AllDown
  <2>8. DevOrderly'
    BY <1>0, <2>7 DEF DevOrderly, Tracked
  <2> QED BY <1>0, <2>2, <2>3, <2>5, <2>6, <2>8, MoveStep
<1> QED BY <1>1, <1>2

\* What happens to one process: it ends, is killed, or is not waited for any more.
LEMMA ProcessTyped ==
    ASSUME DevInv, NEW p \in DOMAIN launched, NEW q \in Processes, launched' = [launched EXCEPT ![p] = q]
    PROVE  /\ launched' \in Seq(Processes) /\ Len(launched') = Len(launched) /\ DOMAIN launched' = DOMAIN launched
           /\ launched'[p] = q /\ \A o \in DOMAIN launched : o # p => launched'[o] = launched[o]
<1>1. launched \in Seq(Processes)
  BY DEF DevInv, DevTyped
<1> QED BY <1>1

\* Deactivate kills the process it read.
LEMMA DeactivateKillsStep ==
    ASSUME DevInv, NEW c \in DevCallers, DeactivateKills(c)
    PROVE  DevInv'
<1> DEFINE p == dev[c].pid
<1>0. /\ dev[c].op = "deactivate" /\ dev[c].at = "kills"
      /\ UNCHANGED <<source, binary, tracked, instance, sequential>>
      /\ dev \in [DevCallers -> DevCalls] /\ DevOrderly /\ DevHolds
      /\ launched \in Seq(Processes) /\ tracked \in 0..Len(launched) /\ instance \in 0..Len(launched)
      /\ p \in DOMAIN launched
  BY DEF DeactivateKills, DevInv, DevTyped, DevHolds, onDisk, runtime
<1>1. CASE launched[p].exited
  <2>1. "kill-failed" \in DevMessages
    BY DEF DevMessages
  <2> QED BY <1>0, <1>1, <2>1, DeactivateFails DEF DeactivateKills
<1>2. CASE ~launched[p].exited
  <2> DEFINE q == [launched[p] EXCEPT !.killed = TRUE]
  <2> DEFINE r == [dev[c] EXCEPT !.at = "drops"]
  <2>1. /\ launched' = [launched EXCEPT ![p] = q] /\ dev' = [dev EXCEPT ![c] = r] /\ UNCHANGED attempts
    BY <1>2 DEF DeactivateKills, MovesTo, SetDev
  <2>2. r \in DevCalls /\ r.at = "drops" /\ r.op = "deactivate"
    BY <1>0 DEF DevCalls, DevAt
  <2> HIDE DEF p
  <2>15. launched[p] \in Processes
    BY <1>0
  <2>3. q \in Processes /\ q.killed
    BY <2>15 DEF Processes
  <2> HIDE DEF q, r
  <2> USE DEF p
  <2>4. dev'[c] = r /\ \A d \in DevCallers : d # c => dev'[d] = dev[d]
    BY <1>0, <2>1, <2>2, CallTyped
  <2>5. /\ launched' \in Seq(Processes) /\ Len(launched') = Len(launched) /\ DOMAIN launched' = DOMAIN launched
        /\ launched'[p] = q /\ \A o \in DOMAIN launched : o # p => launched'[o] = launched[o]
    BY <1>0, <2>1, <2>3, ProcessTyped
  <2>6. Onward(c, r)
    BY <1>0, <2>2 DEF Onward, Explains
  <2>7. PidHeld'
    BY <1>0, <2>2, <2>4, <2>5 DEF PidHeld, DevHolds
  <2>8. sequential => tracked \in {0, p} /\ OneToggle /\ Tracked
    BY <1>0 DEF DevOrderly, TogglesSee
  <2>9. sequential => AllDown'
    BY <1>0, <2>3, <2>5, <2>8 DEF AllDown, Tracked
  <2>10. sequential => OneToggle' /\ \A d \in DevCallers : d # c => ~Toggles(dev[d].op)
    BY <1>0, <2>2, <2>4, <2>8 DEF OneToggle, Toggles
  <2>11. sequential => TogglesSee'
    BY <2>2, <2>4, <2>9, <2>10 DEF TogglesSee, Toggles
  <2>12. DevOrderly'
    BY <1>0, <2>9, <2>10, <2>11 DEF DevOrderly, Tracked, AllDown
  <2>13. /\ attempts' \in Seq(TryRecords) /\ dev' \in [DevCallers -> DevCalls]
         /\ RefsOwn' /\ LastExplained' /\ Messages'
         /\ \A d \in DevCallers : dev'[d].at = "wires" => dev'[d].about \in DOMAIN attempts'
    BY <2>1, <2>2, <2>6, NoTry
  <2>14. DevTyped'
    BY <1>0, <2>5, <2>13 DEF DevInv, DevTyped
  <2> QED BY <2>7, <2>12, <2>13, <2>14, DevParts
<1> QED BY <1>1, <1>2

\* Deactivate forgets the process, whichever is tracked by then.
LEMMA DeactivateDropsStep ==
    ASSUME DevInv, NEW c \in DevCallers, DeactivateDrops(c)
    PROVE  DevInv'
<1> DEFINE r == [dev[c] EXCEPT !.at = "deregisters"]
<1> DEFINE a == TryOf("deactivate", TRUE, "")
<1>0. /\ dev[c].op = "deactivate" /\ dev[c].at = "drops" /\ tracked' = 0
      /\ UNCHANGED <<source, binary, launched, instance, sequential>>
      /\ dev \in [DevCallers -> DevCalls] /\ DevOrderly /\ DevHolds
      /\ launched \in Seq(Processes)
  BY DEF DeactivateDrops, DevInv, DevTyped, onDisk, runtime
<1>1. attempts' = Append(attempts, a) /\ dev' = [dev EXCEPT ![c] = r]
  BY DEF DeactivateDrops, recordAttempt, TryOf, MovesTo, SetDev
<1>2. r \in DevCalls /\ r.at = "deregisters" /\ r.op = "deactivate"
  BY <1>0 DEF DevCalls, DevAt
<1>3. a \in TryRecords /\ FreshTry(a, "deregisters")
  BY DoneTries
<1> HIDE DEF r, a
<1>4. NewTry(a, r)
  BY <1>2, <1>3 DEF NewTry, FreshTry
<1>5. dev'[c] = r /\ \A d \in DevCallers : d # c => dev'[d] = dev[d]
  BY <1>0, <1>1, <1>2, CallTyped
<1>6. PidHeld'
  BY <1>0, <1>2, <1>5 DEF PidHeld, DevHolds
<1>7. sequential => AllDown /\ OneToggle
  BY <1>0 DEF DevOrderly, TogglesSee
<1>8. sequential => OneToggle' /\ \A d \in DevCallers : d # c => ~Toggles(dev[d].op)
  BY <1>0, <1>2, <1>5, <1>7 DEF OneToggle, Toggles
<1>9. sequential => TogglesSee'
  BY <1>2, <1>5, <1>8 DEF TogglesSee, Toggles
<1>10. DevOrderly'
  BY <1>0, <1>7, <1>8, <1>9 DEF DevOrderly, Tracked, AllDown
<1>11. /\ attempts' \in Seq(TryRecords) /\ dev' \in [DevCallers -> DevCalls]
       /\ RefsOwn' /\ LastExplained' /\ Messages'
       /\ \A d \in DevCallers : dev'[d].at = "wires" => dev'[d].about \in DOMAIN attempts'
  BY <1>1, <1>2, <1>3, <1>4, Tries
<1>12. tracked' \in 0..Len(launched')
  BY <1>0
<1>13. DevTyped'
  BY <1>0, <1>11, <1>12 DEF DevInv, DevTyped
<1> QED BY <1>6, <1>10, <1>11, <1>13, DevParts

Ended(p, q) ==
    /\ q.exited /\ (q.killed = launched[p].killed)
    /\ tracked' = tracked \/ (launched[p].exited /\ tracked = p /\ tracked' = 0)

\* A process ends, or the goroutine that waits for it drops it.
LEMMA EndedStep ==
    ASSUME DevInv, NEW p \in DOMAIN launched, NEW q \in Processes, launched' = [launched EXCEPT ![p] = q], Ended(p, q),
           UNCHANGED <<source, binary, instance, attempts, dev, sequential>>
    PROVE  DevInv'
<1>0. /\ DevOrderly /\ DevHolds
      /\ launched \in Seq(Processes) /\ tracked \in 0..Len(launched) /\ instance \in 0..Len(launched)
  BY DEF DevInv, DevTyped
<1>3. /\ launched' \in Seq(Processes) /\ Len(launched') = Len(launched) /\ DOMAIN launched' = DOMAIN launched
      /\ launched'[p] = q /\ \A o \in DOMAIN launched : o # p => launched'[o] = launched[o]
  BY ProcessTyped
<1>4. tracked' \in 0..Len(launched') /\ instance' \in 0..Len(launched')
  BY <1>0, <1>3 DEF Ended
<1>5. PidHeld'
  BY <1>0, <1>3 DEF PidHeld, DevHolds
<1>6. AllDown => AllDown'
  <2>1. ASSUME NEW o \in DOMAIN launched', AllDown PROVE launched'[o].exited \/ launched'[o].killed
    <3>1. CASE o = p
      BY <1>3, <3>1 DEF Ended
    <3>2. CASE o # p
      BY <1>3, <2>1, <3>2 DEF AllDown
    <3> QED BY <3>1, <3>2
  <2> QED BY <2>1 DEF AllDown
<1>7. sequential => Tracked'
  <2>1. ASSUME sequential, NEW o \in DOMAIN launched', ~launched'[o].exited, ~launched'[o].killed PROVE tracked' = o
    <3>1. o # p
      BY <1>3, <2>1 DEF Ended
    <3>2. launched'[o] = launched[o] /\ o \in DOMAIN launched
      BY <1>3, <2>1, <3>1
    <3>3. tracked = o
      BY <1>0, <2>1, <3>2 DEF DevOrderly, Tracked
    <3> QED BY <3>1, <3>3 DEF Ended
  <2> QED BY <2>1 DEF Tracked
<1>8. sequential => TogglesSee'
  BY <1>0, <1>6 DEF DevOrderly, TogglesSee, Ended
<1>9. DevOrderly'
  BY <1>0, <1>7, <1>8 DEF DevOrderly, OneToggle
<1>10. /\ attempts' \in Seq(TryRecords) /\ dev' \in [DevCallers -> DevCalls]
       /\ RefsOwn' /\ LastExplained' /\ Messages'
       /\ \A d \in DevCallers : dev'[d].at = "wires" => dev'[d].about \in DOMAIN attempts'
  BY <1>0, NoCall
<1>11. DevTyped'
  BY <1>0, <1>3, <1>4, <1>10 DEF DevInv, DevTyped
<1> QED BY <1>5, <1>9, <1>10, <1>11, DevParts

\* A process exits by itself.
LEMMA ExitStep ==
    ASSUME DevInv, NEW p \in DOMAIN launched, ProcessExits(p) \/ WaitDrops(p)
    PROVE  DevInv'
<1>0. launched[p] \in Processes
  BY DEF DevInv, DevTyped
<1>1. UNCHANGED <<source, binary, instance, attempts, dev, sequential>>
  BY DEF ProcessExits, WaitDrops, onDisk, tracker, runtime
<1>2. CASE ProcessExits(p)
  <2> DEFINE q == [launched[p] EXCEPT !.exited = TRUE]
  <2>1. q \in Processes /\ q.exited /\ q.killed = launched[p].killed
    BY <1>0 DEF Processes
  <2>2. launched' = [launched EXCEPT ![p] = q] /\ tracked' = tracked
    BY <1>2 DEF ProcessExits, tracker
  <2> HIDE DEF q
  <2>3. Ended(p, q)
    BY <2>1, <2>2 DEF Ended
  <2> QED BY <1>1, <2>1, <2>2, <2>3, EndedStep
<1>3. CASE WaitDrops(p)
  <2> DEFINE q == [launched[p] EXCEPT !.waiting = FALSE]
  <2>1. q \in Processes /\ q.exited /\ q.killed = launched[p].killed
    BY <1>0, <1>3 DEF Processes, WaitDrops
  <2>2. /\ launched' = [launched EXCEPT ![p] = q]
        /\ tracked' = tracked \/ (launched[p].exited /\ tracked = p /\ tracked' = 0)
    BY <1>3 DEF WaitDrops, dropIf
  <2> HIDE DEF q
  <2>3. Ended(p, q)
    BY <2>1, <2>2 DEF Ended
  <2> QED BY <1>1, <2>1, <2>2, <2>3, EndedStep
<1> QED BY <1>2, <1>3

\* Edits and registrations change nothing that the calls and the processes tell.
LEMMA OutsideStep ==
    ASSUME DevInv, UNCHANGED <<launched, tracked, attempts, dev, sequential>>,
           source' \in Nat, binary' \in [from : Nat, stale : BOOLEAN], instance' \in 0..Len(launched)
    PROVE  DevInv'
  BY DEF DevInv, DevTyped, DevHolds, DevOrderly, OneToggle, TogglesSee, AllDown, Tracked, RefsOwn, LastExplained,
     LastAttempt, Explains, Messages

\* Steps that touch neither calls nor processes.
LEMMA OutsideSteps ==
    ASSUME DevInv, Scaffold \/ Expires \/ Verify \/ \E p \in DOMAIN launched : Registers(p)
    PROVE  DevInv'
<1>0. /\ source \in Nat /\ binary \in [from : Nat, stale : BOOLEAN]
      /\ launched \in Seq(Processes) /\ instance \in 0..Len(launched)
  BY DEF DevInv, DevTyped
<1>1. CASE Scaffold
  <2>1. source' = source + 1 /\ UNCHANGED <<launched, tracked, attempts, dev, sequential, instance>>
    BY <1>1 DEF Scaffold, tracker, runtime
  <2>2. binary' \in [from : Nat, stale : BOOLEAN]
    BY <1>0, <1>1 DEF Scaffold
  <2>3. source' \in Nat /\ instance' \in 0..Len(launched)
    BY <1>0, <2>1
  <2> QED BY <2>1, <2>2, <2>3, OutsideStep
<1>2. CASE Expires
  <2>1. instance' \in 0..Len(launched) /\ UNCHANGED <<source, binary, launched, tracked, attempts, dev, sequential>>
    BY <1>0, <1>2 DEF Expires, tracker, onDisk
  <2> QED BY <1>0, <2>1, OutsideStep
<1>3. CASE Verify
  <2>1. UNCHANGED <<source, binary, launched, tracked, attempts, dev, sequential, instance>>
    BY <1>3 DEF Verify, tracker, onDisk
  <2> QED BY <1>0, <2>1, OutsideStep
<1>4. ASSUME NEW p \in DOMAIN launched, Registers(p) PROVE DevInv'
  <2>1. p \in 0..Len(launched)
    BY <1>0
  <2>2. instance' = p /\ UNCHANGED <<source, binary, launched, tracked, attempts, dev, sequential>>
    BY <1>4 DEF Registers, tracker, onDisk
  <2> QED BY <1>0, <2>1, <2>2, OutsideStep
<1> QED BY <1>1, <1>2, <1>3, <1>4

\* The last steps of a call.
LEMMA EndSteps ==
    ASSUME DevInv, NEW c \in DevCallers, BuildClears(c) \/ verifyPluginIntegration(c) \/ Deregisters(c)
    PROVE  DevInv'
<1>0. launched \in Seq(Processes) /\ instance \in 0..Len(launched)
  BY DEF DevInv, DevTyped
<1>1. /\ Finishes(c) /\ dev[c].at \in {"clears", "integrates", "deregisters"}
      /\ UNCHANGED <<source, binary, launched, tracked, attempts, sequential>>
      /\ instance' = instance \/ instance' = 0
  BY Zenon DEF BuildClears, verifyPluginIntegration, Deregisters, onDisk, tracker, runtime
<1>2. instance' \in 0..Len(launched)
  BY <1>0, <1>1
<1>3. ~Explains(c)
  BY <1>1 DEF Explains
<1> QED BY <1>1, <1>2, <1>3, FinishStep

\* Every step keeps the invariant.
LEMMA DevInvStep == DevInv /\ [DevNext]_devVars => DevInv'
<1> SUFFICES ASSUME DevInv, [DevNext]_devVars PROVE DevInv'
  OBVIOUS
<1>1. CASE UNCHANGED devVars
  BY <1>1, OutsideStep DEF devVars, DevInv, DevTyped
<1>2. CASE Scaffold \/ Expires \/ Verify \/ \E p \in DOMAIN launched : Registers(p)
  BY <1>2, OutsideSteps
<1>3. ASSUME NEW c \in DevCallers, NEW op \in {"build", "activate", "deactivate", "explain"}, Begins(c, op) PROVE DevInv'
  BY <1>3, BeginStep
<1>4. ASSUME NEW c \in DevCallers, ExplainReads(c) \/ ExplainWires(c) \/ BuildSucceeds(c) \/ BuildFails(c) PROVE DevInv'
  BY <1>4, ExplainStep, WiresStep, BuildStep
<1>5. ASSUME NEW c \in DevCallers, BuildClears(c) \/ verifyPluginIntegration(c) \/ Deregisters(c) PROVE DevInv'
  BY <1>5, EndSteps
<1>6. ASSUME NEW c \in DevCallers, ActivateChecks(c) \/ ActivateLaunches(c) \/ ActivateGate(c) PROVE DevInv'
  BY <1>6, ActivateChecksStep, ActivateStep
<1>7. ASSUME NEW c \in DevCallers, DeactivateReads(c) \/ DeactivateKills(c) \/ DeactivateDrops(c) PROVE DevInv'
  BY <1>7, DeactivateReadsStep, DeactivateKillsStep, DeactivateDropsStep
<1>8. ASSUME NEW p \in DOMAIN launched, ProcessExits(p) \/ WaitDrops(p) PROVE DevInv'
  BY <1>8, ExitStep
<1> QED BY <1>1, <1>2, <1>3, <1>4, <1>5, <1>6, <1>7, <1>8 DEF DevNext

\* The invariant implies what is promised.
LEMMA DevInvHonest == DevInv => DevHonest
<1> SUFFICES ASSUME DevInv PROVE DevHonest
  OBVIOUS
<1>1. NoOrphans
  BY DEF NoOrphans, DevInv, DevOrderly, Tracked
<1>2. ASSUME \A c \in DevCallers : dev[c] = NoDev PROVE \A c \in DevCallers : ~Explains(c)
  BY <1>2, NoDevTyped DEF Explains
<1>3. FailureExplained
  BY <1>2 DEF FailureExplained, DevInv, RefsOwn, LastExplained
<1> QED BY <1>1, <1>3 DEF DevHonest

\* Calls made one after the other never lose a process, and a failed attempt that is
\* shown points to its own explanation, however builds, activations, explanations and
\* exits of processes interleave (plugindev.Tracker, ActivatePlugin, Explain).
THEOREM DevSafe == DevSpec => []DevHonest
<1>1. DevSpec => []DevInv
  BY DevInitInv, DevInvStep, PTL DEF DevSpec
<1> QED BY <1>1, DevInvHonest, PTL

(***************************************************************************)
(* Decoding again: what an undisturbed decode has written, with what it    *)
(* still holds, is one event for each packet it decoded.                   *)
(***************************************************************************)
DecRow == [call : DecCalls \cup {"capture"}, n : Nat]
DecRec ==
    [op : {"none", "decode", "look"}, clear : BOOLEAN, at : {"idle", "open", "loop", "end", "done", "failed"},
     next : Nat, batch : Nat, pending : Seq(DecRow), changes : Seq(DecRow), since : Nat,
     decodedN : SUBSET Nat, errs : SUBSET Nat]
DecTypes ==
    /\ taskRuns \in BOOLEAN /\ evRows \in Seq(DecRow)
    /\ dcall \in [DecCalls -> DecRec] /\ alone \in [DecCalls -> BOOLEAN]

\* The events of c in rows are one for each number of N, in order.
Exactly(evs, c, N) ==
    /\ \A i, j \in DOMAIN evs : evs[i].call = c /\ evs[j].call = c /\ i < j => evs[i].n < evs[j].n
    /\ \A i \in DOMAIN evs : evs[i].call = c => evs[i].n \in N
    /\ \A n \in N : \E i \in DOMAIN evs : evs[i].call = c /\ evs[i].n = n
AllBy(evs, c) == \A i \in DOMAIN evs : evs[i].call = c

Past == {"loop", "end", "done"}
\* How far a call is, whoever else runs.
DecFar(r) ==
    /\ r.op = "none" <=> r.at = "idle"
    /\ r.next >= 1 /\ r.next + r.batch <= DecPackets + 1
    /\ r.at \in {"idle", "open"} => r.pending = <<>> /\ r.decodedN = {} /\ r.errs = {} /\ r.next = 1 /\ r.batch = 0
    /\ r.at \in Past => r.decodedN \cup r.errs = 1..(r.next - 1)
    /\ r.at \in {"end", "done"} => r.next = DecPackets + 1
    /\ r.at = "done" /\ r.op = "decode" => r.pending = <<>>
\* An undisturbed decode: the table and what waits for the next flush.
DecExact(r, evs, c) ==
    /\ Exactly(evs \o r.pending, c, r.decodedN)
    /\ r.clear => AllBy(evs \o r.pending, c)

DecOrigin == \A i \in DOMAIN evRows : evRows[i].call # "capture" => dcall[evRows[i].call].at \in Past \cup {"failed"}
DecLone ==
    \A c, o \in DecCalls : alone[c] /\ dcall[c].op = "decode" /\ o # c /\ dcall[o].op = "decode" => ~Busy(o)
DecInv ==
    /\ DecTypes
    /\ \A c \in DecCalls : DecFar(dcall[c]) /\ AllBy(dcall[c].pending, c)
    /\ DecOrigin /\ DecLone
    /\ taskRuns => \A c \in DecCalls : dcall[c].op # "decode"
    /\ \A c \in DecCalls : dcall[c].op = "decode" /\ alone[c] /\ dcall[c].at \in Past => DecExact(dcall[c], evRows, c)

\* One event more, of a later packet.
LEMMA ExactlyAppend ==
    ASSUME NEW c \in DecCalls, NEW F \in Seq(DecRow), NEW N \in SUBSET Nat, Exactly(F, c, N),
           NEW n \in Nat, \A m \in N : m < n, NEW row \in DecRow, row.call = c, row.n = n
    PROVE  Exactly(Append(F, row), c, N \cup {n}) /\ (AllBy(F, c) => AllBy(Append(F, row), c))
<1>1. PICK G : G = Append(F, row)
  OBVIOUS
<1>2. PICK k \in Nat : k = Len(F)
  OBVIOUS
<1>3. /\ DOMAIN F = 1..k /\ DOMAIN G = 1..(k + 1) /\ G[k + 1] = row
      /\ \A i \in 1..k : G[i] = F[i]
  BY <1>1, <1>2
<1>4. \A i \in 1..(k + 1) : i \in 1..k \/ i = k + 1
  BY ONLY <1>2
<1>5. \A i, j \in DOMAIN G : G[i].call = c /\ G[j].call = c /\ i < j => G[i].n < G[j].n
  <2> SUFFICES ASSUME NEW i \in DOMAIN G, NEW j \in DOMAIN G, G[i].call = c, G[j].call = c, i < j
               PROVE  G[i].n < G[j].n
    OBVIOUS
  <2>1. i \in 1..k
    BY ONLY <1>2, <1>3, i \in DOMAIN G, j \in DOMAIN G, i < j
  <2>2. CASE j \in 1..k
    BY <1>3, <2>1, <2>2 DEF Exactly
  <2>3. CASE j = k + 1
    <3>1. F[i].n \in N
      BY <1>3, <2>1 DEF Exactly
    <3>2. QED
      BY <1>3, <2>1, <2>3, <3>1
  <2>4. QED
    BY <1>3, <1>4, <2>2, <2>3
<1>6. \A i \in DOMAIN G : G[i].call = c => G[i].n \in N \cup {n}
  BY <1>3, <1>4 DEF Exactly
<1>7. \A m \in N \cup {n} : \E i \in DOMAIN G : G[i].call = c /\ G[i].n = m
  <2> SUFFICES ASSUME NEW m \in N \cup {n} PROVE \E i \in DOMAIN G : G[i].call = c /\ G[i].n = m
    OBVIOUS
  <2>1. CASE m \in N
    <3>1. PICK i \in DOMAIN F : F[i].call = c /\ F[i].n = m
      BY <2>1 DEF Exactly
    <3>2. i \in DOMAIN G
      BY ONLY <1>2, <1>3, i \in DOMAIN F
    <3>3. QED
      BY <1>3, <3>1, <3>2
  <2>2. CASE m = n
    <3>1. k + 1 \in DOMAIN G
      BY ONLY <1>2, <1>3
    <3>2. QED
      BY <1>3, <2>2, <3>1
  <2>3. QED
    BY <2>1, <2>2
<1>8. AllBy(F, c) => AllBy(G, c)
  BY <1>3, <1>4 DEF AllBy
<1>9. QED
  BY <1>1, <1>5, <1>6, <1>7, <1>8 DEF Exactly

\* A table and what waits, with one row more or with nothing waiting.
LEMMA WaitingRows ==
    ASSUME NEW T \in Seq(DecRow), NEW P \in Seq(DecRow), NEW row \in DecRow
    PROVE  /\ T \o Append(P, row) = Append(T \o P, row) /\ T \o P \in Seq(DecRow)
           /\ T \o <<>> = T /\ Append(P, row) \in Seq(DecRow)
<1>1. T \o Append(P, row) = Append(T \o P, row)
  BY SMTT(20)
<1>2. T \o P \in Seq(DecRow) /\ T \o <<>> = T /\ Append(P, row) \in Seq(DecRow)
  OBVIOUS
<1>3. QED
  BY ONLY <1>1, <1>2

\* The rows of a table that grows by a call's own.
LEMMA GrownBy ==
    ASSUME NEW c \in DecCalls, NEW T \in Seq(DecRow), NEW P \in Seq(DecRow), AllBy(P, c)
    PROVE  \A i \in DOMAIN (T \o P) : (T \o P)[i].call = c \/ \E j \in DOMAIN T : (T \o P)[i].call = T[j].call
<1> SUFFICES ASSUME NEW i \in DOMAIN (T \o P)
             PROVE  (T \o P)[i].call = c \/ \E j \in DOMAIN T : (T \o P)[i].call = T[j].call
  OBVIOUS
<1>1. i \in 1..(Len(T) + Len(P)) /\ DOMAIN T = 1..Len(T) /\ DOMAIN P = 1..Len(P) /\ Len(T) \in Nat /\ Len(P) \in Nat
  OBVIOUS
<1>2. CASE i \in 1..Len(T)
  <2>1. (T \o P)[i] = T[i]
    BY <1>1, <1>2
  <2>2. QED
    BY <1>1, <1>2, <2>1
<1>3. CASE i \notin 1..Len(T)
  <2>1. i - Len(T) \in 1..Len(P) /\ (T \o P)[i] = P[i - Len(T)]
    BY <1>1, <1>3
  <2>2. QED
    BY <1>1, <2>1 DEF AllBy
<1>4. QED
  BY <1>2, <1>3

\* An own row shows only where an event of the call is.
LEMMA OwnAppended ==
    ASSUME NEW c \in DecCalls, NEW P \in Seq(DecRow), AllBy(P, c), NEW row \in DecRow, row.call = c
    PROVE  AllBy(Append(P, row), c)
  BY DEF AllBy

\* A call in progress moves on: what is left to show of its step.
LEMMA CallMoves ==
    ASSUME DecInv, NEW c \in DecCalls, NEW r2 \in DecRec, NEW evs \in Seq(DecRow),
           dcall' = [dcall EXCEPT ![c] = r2], evRows' = evs, taskRuns' = taskRuns, alone' = alone,
           Busy(c), r2.op = dcall[c].op, r2.at \in Past \cup {"failed"}, DecFar(r2), AllBy(r2.pending, c),
           evs = evRows \/ (r2.op = "decode" /\ \A i \in DOMAIN evs : evs[i].call = c \/ \E j \in DOMAIN evRows : evs[i].call = evRows[j].call),
           r2.op = "decode" /\ alone[c] /\ r2.at \in Past => DecExact(r2, evs, c)
    PROVE  DecInv'
<1>1. dcall \in [DecCalls -> DecRec] /\ alone \in [DecCalls -> BOOLEAN] /\ taskRuns \in BOOLEAN
  BY DEF DecInv, DecTypes
<1>2. dcall'[c] = r2 /\ \A b \in DecCalls : b # c => dcall'[b] = dcall[b]
  BY <1>1
<1>3. DecTypes'
  BY <1>1 DEF DecTypes
<1>4. \A b \in DecCalls : DecFar(dcall'[b]) /\ AllBy(dcall'[b].pending, b)
  BY <1>2 DEF DecInv
<1>5. \A b \in DecCalls : dcall'[b].op = dcall[b].op
  BY <1>2
<1>6. taskRuns' => \A b \in DecCalls : dcall'[b].op # "decode"
  BY <1>5 DEF DecInv
<1>7. \A b \in DecCalls : Busy(b)' => Busy(b)
  BY <1>2 DEF Busy
<1>8. DecLone'
  BY <1>5, <1>7 DEF DecLone, DecInv
<1>9. DecOrigin'
  <2> SUFFICES ASSUME NEW i \in DOMAIN evs, evs[i].call # "capture"
               PROVE  dcall'[evs[i].call].at \in Past \cup {"failed"}
    BY DEF DecOrigin
  <2>0. evs[i] \in DecRow
    BY ONLY evs \in Seq(DecRow), i \in DOMAIN evs
  <2>1. evs[i].call \in DecCalls
    BY ONLY <2>0, evs[i].call # "capture" DEF DecRow
  <2>2. CASE evs[i].call = c
    BY <1>2, <2>2
  <2>3. CASE evs[i].call # c
    <3>1. PICK j \in DOMAIN evRows : evs[i].call = evRows[j].call
      BY <2>3
    <3>2. QED
      BY <1>2, <2>1, <2>3, <3>1 DEF DecOrigin, DecInv
  <2>4. QED
    BY <2>2, <2>3
<1>10. ASSUME NEW b \in DecCalls, dcall'[b].op = "decode", alone'[b], dcall'[b].at \in Past
       PROVE  DecExact(dcall'[b], evs, b)
  <2>1. CASE b = c
    BY <1>2, <1>10, <2>1
  <2>2. CASE b # c
    <3>1. dcall'[b] = dcall[b] /\ alone[b] /\ dcall[b].op = "decode"
      BY <1>2, <1>10, <2>2
    <3>2. dcall[c].op # "decode"
      BY <2>2, <3>1 DEF DecInv, DecLone
    <3>3. evs = evRows
      BY <3>2
    <3>4. QED
      BY <1>10, <3>1, <3>3 DEF DecInv
  <2>3. QED
    BY <2>1, <2>2
<1>11. QED
  BY <1>3, <1>4, <1>6, <1>8, <1>9, <1>10 DEF DecInv

\* The store is opened: nothing of the call is in it yet.
LEMMA OpensMove ==
    ASSUME DecInv, NEW c \in DecCalls, OpensStore(c)
    PROVE  DecInv'
<1>1. PICK r \in DecRec : r = dcall[c]
  BY DEF DecInv, DecTypes
<1>2. PICK r2 : r2 = [r EXCEPT !.at = "loop"]
  OBVIOUS
<1>3. /\ r2 \in DecRec /\ r2.at = "loop" /\ r2.op = r.op /\ r2.clear = r.clear /\ r2.next = r.next /\ r2.batch = r.batch
      /\ r2.pending = r.pending /\ r2.decodedN = r.decodedN /\ r2.errs = r.errs
  BY <1>2 DEF DecRec
<1>4. DecFar(r) /\ r.at = "open" /\ Busy(c)
  BY <1>1 DEF OpensStore, DecInv, Busy
<1>5. r.pending = <<>> /\ r.decodedN = {} /\ r.errs = {} /\ r.next = 1 /\ r.batch = 0 /\ r.op # "none"
  BY <1>4 DEF DecFar
<1>6. DecFar(r2) /\ AllBy(r2.pending, c)
  <2>1. r2.next - 1 = 0 /\ 1..0 = {}
    BY <1>3, <1>5
  <2>2. QED
    BY <1>3, <1>4, <1>5, <2>1 DEF DecFar, Past, AllBy
<1>7. PICK evs : evs = IF r.op = "decode" /\ r.clear THEN <<>> ELSE evRows
  OBVIOUS
<1>8. evs \in Seq(DecRow) /\ evs \o <<>> = evs
  <2>1. evRows \in Seq(DecRow)
    BY DEF DecInv, DecTypes
  <2>2. QED
    BY <1>7, <2>1
<1>9. evRows' = evs /\ dcall' = [dcall EXCEPT ![c] = r2] /\ taskRuns' = taskRuns /\ alone' = alone
  BY <1>1, <1>2, <1>7 DEF OpensStore, SetD
<1>10. \A i \in DOMAIN evs : evs[i].call # c
  <2>1. \A i \in DOMAIN evRows : evRows[i].call # c
    BY <1>1, <1>4, DecAssumption DEF DecInv, DecOrigin, Past
  <2>2. QED
    BY <1>7, <2>1
<1>11. ASSUME r.op = "decode" PROVE DecExact(r2, evs, c)
  <2>1. Exactly(evs, c, {})
    BY <1>10 DEF Exactly
  <2>2. r.clear => AllBy(evs, c)
    BY <1>7, <1>11 DEF AllBy
  <2>3. evs \o r2.pending = evs
    BY <1>3, <1>5, <1>8
  <2>4. QED
    BY ONLY <1>3, <1>5, <2>1, <2>2, <2>3 DEF DecExact
<1>12. evs = evRows \/ (r2.op = "decode" /\ \A i \in DOMAIN evs : evs[i].call = c \/ \E j \in DOMAIN evRows : evs[i].call = evRows[j].call)
  BY <1>3, <1>7
<1>13. r2.op = dcall[c].op /\ r2.at \in Past \cup {"failed"}
  BY <1>1, <1>3 DEF Past
<1>14. QED
  BY <1>3, <1>4, <1>6, <1>8, <1>9, <1>11, <1>12, <1>13, CallMoves

\* One packet further, the call has seen one number more.
LEMMA OneFurther ==
    ASSUME NEW r \in DecRec, DecFar(r), r.at = "loop", r.batch > 0, NEW x \in DecRec,
           x.at = IF r.batch = 1 /\ r.next = DecPackets THEN "end" ELSE "loop",
           x.op = r.op, x.next = r.next + 1, x.batch = r.batch - 1,
           x.decodedN \cup x.errs = r.decodedN \cup r.errs \cup {r.next}
    PROVE  DecFar(x) /\ x.at \in Past
<1>1. r.next \in Nat /\ r.batch \in Nat /\ DecPackets \in Nat /\ r.next >= 1 /\ r.next + r.batch <= DecPackets + 1
  BY DecAssumption DEF DecRec, DecFar
<1>2. x.at \in {"loop", "end"} /\ x.at \in Past
  BY DEF Past
<1>3. r.decodedN \cup r.errs = 1..(r.next - 1)
  BY DEF DecFar, Past
<1>4. 1..(r.next - 1) \cup {r.next} = 1..(x.next - 1)
  BY ONLY <1>1, x.next = r.next + 1
<1>5. x.decodedN \cup x.errs = 1..(x.next - 1)
  BY ONLY <1>3, <1>4, x.decodedN \cup x.errs = r.decodedN \cup r.errs \cup {r.next}
<1>6. x.next >= 1 /\ x.next + x.batch <= DecPackets + 1 /\ (x.at = "end" => x.next = DecPackets + 1)
  BY <1>1
<1>7. x.op # "none"
  BY DEF DecFar
<1>8. QED
  BY ONLY <1>2, <1>5, <1>6, <1>7 DEF DecFar

\* A packet is decoded, or fails to be.
LEMMA DecodesMove ==
    ASSUME DecInv, NEW c \in DecCalls, DecodesOne(c)
    PROVE  DecInv'
<1>1. PICK r \in DecRec : r = dcall[c]
  BY DEF DecInv, DecTypes
<1>2. PICK n \in Nat : n = r.next
  BY DEF DecRec
<1>3. PICK row \in DecRow : row = [call |-> c, n |-> n]
  BY DEF DecRow
<1>4. r.at = "loop" /\ r.batch > 0 /\ DecFar(r) /\ AllBy(r.pending, c) /\ Busy(c) /\ taskRuns' = taskRuns /\ alone' = alone
  BY <1>1 DEF DecodesOne, DecInv, Busy
<1>5. evRows \in Seq(DecRow) /\ r.pending \in Seq(DecRow) /\ r.batch \in Nat /\ r.changes \in Seq(DecRow) /\ r.since \in Nat
      /\ r.decodedN \in SUBSET Nat /\ r.errs \in SUBSET Nat
  BY DEF DecInv, DecTypes, DecRec
<1>6. PICK at2 : at2 = IF r.batch = 1 /\ n = DecPackets THEN "end" ELSE "loop"
  OBVIOUS
<1>7. r.next + 1 \in Nat /\ r.batch - 1 \in Nat /\ at2 \in {"loop", "end"} /\ r.since + 1 \in Nat
  BY ONLY <1>2, <1>4, <1>5, <1>6
<1>8. PICK stepped : stepped = [r EXCEPT !.next = r.next + 1, !.batch = r.batch - 1, !.at = at2]
  OBVIOUS
<1>9. r.errs \cup {n} \in SUBSET Nat /\ r.decodedN \cup {n} \in SUBSET Nat
      /\ Append(r.pending, row) \in Seq(DecRow) /\ Append(r.changes, row) \in Seq(DecRow)
  BY ONLY <1>2, <1>3, <1>5
<1>10. PICK bad : bad = [stepped EXCEPT !.errs = r.errs \cup {n}]
  OBVIOUS
<1>11. PICK good : good = [stepped EXCEPT !.pending = Append(r.pending, row), !.changes = Append(r.changes, row),
                                          !.since = r.since + 1, !.decodedN = r.decodedN \cup {n}]
  OBVIOUS
<1>a. PICK sent : sent = [good EXCEPT !.pending = <<>>, !.changes = <<>>, !.since = 0, !.at = good.at]
  OBVIOUS
<1>b. /\ stepped \in DecRec /\ stepped.at = at2 /\ stepped.op = r.op /\ stepped.clear = r.clear
      /\ stepped.next = r.next + 1 /\ stepped.batch = r.batch - 1 /\ stepped.since = r.since
      /\ stepped.pending = r.pending /\ stepped.changes = r.changes /\ stepped.decodedN = r.decodedN /\ stepped.errs = r.errs
  BY ONLY <1>7, <1>8, r \in DecRec DEF DecRec
<1>12. /\ bad \in DecRec /\ bad.at = at2 /\ bad.op = r.op /\ bad.clear = r.clear /\ bad.next = r.next + 1 /\ bad.batch = r.batch - 1
       /\ bad.pending = r.pending /\ bad.decodedN = r.decodedN /\ bad.errs = r.errs \cup {n}
  <2>1. /\ bad \in DecRec
        /\ bad.at = stepped.at /\ bad.op = stepped.op /\ bad.clear = stepped.clear /\ bad.next = stepped.next /\ bad.batch = stepped.batch
        /\ bad.pending = stepped.pending /\ bad.decodedN = stepped.decodedN /\ bad.errs = r.errs \cup {n}
    BY ONLY <1>b, <1>9, <1>10 DEF DecRec
  <2>2. QED
    BY ONLY <1>b, <2>1
<1>13. /\ good \in DecRec /\ good.at = at2 /\ good.op = r.op /\ good.clear = r.clear /\ good.next = r.next + 1 /\ good.batch = r.batch - 1
       /\ good.pending = Append(r.pending, row) /\ good.decodedN = r.decodedN \cup {n} /\ good.errs = r.errs
  <2>1. /\ good \in DecRec
        /\ good.at = stepped.at /\ good.op = stepped.op /\ good.clear = stepped.clear /\ good.next = stepped.next /\ good.batch = stepped.batch
        /\ good.pending = Append(r.pending, row) /\ good.decodedN = r.decodedN \cup {n} /\ good.errs = stepped.errs
    <3>1. PICK P \in Seq(DecRow), C \in Seq(DecRow), k \in Nat, N \in SUBSET Nat :
             P = Append(r.pending, row) /\ C = Append(r.changes, row) /\ k = r.since + 1 /\ N = r.decodedN \cup {n}
      BY ONLY <1>7, <1>9
    <3>2. good = [stepped EXCEPT !.pending = P, !.changes = C, !.since = k, !.decodedN = N]
      BY ONLY <1>11, <3>1
    <3>3. good \in DecRec
      BY ONLY <1>b, <3>2, P \in Seq(DecRow), C \in Seq(DecRow), k \in Nat, N \in SUBSET Nat DEF DecRec
    <3>4. /\ good.at = stepped.at /\ good.op = stepped.op /\ good.clear = stepped.clear /\ good.next = stepped.next /\ good.batch = stepped.batch
          /\ good.pending = P /\ good.decodedN = N /\ good.errs = stepped.errs
      BY ONLY <1>b, <3>2 DEF DecRec
    <3>5. QED
      BY ONLY <3>1, <3>3, <3>4
  <2>2. QED
    BY ONLY <1>b, <2>1
<1>14. /\ sent \in DecRec /\ sent.at = at2 /\ sent.op = r.op /\ sent.clear = r.clear /\ sent.next = r.next + 1 /\ sent.batch = r.batch - 1
       /\ sent.pending = <<>> /\ sent.decodedN = r.decodedN \cup {n} /\ sent.errs = r.errs
  <2>1. good.at \in {"loop", "end", "done"}
    BY ONLY <1>7, <1>13
  <2>2. /\ sent \in DecRec
        /\ sent.at = good.at /\ sent.op = good.op /\ sent.clear = good.clear /\ sent.next = good.next /\ sent.batch = good.batch
        /\ sent.pending = <<>> /\ sent.decodedN = good.decodedN /\ sent.errs = good.errs
    <3>a. <<>> \in Seq(DecRow)
      BY ONLY SMT
    <3>1. PICK P \in Seq(DecRow), d \in {"loop", "end", "done"} : P = <<>> /\ d = good.at
      BY ONLY <2>1, <3>a
    <3>2. sent = [good EXCEPT !.pending = P, !.changes = P, !.since = 0, !.at = d]
      BY ONLY <1>a, <3>1
    <3>3. sent \in DecRec
      BY ONLY <1>13, <3>2, P \in Seq(DecRow), d \in {"loop", "end", "done"} DEF DecRec
    <3>4. /\ sent.at = d /\ sent.op = good.op /\ sent.clear = good.clear /\ sent.next = good.next /\ sent.batch = good.batch
          /\ sent.pending = P /\ sent.decodedN = good.decodedN /\ sent.errs = good.errs
      BY ONLY <1>13, <3>2 DEF DecRec
    <3>5. QED
      BY ONLY <3>1, <3>3, <3>4
  <2>3. QED
    BY ONLY <1>13, <2>2
<1>15. DecFar(bad) /\ bad.at \in Past
  BY <1>2, <1>4, <1>6, <1>12, OneFurther
<1>16. DecFar(good) /\ good.at \in Past
  BY <1>2, <1>4, <1>6, <1>13, OneFurther
<1>17. DecFar(sent) /\ sent.at \in Past
  BY <1>2, <1>4, <1>6, <1>14, OneFurther
<1>18. \/ dcall' = [dcall EXCEPT ![c] = bad] /\ evRows' = evRows
       \/ dcall' = [dcall EXCEPT ![c] = good] /\ evRows' = evRows
       \/ r.op = "decode" /\ dcall' = [dcall EXCEPT ![c] = sent] /\ evRows' = evRows \o good.pending
  <2>1. [good EXCEPT !.at = good.at] = good
    BY ONLY <1>13 DEF DecRec
  <2>2. bad = [stepped EXCEPT !.errs = stepped.errs \cup {n}]
    BY ONLY <1>b, <1>10
  <2>3. good = [stepped EXCEPT !.pending = Append(stepped.pending, row), !.changes = Append(stepped.changes, row),
                               !.since = stepped.since + 1, !.decodedN = stepped.decodedN \cup {n}]
    BY ONLY <1>b, <1>11
  <2>4. \/ SetD(c, bad) /\ evRows' = evRows
        \/ r.op = "decode" /\ flush(c, good, good.at, good.at)
        \/ SetD(c, good) /\ evRows' = evRows
    BY ONLY DecodesOne(c), <1>1, <1>2, <1>3, <1>6, <1>8, <2>2, <2>3 DEF DecodesOne
  <2>5. CASE r.op = "decode" /\ flush(c, good, good.at, good.at)
    <3>1. good.pending # <<>>
      BY ONLY <1>3, <1>5, <1>13
    <3>2. PICK ok, scOk \in BOOLEAN : /\ AppendsAll(good, ok, scOk)
                                     /\ SetD(c, IF ok THEN [Flushed(good) EXCEPT !.at = good.at] ELSE [good EXCEPT !.at = good.at])
      BY ONLY Zenon, <2>5, <3>1 DEF flush
    <3>3. sent = [Flushed(good) EXCEPT !.at = good.at]
      BY ONLY <1>a, <1>13 DEF Flushed, DecRec
    <3>4. dcall' = [dcall EXCEPT ![c] = IF ok THEN sent ELSE good]
      BY ONLY <2>1, <3>2, <3>3 DEF SetD
    <3>5. evRows' = IF ok THEN evRows \o good.pending ELSE evRows
      BY ONLY <3>2 DEF AppendsAll
    <3>6. QED
      BY ONLY <2>5, <3>4, <3>5
  <2>6. QED
    BY <2>4, <2>5 DEF SetD
<1>19. AllBy(good.pending, c) /\ AllBy(sent.pending, c) /\ good.pending \in Seq(DecRow) /\ evRows \o good.pending \in Seq(DecRow)
  BY <1>3, <1>4, <1>5, <1>13, <1>14, OwnAppended, WaitingRows DEF AllBy
<1>20. ASSUME r.op = "decode", alone[c]
       PROVE  /\ DecExact(bad, evRows, c) /\ DecExact(good, evRows, c)
              /\ DecExact(sent, evRows \o good.pending, c)
  <2>1. DecExact(r, evRows, c)
    BY <1>1, <1>4, <1>20 DEF DecInv, Past
  <2>2. \A m \in r.decodedN : m < n
    <3>1. r.decodedN \cup r.errs = 1..(n - 1)
      BY <1>2, <1>4 DEF DecFar, Past
    <3>2. QED
      BY ONLY <1>2, <3>1
  <2>a. evRows \o r.pending \in Seq(DecRow)
    BY ONLY <1>5, ConcatProperties
  <2>3. PICK F \in Seq(DecRow) : F = evRows \o r.pending
    BY ONLY <2>a
  <2>4. Exactly(F, c, r.decodedN) /\ (r.clear => AllBy(F, c))
    BY <2>1, <2>3 DEF DecExact
  <2>5. Exactly(Append(F, row), c, r.decodedN \cup {n}) /\ (AllBy(F, c) => AllBy(Append(F, row), c))
    <3>1. row.call = c /\ row.n = n
      BY ONLY <1>3
    <3>2. QED
      BY ONLY <1>5, <2>2, <2>4, <3>1, ExactlyAppend, c \in DecCalls, F \in Seq(DecRow), n \in Nat, row \in DecRow
  <2>b. evRows \o Append(r.pending, row) = Append(evRows \o r.pending, row)
    BY ONLY SMTT(20), <1>3, <1>5, WaitingRows
  <2>c. (evRows \o good.pending) \o <<>> = evRows \o good.pending
    BY ONLY <1>3, <1>19, WaitingRows
  <2>6. evRows \o good.pending = Append(F, row) /\ (evRows \o good.pending) \o <<>> = evRows \o good.pending
    BY ONLY <1>13, <2>3, <2>b, <2>c
  <2>7. QED
    BY ONLY <1>12, <1>13, <1>14, <2>3, <2>4, <2>5, <2>6 DEF DecExact
<1>21. CASE dcall' = [dcall EXCEPT ![c] = bad] /\ evRows' = evRows
  BY <1>1, <1>4, <1>5, <1>12, <1>15, <1>20, <1>21, CallMoves
<1>22. CASE dcall' = [dcall EXCEPT ![c] = good] /\ evRows' = evRows
  BY <1>1, <1>4, <1>5, <1>13, <1>16, <1>19, <1>20, <1>22, CallMoves
<1>23. CASE r.op = "decode" /\ dcall' = [dcall EXCEPT ![c] = sent] /\ evRows' = evRows \o good.pending
  <2>1. \A i \in DOMAIN (evRows \o good.pending) :
           (evRows \o good.pending)[i].call = c \/ \E j \in DOMAIN evRows : (evRows \o good.pending)[i].call = evRows[j].call
    BY <1>5, <1>19, GrownBy
  <2>2. QED
    BY <1>1, <1>4, <1>5, <1>14, <1>17, <1>19, <1>20, <1>23, <2>1, CallMoves
<1>24. QED
  BY <1>18, <1>21, <1>22, <1>23

\* A batch is queried.
LEMMA QueriesMove ==
    ASSUME DecInv, NEW c \in DecCalls, QueriesBatch(c)
    PROVE  DecInv'
<1>1. PICK r \in DecRec : r = dcall[c]
  BY DEF DecInv, DecTypes
<1>2. PICK evs : evs = IF DecPackets - r.next + 1 < RawBatch THEN DecPackets - r.next + 1 ELSE RawBatch
  OBVIOUS
<1>3. r.at = "loop" /\ r.batch = 0 /\ DecFar(r) /\ AllBy(r.pending, c) /\ Busy(c)
  BY <1>1 DEF QueriesBatch, DecInv, Busy
<1>4. r.next \in Nat /\ r.next <= DecPackets + 1 /\ DecPackets \in Nat /\ RawBatch \in Nat /\ RawBatch # 0
  BY <1>3, DecAssumption DEF DecRec, DecFar
<1>5. evs \in Nat /\ r.next + evs <= DecPackets + 1 /\ (evs = 0 => r.next = DecPackets + 1)
  BY ONLY <1>2, <1>4
<1>6. PICK d \in {"loop", "end"} : d = IF evs = 0 THEN "end" ELSE "loop"
  OBVIOUS
<1>7. PICK r2 : r2 = [r EXCEPT !.batch = evs, !.at = d]
  OBVIOUS
<1>8. r2 \in DecRec
  BY ONLY <1>5, <1>7, r \in DecRec, d \in {"loop", "end"} DEF DecRec
<1>9. /\ r2.at = d /\ r2.batch = evs /\ r2.op = r.op /\ r2.clear = r.clear /\ r2.next = r.next
      /\ r2.pending = r.pending /\ r2.decodedN = r.decodedN /\ r2.errs = r.errs
  BY ONLY <1>7, r \in DecRec DEF DecRec
<1>10. evRows' = evRows /\ dcall' = [dcall EXCEPT ![c] = r2] /\ taskRuns' = taskRuns /\ alone' = alone
  <2>1. SetD(c, r2)
    BY ONLY QueriesBatch(c), <1>1, <1>2, <1>6, <1>7 DEF QueriesBatch
  <2>2. QED
    BY <2>1 DEF QueriesBatch, SetD
<1>11. DecFar(r2) /\ r2.at \in Past
  BY <1>3, <1>5, <1>6, <1>9 DEF DecFar, Past
<1>12. r.op = "decode" /\ alone[c] => DecExact(r2, evRows, c)
  <2>1. r.op = "decode" /\ alone[c] => DecExact(r, evRows, c)
    BY <1>1, <1>3 DEF DecInv, Past
  <2>2. QED
    BY ONLY <1>9, <2>1 DEF DecExact
<1>13. evRows \in Seq(DecRow)
  BY DEF DecInv, DecTypes
<1>14. QED
  BY <1>1, <1>3, <1>8, <1>9, <1>10, <1>11, <1>12, <1>13, CallMoves

\* A call that only looks, or that fails, ends with nothing more written than its own rows.
LEMMA EndsMove ==
    ASSUME DecInv, NEW c \in DecCalls, DecodeEnds(c) \/ TestPlugin(c) \/ GivesUp(c)
    PROVE  DecInv'
<1>1. PICK r \in DecRec : r = dcall[c]
  BY DEF DecInv, DecTypes
<1>2. r.at \in {"loop", "end"} /\ r.at \in Past /\ DecFar(r) /\ AllBy(r.pending, c) /\ Busy(c) /\ taskRuns' = taskRuns /\ alone' = alone
  BY <1>1 DEF DecodeEnds, TestPlugin, GivesUp, DecInv, Busy, Past
<1>3. evRows \in Seq(DecRow) /\ r.pending \in Seq(DecRow) /\ evRows \o <<>> = evRows /\ evRows \o r.pending \in Seq(DecRow)
  <2>1. evRows \in Seq(DecRow) /\ r.pending \in Seq(DecRow)
    BY DEF DecInv, DecTypes, DecRec
  <2>2. QED
    BY ONLY <2>1
<1>4. PICK done : done = [r EXCEPT !.at = "done"]
  OBVIOUS
<1>5. PICK failed : failed = [r EXCEPT !.at = "failed"]
  OBVIOUS
<1>6. PICK sent : sent = [r EXCEPT !.pending = <<>>, !.changes = <<>>, !.since = 0, !.at = "done"]
  OBVIOUS
<1>7. /\ done \in DecRec /\ done.at = "done" /\ done.op = r.op /\ done.clear = r.clear /\ done.next = r.next /\ done.batch = r.batch
      /\ done.pending = r.pending /\ done.decodedN = r.decodedN /\ done.errs = r.errs
  BY ONLY <1>4, r \in DecRec DEF DecRec
<1>8. failed \in DecRec /\ failed.at = "failed" /\ failed.op = r.op /\ failed.next = r.next /\ failed.batch = r.batch /\ failed.pending = r.pending
  BY ONLY <1>5, r \in DecRec DEF DecRec
<1>9. /\ sent \in DecRec /\ sent.at = "done" /\ sent.op = r.op /\ sent.clear = r.clear /\ sent.next = r.next /\ sent.batch = r.batch
      /\ sent.pending = <<>> /\ sent.decodedN = r.decodedN /\ sent.errs = r.errs
  <2>a. <<>> \in Seq(DecRow)
    BY ONLY SMT
  <2>1. PICK P \in Seq(DecRow) : P = <<>>
    BY ONLY <2>a
  <2>2. sent = [r EXCEPT !.pending = P, !.changes = P, !.since = 0, !.at = "done"]
    BY ONLY <1>6, <2>1
  <2>3. sent \in DecRec
    BY ONLY <2>2, r \in DecRec, P \in Seq(DecRow) DEF DecRec
  <2>4. QED
    BY ONLY <2>1, <2>2, <2>3, r \in DecRec DEF DecRec
<1>10. DecFar(failed)
  BY <1>2, <1>8 DEF DecFar, Past
<1>11. r.at = "end" => DecFar(sent) /\ (r.op # "decode" \/ r.pending = <<>> => DecFar(done))
  BY <1>2, <1>7, <1>9 DEF DecFar, Past
<1>12. AllBy(done.pending, c) /\ AllBy(failed.pending, c) /\ AllBy(sent.pending, c)
  BY <1>2, <1>7, <1>8, <1>9 DEF AllBy
<1>13. ASSUME r.op = "decode", alone[c]
       PROVE  DecExact(done, evRows, c) /\ DecExact(sent, evRows \o r.pending, c)
  <2>1. DecExact(r, evRows, c)
    BY <1>1, <1>2, <1>13 DEF DecInv
  <2>2. (evRows \o r.pending) \o <<>> = evRows \o r.pending
    BY ONLY <1>3
  <2>3. QED
    BY ONLY <1>7, <1>9, <2>1, <2>2 DEF DecExact
<1>14. \A i \in DOMAIN (evRows \o r.pending) :
          (evRows \o r.pending)[i].call = c \/ \E j \in DOMAIN evRows : (evRows \o r.pending)[i].call = evRows[j].call
  BY <1>2, <1>3, GrownBy
<1>15. \/ dcall' = [dcall EXCEPT ![c] = done] /\ evRows' = evRows /\ r.at = "end" /\ (r.op # "decode" \/ r.pending = <<>>)
       \/ dcall' = [dcall EXCEPT ![c] = sent] /\ evRows' = evRows \o r.pending /\ r.at = "end" /\ r.op = "decode"
       \/ dcall' = [dcall EXCEPT ![c] = failed] /\ (evRows' = evRows \/ (evRows' = evRows \o r.pending /\ r.op = "decode"))
  <2>1. CASE DecodeEnds(c)
    <3>1. flush(c, r, "done", "failed") /\ r.at = "end" /\ r.op = "decode"
      BY ONLY <1>1, <2>1 DEF DecodeEnds
    <3>2. CASE r.pending = <<>>
      <4>1. SetD(c, [r EXCEPT !.at = "done"]) /\ evRows' = evRows
        BY ONLY Zenon, <3>1, <3>2 DEF flush
      <4>2. QED
        BY ONLY <1>4, <3>1, <3>2, <4>1 DEF SetD
    <3>3. CASE r.pending # <<>>
      <4>1. PICK ok, scOk \in BOOLEAN : /\ AppendsAll(r, ok, scOk)
                                       /\ SetD(c, IF ok THEN [Flushed(r) EXCEPT !.at = "done"] ELSE [r EXCEPT !.at = "failed"])
        BY ONLY Zenon, <3>1, <3>3 DEF flush
      <4>2. sent = [Flushed(r) EXCEPT !.at = "done"]
        BY ONLY <1>6, r \in DecRec DEF Flushed, DecRec
      <4>3. dcall' = [dcall EXCEPT ![c] = IF ok THEN sent ELSE failed]
        BY ONLY <1>5, <4>1, <4>2 DEF SetD
      <4>4. evRows' = IF ok THEN evRows \o r.pending ELSE evRows
        BY ONLY <4>1 DEF AppendsAll
      <4>5. QED
        BY ONLY <3>1, <4>3, <4>4
    <3>4. QED
      BY <3>2, <3>3
  <2>2. CASE TestPlugin(c)
    <3>1. SetD(c, [r EXCEPT !.at = "done"]) /\ evRows' = evRows /\ r.at = "end" /\ r.op # "decode"
      BY ONLY <1>1, <2>2 DEF TestPlugin
    <3>2. QED
      BY ONLY <1>4, <3>1 DEF SetD
  <2>3. CASE GivesUp(c)
    <3>1. PICK ok \in BOOLEAN : /\ AppendsAll(IF r.op = "decode" THEN r ELSE NoDCall, ok, ok)
                               /\ SetD(c, [r EXCEPT !.at = "failed"])
      BY ONLY <1>1, <2>3 DEF GivesUp
    <3>2. NoDCall.pending = <<>>
      BY DEF NoDCall
    <3>3. evRows' = evRows \/ (evRows' = evRows \o r.pending /\ r.op = "decode")
      BY ONLY <1>3, <3>1, <3>2 DEF AppendsAll
    <3>4. QED
      BY ONLY <1>5, <3>1, <3>3 DEF SetD
  <2>4. QED
    BY <2>1, <2>2, <2>3
<1>16. CASE dcall' = [dcall EXCEPT ![c] = done] /\ evRows' = evRows /\ r.at = "end" /\ (r.op # "decode" \/ r.pending = <<>>)
  <2>1. done.at \in Past
    BY <1>7 DEF Past
  <2>2. QED
    BY <1>1, <1>2, <1>3, <1>7, <1>11, <1>12, <1>13, <1>16, <2>1, CallMoves
<1>17. CASE dcall' = [dcall EXCEPT ![c] = sent] /\ evRows' = evRows \o r.pending /\ r.at = "end" /\ r.op = "decode"
  <2>1. sent.at \in Past
    BY <1>9 DEF Past
  <2>2. QED
    BY <1>1, <1>2, <1>3, <1>9, <1>11, <1>12, <1>13, <1>14, <1>17, <2>1, CallMoves
<1>18. CASE dcall' = [dcall EXCEPT ![c] = failed] /\ (evRows' = evRows \/ (evRows' = evRows \o r.pending /\ r.op = "decode"))
  <2>1. failed.at \notin Past
    BY <1>8 DEF Past
  <2>2. QED
    BY <1>1, <1>2, <1>3, <1>8, <1>10, <1>12, <1>14, <1>18, <2>1, CallMoves
<1>19. QED
  BY <1>15, <1>16, <1>17, <1>18

\* A call begins, and the decodes it may disturb are no longer alone.
LEMMA BeginsMove ==
    ASSUME DecInv, NEW c \in DecCalls, NEW op \in {"decode", "look"}, NEW clear \in BOOLEAN, DecodeBegins(c, op, clear)
    PROVE  DecInv'
<1>1. PICK r2 : r2 = [NoDCall EXCEPT !.op = op, !.clear = clear, !.at = "open"]
  OBVIOUS
<1>2. /\ r2.op = op /\ r2.at = "open" /\ r2.clear = clear /\ r2.next = 1 /\ r2.batch = 0 /\ r2.pending = <<>>
      /\ r2.decodedN = {} /\ r2.errs = {}
  BY <1>1 DEF NoDCall
<1>3. r2 \in DecRec
  <2>1. <<>> \in Seq(DecRow) /\ {} \in SUBSET Nat
    BY ONLY SMT
  <2>2. PICK P \in Seq(DecRow), E \in SUBSET Nat : P = <<>> /\ E = {}
    BY ONLY <2>1
  <2>3. r2 = [op |-> op, clear |-> clear, at |-> "open", next |-> 1, batch |-> 0,
              pending |-> P, changes |-> P, since |-> 0, decodedN |-> E, errs |-> E]
    BY ONLY <1>1, <2>2 DEF NoDCall
  <2>4. QED
    BY ONLY <2>3, op \in {"decode", "look"}, clear \in BOOLEAN, P \in Seq(DecRow), E \in SUBSET Nat DEF DecRec
<1>4. /\ dcall[c] = NoDCall /\ dcall' = [dcall EXCEPT ![c] = r2] /\ evRows' = evRows /\ taskRuns' = taskRuns
      /\ alone' = [b \in DecCalls |-> IF b = c THEN \A o \in DecCalls : o # c => ~Busy(o) \/ dcall[o].op # "decode"
                                      ELSE alone[b] /\ ~(dcall[b] # NoDCall /\ op = "decode")]
      /\ (op = "decode" => ~taskRuns)
  BY <1>1 DEF DecodeBegins, SetD, MayDecode
<1>5. /\ dcall \in [DecCalls -> DecRec] /\ alone \in [DecCalls -> BOOLEAN] /\ evRows \in Seq(DecRow) /\ taskRuns \in BOOLEAN
  BY DEF DecInv, DecTypes
<1>6. dcall'[c] = r2 /\ \A b \in DecCalls : b # c => dcall'[b] = dcall[b]
  BY ONLY <1>4, <1>5
<1>7. DecTypes'
  BY ONLY <1>3, <1>4, <1>5 DEF DecTypes
<1>8. \A b \in DecCalls : DecFar(dcall'[b]) /\ AllBy(dcall'[b].pending, b)
  <2>1. DecFar(r2) /\ AllBy(r2.pending, c)
    BY <1>2, DecAssumption DEF DecFar, AllBy, Past
  <2>2. QED
    BY <1>6, <2>1 DEF DecInv
<1>9. DecOrigin'
  <2> SUFFICES ASSUME NEW i \in DOMAIN evRows, evRows[i].call # "capture"
               PROVE  dcall'[evRows[i].call].at \in Past \cup {"failed"}
    BY <1>4 DEF DecOrigin
  <2>1. dcall[evRows[i].call].at \in Past \cup {"failed"}
    BY DEF DecOrigin, DecInv
  <2>2. evRows[i].call # c
    BY <1>4, <2>1 DEF NoDCall, Past
  <2>3. evRows[i].call \in DecCalls
    <3>1. evRows[i] \in DecRow
      BY ONLY <1>5, i \in DOMAIN evRows
    <3>2. QED
      BY ONLY <3>1, evRows[i].call # "capture" DEF DecRow
  <2>4. QED
    BY <1>6, <2>1, <2>2, <2>3
<1>10. \A b \in DecCalls : b # c => alone'[b] = (alone[b] /\ ~(dcall[b] # NoDCall /\ op = "decode"))
  BY ONLY <1>4
<1>11. DecLone'
  <2> SUFFICES ASSUME NEW b \in DecCalls, NEW o \in DecCalls, alone'[b], dcall'[b].op = "decode", o # b, dcall'[o].op = "decode"
               PROVE  ~Busy(o)'
    BY DEF DecLone
  <2>1. CASE b = c
    <3>1. dcall'[o] = dcall[o] /\ (~Busy(o) \/ dcall[o].op # "decode")
      BY <1>4, <1>6, <2>1
    <3>2. QED
      BY <3>1 DEF Busy
  <2>2. CASE b # c
    <3>1. dcall'[b] = dcall[b] /\ dcall[b].op = "decode" /\ dcall[b] # NoDCall /\ alone[b] /\ op # "decode"
      <4>1. dcall'[b] = dcall[b] /\ dcall[b].op = "decode"
        BY <1>6, <2>2
      <4>2. dcall[b] # NoDCall
        BY ONLY <4>1 DEF NoDCall
      <4>3. alone[b] /\ ~(dcall[b] # NoDCall /\ op = "decode")
        BY ONLY <1>10, <2>2, alone'[b]
      <4>4. QED
        BY ONLY <4>1, <4>2, <4>3
    <3>2. o # c
      BY <1>2, <1>6, <3>1
    <3>3. dcall'[o] = dcall[o] /\ dcall[o].op = "decode" /\ ~Busy(o)
      BY <1>6, <3>1, <3>2 DEF DecInv, DecLone
    <3>4. QED
      BY <3>3 DEF Busy
  <2>3. QED
    BY <2>1, <2>2
<1>12. taskRuns' => \A b \in DecCalls : dcall'[b].op # "decode"
  BY <1>2, <1>4, <1>6 DEF DecInv
<1>13. ASSUME NEW b \in DecCalls, dcall'[b].op = "decode", alone'[b], dcall'[b].at \in Past
       PROVE  DecExact(dcall'[b], evRows, b)
  <2>1. b # c
    BY <1>2, <1>6, <1>13 DEF Past
  <2>2. dcall'[b] = dcall[b] /\ alone[b]
    BY <1>6, <1>10, <1>13, <2>1
  <2>3. QED
    BY <1>13, <2>2 DEF DecInv
<1>14. QED
  BY <1>4, <1>7, <1>8, <1>9, <1>11, <1>12, <1>13 DEF DecInv

\* A step keeps the invariant.
LEMMA DecStep == DecInv /\ [DecNext]_decVars => DecInv'
<1> SUFFICES ASSUME DecInv, [DecNext]_decVars PROVE DecInv'
  OBVIOUS
<1>1. CASE RecordingEnds
  <2>1. PICK row \in DecRow : row = [call |-> "capture", n |-> 1]
    BY DEF DecRow
  <2>2. taskRuns /\ taskRuns' = FALSE /\ evRows' = <<row>> /\ dcall' = dcall /\ alone' = alone
    BY <1>1, <2>1 DEF RecordingEnds
  <2>3. \A b \in DecCalls : dcall[b].op # "decode"
    BY <2>2 DEF DecInv
  <2>4. DecTypes'
    <3>1. <<row>> \in Seq(DecRow)
      BY ONLY row \in DecRow
    <3>2. QED
      BY <2>2, <3>1 DEF DecInv, DecTypes
  <2>5. DecOrigin'
    <3>1. \A i \in DOMAIN <<row>> : <<row>>[i].call = "capture"
      BY <2>1
    <3>2. QED
      BY ONLY <2>2, <3>1 DEF DecOrigin
  <2>6. DecLone'
    BY <2>2, <2>3 DEF DecLone
  <2>7. QED
    BY <2>2, <2>3, <2>4, <2>5, <2>6 DEF DecInv
<1>2. ASSUME NEW c \in DecCalls,
             \/ \E op \in {"decode", "look"}, clear \in BOOLEAN : DecodeBegins(c, op, clear)
             \/ OpensStore(c) \/ QueriesBatch(c) \/ DecodesOne(c) \/ DecodeEnds(c) \/ TestPlugin(c) \/ GivesUp(c)
      PROVE  DecInv'
  BY <1>2, BeginsMove, OpensMove, QueriesMove, DecodesMove, EndsMove
<1>3. CASE UNCHANGED decVars
  BY <1>3 DEF decVars, DecInv, DecTypes, DecOrigin, DecLone, Busy
<1>4. QED
  BY <1>1, <1>2, <1>3 DEF DecNext

\* Nothing is decoded at first.
LEMMA DecStart == DecInit => DecInv
<1> SUFFICES ASSUME DecInit PROVE DecInv
  OBVIOUS
<1>1. /\ NoDCall.op = "none" /\ NoDCall.at = "idle" /\ NoDCall.next = 1 /\ NoDCall.batch = 0 /\ NoDCall.pending = <<>>
      /\ NoDCall.decodedN = {} /\ NoDCall.errs = {}
  BY DEF NoDCall
<1>2. NoDCall \in DecRec
  <2>1. <<>> \in Seq(DecRow) /\ {} \in SUBSET Nat
    BY ONLY SMT
  <2>2. PICK P \in Seq(DecRow), E \in SUBSET Nat : P = <<>> /\ E = {}
    BY ONLY <2>1
  <2>3. NoDCall = [op |-> "none", clear |-> FALSE, at |-> "idle", next |-> 1, batch |-> 0,
                   pending |-> P, changes |-> P, since |-> 0, decodedN |-> E, errs |-> E]
    BY ONLY <2>2 DEF NoDCall
  <2>4. QED
    BY ONLY <2>3, P \in Seq(DecRow), E \in SUBSET Nat DEF DecRec
<1>3. \A b \in DecCalls : dcall[b] = NoDCall
  BY DEF DecInit
<1>4. DecTypes
  <2>1. <<>> \in Seq(DecRow)
    BY ONLY SMT
  <2>2. QED
    BY ONLY <1>2, <2>1, DecInit DEF DecInit, DecTypes
<1>5. DecFar(NoDCall) /\ \A b \in DecCalls : AllBy(NoDCall.pending, b)
  BY <1>1, DecAssumption DEF DecFar, AllBy, Past
<1>6. DecOrigin
  BY DEF DecInit, DecOrigin
<1>7. QED
  BY <1>1, <1>3, <1>4, <1>5, <1>6 DEF DecInv, DecLone

\* Whatever the number of calls and packets, the size of a batch and the writes
\* that fail (DecodeRawPackets, forEachRawDecoded): a decode that reported success
\* and that no other overlapped or followed left one event for each packet it
\* decoded, in order.
THEOREM DecodedExactSafe == DecSpec => []DecodedExact
<1>1. DecInv => DecodedExact
  <2> SUFFICES ASSUME DecInv, NEW c \in DecCalls, dcall[c].op = "decode", dcall[c].at = "done", alone[c]
               PROVE  /\ \A i, j \in RowsOf(evRows, c) : i < j => evRows[i].n < evRows[j].n
                      /\ {evRows[i].n : i \in RowsOf(evRows, c)} = dcall[c].decodedN
                      /\ dcall[c].decodedN \cup dcall[c].errs = 1..DecPackets
                      /\ dcall[c].clear => RowsOf(evRows, c) = DOMAIN evRows
    BY DEF DecodedExact
  <2>1. DecFar(dcall[c]) /\ DecExact(dcall[c], evRows, c)
    BY DEF DecInv, Past
  <2>2. dcall[c].pending = <<>> /\ dcall[c].next = DecPackets + 1 /\ dcall[c].decodedN \cup dcall[c].errs = 1..(dcall[c].next - 1)
    BY <2>1 DEF DecFar, Past
  <2>3. evRows \o <<>> = evRows
    BY DEF DecInv, DecTypes
  <2>4. Exactly(evRows, c, dcall[c].decodedN) /\ (dcall[c].clear => AllBy(evRows, c))
    BY <2>1, <2>2, <2>3 DEF DecExact
  <2>5. \A i, j \in RowsOf(evRows, c) : i < j => evRows[i].n < evRows[j].n
    BY ONLY <2>4 DEF RowsOf, Exactly
  <2>6. {evRows[i].n : i \in RowsOf(evRows, c)} = dcall[c].decodedN
    BY ONLY <2>4 DEF RowsOf, Exactly
  <2>7. dcall[c].clear => RowsOf(evRows, c) = DOMAIN evRows
    BY ONLY <2>4 DEF RowsOf, AllBy
  <2>8. dcall[c].decodedN \cup dcall[c].errs = 1..DecPackets
    BY ONLY <2>2, DecAssumption DEF DecAssumption
  <2>9. QED
    BY <2>5, <2>6, <2>7, <2>8
<1>2. QED
  BY <1>1, DecStart, DecStep, PTL DEF DecSpec
=============================================================================
