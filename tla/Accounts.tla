------------------------------ MODULE Accounts ------------------------------
(***************************************************************************)
(* Identities of gt-mcp: the tokens of GT_AUTH_TOKENS, the users table that*)
(* self registration and invitations fill, access codes, and the resolver  *)
(* that turns a token into a name.  Tokens are numbers, drawn at random by *)
(* the code and therefore never used twice; handlers that check first and  *)
(* insert later do so in two steps.                                        *)
(***************************************************************************)
EXTENDS Naturals, Sequences

CONSTANTS
    Names,            \* valid user names (userOwnerPattern)
    EnvNames,         \* those of GT_AUTH_TOKENS; empty: no bootstrap identity
    Codes,            \* access codes
    AccCallers,       \* requests in progress at one time
    Anonymous,        \* the identity "local"
    NoName,           \* the empty name
    MaxTokens         \* bound: tokens issued in all

ASSUME AccAssumption == EnvNames \subseteq Names /\ Anonymous \notin Names /\ NoName \notin Names

VARIABLES
    users,        \* the users table: name -> token, 0 when there is no row
    codes,        \* access_codes: code -> [by, new, expired, claimed], by = NoName when unused
    acalls,       \* requests in progress: caller -> [op, name, code, token]
    issued,       \* ghost: token -> the name it was given out for
    revoked,      \* ghost: tokens of revoked users
    starts        \* sessions opened by claims, for the bound and the handler's tail

accVars == <<users, codes, acalls, issued, revoked, starts>>

AccIdle == [op |-> "none", name |-> NoName, code |-> NoName, token |-> 0]
NoCode == [by |-> NoName, new |-> NoName, expired |-> FALSE, claimed |-> FALSE]

AccInit ==
    /\ users = [n \in Names |-> 0]
    /\ codes = [k \in Codes |-> NoCode]
    /\ acalls = [c \in AccCallers |-> AccIdle]
    /\ issued = <<>>
    /\ revoked = {}
    /\ starts = 0

-----------------------------------------------------------------------------
\* Resolving: a bootstrap token (written as its name), then the users table,
\* then, when no identity exists at all, everybody is Anonymous.

StaticRequired == EnvNames # {}
HasUsers == \E n \in Names : users[n] # 0
HasOwner(n) == n \in EnvNames
Required == StaticRequired \/ HasUsers

DBResolve(t) == {n \in Names : users[n] = t /\ t # 0}

\* The set of names the resolver may answer for an issued token.
Resolve(t) ==
    IF DBResolve(t) # {} THEN DBResolve(t)
    ELSE IF Required THEN {} ELSE {Anonymous}

OwnerExists(n) == users[n] # 0

\* list_users and list_access_codes: what an administrator is shown.
handleListUsers == {n \in Names : OwnerExists(n)} \cup EnvNames
listForOwner(u) == {k \in Codes : codes[k].by = u}

-----------------------------------------------------------------------------
AccReturns(c) == acalls' = [acalls EXCEPT ![c] = AccIdle]

\* A row with a token nobody has had before.
Insert(n) ==
    /\ users' = [users EXCEPT ![n] = Len(issued) + 1]
    /\ issued' = Append(issued, n)

\* Mutant: the insert replaces the row of a user who is already there.
CreateUser_Replaces(n) == Insert(n)

\* INSERT INTO users: the name is the primary key, so a second one fails.
CreateUser(n) == ~OwnerExists(n) /\ Insert(n)

\* POST /register: bootstrap names and names taken are refused.
RegisterChecks(c, n) ==
    /\ acalls[c] = AccIdle
    /\ ~HasOwner(n) /\ ~OwnerExists(n)
    /\ acalls' = [acalls EXCEPT ![c] = [AccIdle EXCEPT !.op = "register", !.name = n]]
    /\ UNCHANGED <<users, codes, issued, revoked, starts>>

handleRegister(c) ==
    /\ acalls[c].op = "register"
    /\ AccReturns(c)
    /\ \/ Len(issued) < MaxTokens /\ CreateUser(acalls[c].name)
       \/ OwnerExists(acalls[c].name) /\ UNCHANGED <<users, issued>>
    /\ UNCHANGED <<codes, revoked, starts>>

\* create_access_code: for oneself, or an invitation for a name no user has.
handleCreateAccessCode(k, by, new) ==
    /\ codes[k].by = NoName
    /\ OwnerExists(by) \/ HasOwner(by)
    /\ new # NoName => ~OwnerExists(new)
    /\ codes' = [codes EXCEPT ![k] = [NoCode EXCEPT !.by = by, !.new = new]]
    /\ UNCHANGED <<users, acalls, issued, revoked, starts>>

CodeExpires(k) ==
    /\ codes[k].by # NoName /\ ~codes[k].expired
    /\ codes' = [codes EXCEPT ![k].expired = TRUE]
    /\ UNCHANGED <<users, acalls, issued, revoked, starts>>

\* GET /access/claim: the code is read and its expiry checked; whether it has
\* been claimed before is not asked.
ClaimReads(c, k) ==
    /\ acalls[c] = AccIdle
    /\ codes[k].by # NoName /\ ~codes[k].expired
    /\ acalls' = [acalls EXCEPT ![c] = [AccIdle EXCEPT !.op = IF codes[k].new = NoName THEN "start" ELSE "invite",
                                                       !.name = IF codes[k].new = NoName THEN codes[k].by ELSE codes[k].new,
                                                       !.code = k]]
    /\ UNCHANGED <<users, codes, issued, revoked, starts>>

\* An invitation makes the new identity before the session is opened.
ClaimInvites(c) ==
    LET n == acalls[c].name IN
    /\ acalls[c].op = "invite"
    /\ \/ /\ Len(issued) < MaxTokens
          /\ CreateUser(n)
          /\ acalls' = [acalls EXCEPT ![c].op = "start", ![c].token = users'[n]]
       \/ OwnerExists(n) /\ AccReturns(c) /\ UNCHANGED <<users, issued>>
    /\ UNCHANGED <<codes, revoked, starts>>

\* StartCapture may fail: the claim then ends without the token being told.
ClaimStarts(c) ==
    /\ acalls[c].op = "start"
    /\ \/ /\ starts < MaxTokens
          /\ starts' = starts + 1
          /\ acalls' = [acalls EXCEPT ![c].op = "mark"]
       \/ AccReturns(c) /\ UNCHANGED starts
    /\ UNCHANGED <<users, codes, issued, revoked>>

handleAccessClaim(c) ==
    /\ acalls[c].op = "mark"
    /\ codes' = [codes EXCEPT ![acalls[c].code].claimed = TRUE]
    /\ AccReturns(c)
    /\ UNCHANGED <<users, issued, revoked, starts>>

\* revoke_user by a global administrator, never of himself (by need not be a
\* user of the table: bootstrap tokens are the only administrators).
handleRevokeUser(by, n) ==
    /\ HasOwner(by) /\ by # n
    /\ OwnerExists(n)
    /\ revoked' = revoked \cup {users[n]}
    /\ users' = [users EXCEPT ![n] = 0]
    /\ UNCHANGED <<codes, acalls, issued, starts>>

\* A new process keeps both tables and loses the requests in progress.
AccRestart ==
    /\ acalls' = [c \in AccCallers |-> AccIdle]
    /\ acalls' # acalls
    /\ UNCHANGED <<users, codes, issued, revoked, starts>>

AccNext ==
    \/ \E c \in AccCallers :
          \/ \E n \in Names : RegisterChecks(c, n)
          \/ \E k \in Codes : ClaimReads(c, k)
          \/ handleRegister(c) \/ ClaimInvites(c) \/ ClaimStarts(c) \/ handleAccessClaim(c)
    \/ \E k \in Codes : \/ CodeExpires(k)
                        \/ \E by \in Names, new \in Names \cup {NoName} : handleCreateAccessCode(k, by, new)
    \/ \E by, n \in Names : handleRevokeUser(by, n)
    \/ AccRestart

AccSpec == AccInit /\ [][AccNext]_accVars

-----------------------------------------------------------------------------
\* A token speaks for the name it was issued for until that name is revoked,
\* and afterwards never again, also when the name is registered anew: whatever
\* registrations, invitations and claims of one code overlap (user_store.go,
\* dbresolver.go).
TokensKept ==
    \A t \in DOMAIN issued :
        IF t \in revoked THEN Resolve(t) \subseteq {Anonymous} ELSE Resolve(t) = {issued[t]}

=============================================================================
