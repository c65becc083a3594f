--------------------------- MODULE AdmissionProofs ---------------------------
(***************************************************************************)
(* The invariants of Admission for every set of users, requests and        *)
(* operators, with or without failures.                                    *)
(***************************************************************************)
EXTENDS Admission, TLAPS

-----------------------------------------------------------------------------
(* What a step does to the records of the requests.                        *)

Others(r) == \A q \in Requests : q # r => req'[q] = req[q]
SameAim(r) == req'[r].user = req[r].user /\ req'[r].asked = req[r].asked

\* An idle request is a request.
LEMMA IdleReqType == IdleReq \in Req
BY DEF IdleReq, Req, Stages, Workflows, Reasons

\* Advance moves one request to another stage and leaves what it knows.
LEMMA AdvanceReq ==
  ASSUME TypeOK, NEW r \in Requests, NEW s \in Stages, Advance(r, s)
  PROVE  /\ req' \in [Requests -> Req] /\ Others(r) /\ SameAim(r)
         /\ req'[r].stage = s
         /\ req'[r].company = req[r].company /\ req'[r].role = req[r].role
         /\ req'[r].star = req[r].star /\ req'[r].workflow = req[r].workflow
<1>1. req \in [Requests -> Req] /\ req[r] \in Req
  BY DEF TypeOK
<1>2. req' = [req EXCEPT ![r] = [req[r] EXCEPT !.stage = s]]
  BY DEF Advance
<1>3. [req[r] EXCEPT !.stage = s] \in Req
  BY <1>1 DEF Req
<1> QED BY <1>1, <1>2, <1>3 DEF Req, Others, SameAim

\* Refuse ends one request with a reason and leaves its company.
LEMMA RefuseReq ==
  ASSUME TypeOK, NEW r \in Requests, NEW e \in Reasons, Refuse(r, e)
  PROVE  /\ req' \in [Requests -> Req] /\ Others(r) /\ SameAim(r)
         /\ req'[r].stage = "refused" /\ req'[r].reason = e
         /\ req'[r].company = req[r].company
<1>1. req \in [Requests -> Req] /\ req[r] \in Req
  BY DEF TypeOK
<1>2. req' = [req EXCEPT ![r] = [req[r] EXCEPT !.stage = "refused", !.reason = e]]
  BY DEF Refuse
<1>3. [req[r] EXCEPT !.stage = "refused", !.reason = e] \in Req
  BY <1>1 DEF Req, Stages
<1> QED BY <1>1, <1>2, <1>3 DEF Req, Others, SameAim

\* Enter gives one request its company.
LEMMA EnterReq ==
  ASSUME TypeOK, NEW r \in Requests, NEW c \in Users, Enter(r, c)
  PROVE  /\ req' \in [Requests -> Req] /\ Others(r) /\ SameAim(r)
         /\ req'[r].stage = "sub" /\ req'[r].company = c
<1>1. req \in [Requests -> Req] /\ req[r] \in Req
  BY DEF TypeOK
<1>2. req' = [req EXCEPT ![r] = [req[r] EXCEPT !.stage = "sub", !.company = c]]
  BY DEF Enter
<1>3. [req[r] EXCEPT !.stage = "sub", !.company = c] \in Req
  BY <1>1 DEF Req, Stages
<1> QED BY <1>1, <1>2, <1>3 DEF Req, Others, SameAim

\* A request that is answered is idle again.
LEMMA EndReq ==
  ASSUME TypeOK, NEW r \in Requests, req' = [req EXCEPT ![r] = IdleReq]
  PROVE  req' \in [Requests -> Req] /\ Others(r) /\ req'[r].stage = "idle"
BY IdleReqType DEF TypeOK, Others, IdleReq

\* The steps of a request, by what they leave in its record.  Every property
\* below is proved from this summary instead of from the actions.
Found(r, c) == role[req[r].user][c] # "none" /\ c \notin closed

Summary(r) ==
    \/ /\ req'[r].stage = "idle"
    \/ /\ At(r, "idle") /\ req'[r].stage = "user" /\ req'[r].user \in Users
    \/ /\ At(r, "user") /\ req'[r].stage = "company" /\ SameAim(r)
       /\ req[r].user \notin off
    \/ /\ At(r, "company") /\ req'[r].stage = "sub" /\ SameAim(r)
       /\ req'[r].company \in Users /\ Found(r, req'[r].company)
    \/ /\ At(r, "sub") /\ req'[r].stage = "perm" /\ SameAim(r)
       /\ req'[r].company = req[r].company /\ sub[req[r].company] \notin Blocked
    \/ /\ At(r, "perm") /\ req'[r].stage = "run" /\ SameAim(r)
       /\ req'[r].company = req[r].company
       /\ req'[r].role = role[req[r].user][req[r].company]
       /\ req'[r].star => \/ <<req[r].user, req[r].company>> \in star
                          \/ req'[r].role = "owner"
    \/ /\ req[r].stage \in Resolved /\ req'[r].stage \in Written /\ SameAim(r)
       /\ req'[r].company = req[r].company /\ req'[r].role = req[r].role
       /\ req'[r].star = req[r].star /\ req'[r].workflow = req[r].workflow
       /\ \/ req[r].stage \in Written
          \/ req[r].workflow = "read"
          \/ req[r].workflow = "blueprint" /\ req[r].role = "owner"
          \/ req[r].workflow = "member" /\ Admins(r)
    \/ /\ req[r].stage \notin {"idle", "refused"} /\ req'[r].stage = "refused" /\ SameAim(r)
       /\ req'[r].reason = "user" => req[r].user \in off
       /\ req'[r].reason = "company" =>
             \E c \in Users : c \in closed /\ req[r].asked \in {c, NoOne}
       /\ req'[r].reason = "subscription" =>
             /\ At(r, "sub")
             /\ req'[r].company = req[r].company
             /\ sub[req[r].company] \in Blocked

\* The summary is what every action of a request amounts to.
LEMMA RequestSummary ==
  ASSUME TypeOK, NEW r \in Requests, Begin(r) \/ RequestStep(r)
  PROVE  Summary(r) /\ Others(r) /\ req' \in [Requests -> Req]
<1>0. req \in [Requests -> Req] /\ req[r] \in Req
  BY DEF TypeOK
<1>1. CASE Begin(r)
  <2>1. PICK u \in identity, asked \in companies \cup {NoOne}, w \in Workflows :
           req' = [req EXCEPT ![r] = [IdleReq EXCEPT !.stage = "user", !.user = u,
                                                     !.asked = asked, !.workflow = w]]
    BY <1>1 DEF Begin
  <2>2. u \in Users /\ asked \in Users \cup {NoOne}
    BY DEF TypeOK
  <2>3. [IdleReq EXCEPT !.stage = "user", !.user = u, !.asked = asked, !.workflow = w] \in Req
    BY <2>2, IdleReqType DEF Req, Stages
  <2>4. [IdleReq EXCEPT !.stage = "user", !.user = u, !.asked = asked, !.workflow = w].stage = "user"
    BY DEF IdleReq
  <2>5. [IdleReq EXCEPT !.stage = "user", !.user = u, !.asked = asked, !.workflow = w].user = u
    BY DEF IdleReq
  <2>6. req'[r].stage = "user" /\ req'[r].user = u
    BY <1>0, <2>1, <2>4, <2>5
  <2>7. Others(r) /\ req' \in [Requests -> Req]
    BY <1>0, <2>1, <2>3 DEF Others
  <2> QED BY <1>1, <2>2, <2>6, <2>7 DEF Begin, Summary
<1>2. CASE ReadUser(r)
  <2>1. CASE req[r].user \in off
    <3>1. Refuse(r, "user") /\ At(r, "user")
      BY <1>2, <2>1 DEF ReadUser
    <3> QED BY <2>1, <3>1, RefuseReq DEF Summary, Reasons, At
  <2>2. CASE req[r].user \notin off
    <3>1. Advance(r, "company") /\ At(r, "user")
      BY <1>2, <2>2 DEF ReadUser
    <3> QED BY <2>2, <3>1, AdvanceReq DEF Summary, Stages, At
  <2> QED BY <2>1, <2>2
<1>3. CASE ReadCompanyAsked(r)
  <2> DEFINE c == req[r].asked
  <2>1. At(r, "company") /\ c \in Users
    BY <1>0, <1>3 DEF ReadCompanyAsked, Req
  <2>2. CASE c \notin Memberships(req[r].user)
    <3>1. Refuse(r, "stranger")
      BY <1>3, <2>2 DEF ReadCompanyAsked
    <3> QED BY <2>1, <3>1, RefuseReq DEF Summary, Reasons, At
  <2>3. CASE c \in Memberships(req[r].user) /\ c \in closed
    <3>1. Refuse(r, "company")
      BY <1>3, <2>3 DEF ReadCompanyAsked
    <3> QED BY <2>1, <2>3, <3>1, RefuseReq DEF Summary, Reasons, At
  <2>4. CASE c \in Memberships(req[r].user) /\ c \notin closed
    <3>1. Enter(r, c)
      BY <1>3, <2>4 DEF ReadCompanyAsked
    <3>2. Found(r, c)
      BY <2>4 DEF Found, Memberships
    <3> QED BY <2>1, <3>1, <3>2, EnterReq DEF Summary, At
  <2> QED BY <2>2, <2>3, <2>4
<1>4. CASE ReadCompanyAny(r)
  <2> DEFINE mine == Memberships(req[r].user)
  <2>1. At(r, "company") /\ req[r].asked = NoOne
    BY <1>4 DEF ReadCompanyAny
  <2>2. \/ Refuse(r, "stranger") \/ Refuse(r, "ambiguous")
        \/ mine # {} /\ mine \ closed = {} /\ Refuse(r, "company")
        \/ \E c \in mine \ closed : Enter(r, c)
    BY <1>4 DEF ReadCompanyAny
  <2>3. CASE Refuse(r, "stranger")
    BY <2>1, <2>3, RefuseReq DEF Summary, Reasons, At
  <2>4. CASE Refuse(r, "ambiguous")
    BY <2>1, <2>4, RefuseReq DEF Summary, Reasons, At
  <2>5. CASE mine # {} /\ mine \ closed = {} /\ Refuse(r, "company")
    <3>1. \E c \in Users : c \in closed
      BY <2>5 DEF Memberships
    <3> QED BY <2>1, <2>5, <3>1, RefuseReq DEF Summary, Reasons, At
  <2>6. CASE \E c \in mine \ closed : Enter(r, c)
    <3>1. PICK c \in mine \ closed : Enter(r, c)
      BY <2>6
    <3>2. c \in Users /\ Found(r, c)
      BY DEF Memberships, Found
    <3> QED BY <2>1, <3>1, <3>2, EnterReq DEF Summary, At
  <2> QED BY <2>2, <2>3, <2>4, <2>5, <2>6
<1>5. CASE ReadSubscription(r)
  <2>1. CASE sub[req[r].company] \in Blocked
    <3>1. Refuse(r, "subscription") /\ At(r, "sub")
      BY <1>5, <2>1 DEF ReadSubscription
    <3> QED BY <2>1, <3>1, RefuseReq DEF Summary, Reasons, At
  <2>2. CASE sub[req[r].company] \notin Blocked
    <3>1. Advance(r, "perm") /\ At(r, "sub")
      BY <1>5, <2>2 DEF ReadSubscription
    <3> QED BY <2>2, <3>1, AdvanceReq DEF Summary, Stages, At
  <2> QED BY <2>1, <2>2
<1>6. CASE ReadPermissions(r)
  <2> DEFINE u == req[r].user
             c == req[r].company
             new == [req[r] EXCEPT !.stage = "run", !.role = role[u][c],
                                   !.star = <<u, c>> \in star \/ role[u][c] = "owner"]
  <2>1. At(r, "perm") /\ req' = [req EXCEPT ![r] = new]
    BY <1>6 DEF ReadPermissions
  <2>2. u \in Users /\ c \in Users
    BY <2>1 DEF TypeOK, At, Entered
  <2>3. role[u][c] \in Roles \cup {"none"}
    BY <2>2 DEF TypeOK
  <2>4. new \in Req
    BY <1>0, <2>3 DEF Req, Stages
  <2>5. /\ new.stage = "run" /\ new.user = req[r].user /\ new.asked = req[r].asked
        /\ new.company = c /\ new.role = role[u][c]
        /\ new.star = (<<u, c>> \in star \/ role[u][c] = "owner")
    BY <1>0 DEF Req
  <2>6. req'[r] = new /\ Others(r) /\ req' \in [Requests -> Req]
    BY <1>0, <2>1, <2>4 DEF Others
  <2> HIDE DEF new
  <2> QED BY <2>1, <2>5, <2>6 DEF Summary, SameAim
<1>7. CASE RunRead(r)
  <2>1. At(r, "run")
    BY <1>7 DEF RunRead
  <2>2. \/ req[r].workflow = "read" /\ Advance(r, "audit")
        \/ Refuse(r, "forbidden") \/ Refuse(r, "unknown")
    BY <1>7 DEF RunRead
  <2>3. CASE req[r].workflow = "read" /\ Advance(r, "audit")
    BY <2>1, <2>3, AdvanceReq DEF Summary, Stages, At, Resolved, Written
  <2>4. CASE Refuse(r, "forbidden")
    BY <2>1, <2>4, RefuseReq DEF Summary, Reasons, At
  <2>5. CASE Refuse(r, "unknown")
    BY <2>1, <2>5, RefuseReq DEF Summary, Reasons, At
  <2> QED BY <2>2, <2>3, <2>4, <2>5
<1>8. CASE RunBlueprint(r) \/ RunAddMember(r)
  <2>1. At(r, "run") /\ Advance(r, "announce")
    BY <1>8 DEF RunBlueprint, RunAddMember
  <2>2. \/ req[r].workflow = "blueprint" /\ req[r].role = "owner"
        \/ req[r].workflow = "member" /\ Admins(r)
    BY <1>8 DEF RunBlueprint, RunAddMember
  <2> QED BY <2>1, <2>2, AdvanceReq DEF Summary, Stages, At, Resolved, Written
<1>9. CASE Announce(r)
  <2>1. At(r, "announce") /\ Advance(r, "audit")
    BY <1>9 DEF Announce
  <2> QED BY <2>1, AdvanceReq DEF Summary, Stages, At, Resolved, Written
<1>10. CASE Audit(r) \/ Answer(r)
  BY <1>10, EndReq DEF Audit, Answer, Summary
<1>11. CASE FailRequest(r)
  <2>1. req[r].stage \notin {"idle", "refused"}
    BY <1>11 DEF FailRequest
  <2>2. Refuse(r, "unaudited") \/ Refuse(r, "error")
    BY <1>11 DEF FailRequest
  <2> QED BY <2>1, <2>2, RefuseReq DEF Summary, Reasons
<1> QED BY <1>1, <1>2, <1>3, <1>4, <1>5, <1>6, <1>7, <1>8, <1>9, <1>10, <1>11 DEF RequestStep

-----------------------------------------------------------------------------
(* Types.                                                                  *)

\* What the steps of signup and of the operators leave alone.
LEMMA OutsideRequests ==
  ASSUME TypeOK, (\E u \in Users : SignupStep(u)) \/ AdminStep
  PROVE  req' = req
BY DEF SignupStep, CreateIdentity, Onboard, FinishSignup, FailSignup, AdminStep, Change,
       SetUserStatus, SetCompanyStatus, Cancel, Expire, InsertGrant, BeginGrant

\* The tables are only written by signup, add_member and the operators.
LEMMA RequestTables ==
  ASSUME NEW r \in Requests, Begin(r) \/ RequestStep(r)
  PROVE  /\ UNCHANGED <<identity, account, companies, off, closed, sub, signup, grant>>
         /\ \/ UNCHANGED <<role, star>>
            \/ RunAddMember(r)
BY DEF Begin, RequestStep, ReadUser, ReadCompanyAsked, ReadCompanyAny, ReadSubscription,
       ReadPermissions, RunRead, RunBlueprint, RunAddMember, Announce, Audit, Answer,
       FailRequest, tables

\* Requests keep the bound on changes.
LEMMA RequestChanges ==
  ASSUME TypeOK, NEW r \in Requests, Begin(r) \/ RequestStep(r)
  PROVE  changes' \in 0 .. MaxChanges
<1>1. changes \in 0 .. MaxChanges
  BY DEF TypeOK
<1>2. CASE Begin(r)
  <2>1. PICK w \in Workflows : /\ w = "member" => changes < MaxChanges
                               /\ changes' = changes + (IF w = "member" THEN 1 ELSE 0)
    BY <1>2 DEF Begin
  <2> QED BY <1>1, <2>1, ChangesAssumption
<1>3. CASE RequestStep(r)
  BY <1>1, <1>3 DEF RequestStep, ReadUser, ReadCompanyAsked, ReadCompanyAny, ReadSubscription,
       ReadPermissions, RunRead, RunBlueprint, RunAddMember, Announce, Audit, Answer,
       FailRequest
<1> QED BY <1>2, <1>3

\* A membership gets a role and never loses it: there is no DELETE.
RoleTyped == role \in [Users -> [Users -> Roles \cup {"none"}]]
Joined(u, c) == role[u][c] # "none"
NobodyLeaves == \A u, c \in Users : Joined(u, c) => Joined(u, c)'

\* add_member's write adds or changes one membership and removes none.
LEMMA RoleUpdate ==
  ASSUME RoleTyped, NEW u \in Users, NEW c \in Users, NEW new \in Roles,
         role' = [role EXCEPT ![u][c] = new]
  PROVE  RoleTyped' /\ NobodyLeaves /\ Joined(u, c)'
<1>1. role' = [role EXCEPT ![u] = [role[u] EXCEPT ![c] = new]]
  OBVIOUS
<1>2. role[u] \in [Users -> Roles \cup {"none"}]
  BY DEF RoleTyped
<1>3. [role[u] EXCEPT ![c] = new] \in [Users -> Roles \cup {"none"}]
  BY <1>2
<1>4. RoleTyped'
  BY <1>1, <1>3 DEF RoleTyped
<1>5. new # "none"
  BY DEF Roles
<1>6. \A v \in Users : v # u => role'[v] = role[v]
  BY <1>1 DEF RoleTyped
<1>7. role'[u] = [role[u] EXCEPT ![c] = new]
  BY <1>1 DEF RoleTyped
<1>8. \A d \in Users : role'[u][d] = IF d = c THEN new ELSE role[u][d]
  BY <1>2, <1>7
<1> QED BY <1>4, <1>5, <1>6, <1>8 DEF NobodyLeaves, Joined

\* Leaving the memberships alone removes none either.
LEMMA RoleSame == ASSUME RoleTyped, role' = role PROVE RoleTyped' /\ NobodyLeaves
BY DEF RoleTyped, NobodyLeaves, Joined

StarTyped == star \subseteq Users \X Users

\* No step of the system removes a membership, and "*" is stored for users in companies.
LEMMA RoleStep == ASSUME TypeOK, Next PROVE RoleTyped' /\ NobodyLeaves /\ StarTyped'
<1>0. RoleTyped /\ StarTyped
  BY DEF TypeOK, RoleTyped, StarTyped
<1>1. CASE \E u \in Users : SignupStep(u)
  <2>1. PICK u \in Users : SignupStep(u)
    BY <1>1
  <2>2. CASE Onboard(u)
    <3>1. role' = [role EXCEPT ![u][u] = "owner"] /\ star' = star \cup {<<u, u>>}
      BY <2>2 DEF Onboard
    <3>2. "owner" \in Roles
      BY DEF Roles
    <3>3. StarTyped'
      BY <1>0, <3>1 DEF StarTyped
    <3> QED BY <1>0, <3>1, <3>2, <3>3, RoleUpdate
  <2>3. CASE ~Onboard(u)
    <3>1. role' = role /\ star' = star
      BY <2>1, <2>3 DEF SignupStep, CreateIdentity, FinishSignup, FailSignup, tables
    <3> QED BY <1>0, <3>1, RoleSame DEF StarTyped
  <2> QED BY <2>2, <2>3
<1>2. CASE AdminStep
  <2>1. role' = role /\ star' = star
    BY <1>2 DEF AdminStep, Change, SetUserStatus, SetCompanyStatus, Cancel, Expire,
                InsertGrant, BeginGrant
  <2> QED BY <1>0, <2>1, RoleSame DEF StarTyped
<1>3. CASE \E r \in Requests : Begin(r) \/ RequestStep(r)
  <2>1. PICK r \in Requests : Begin(r) \/ RequestStep(r)
    BY <1>3
  <2>2. CASE role' = role /\ star' = star
    BY <1>0, <2>2, RoleSame DEF StarTyped
  <2>3. CASE RunAddMember(r)
    <3> DEFINE c == req[r].company
    <3>1. c \in Users
      BY <2>3 DEF TypeOK, RunAddMember, At, Entered
    <3>2. PICK u \in account, new \in Roles :
             /\ role' = [role EXCEPT ![u][c] = new]
             /\ star' = IF role[u][c] = "none" /\ new = "owner"
                        THEN star \cup {<<u, c>>} ELSE star
      BY <2>3 DEF RunAddMember
    <3>3. u \in Users
      BY DEF TypeOK
    <3>4. StarTyped'
      BY <1>0, <3>1, <3>2, <3>3 DEF StarTyped
    <3> QED BY <1>0, <3>1, <3>2, <3>3, <3>4, RoleUpdate
  <2> QED BY <2>1, <2>2, <2>3, RequestTables
<1> QED BY <1>1, <1>2, <1>3 DEF Next

\* The record of a request keeps a user once it has begun, and a company once
\* it has entered one.
Aimed(r) == /\ req[r].stage # "idle" => req[r].user \in Users
            /\ req[r].stage \in Entered => req[r].company \in Users

\* Every step leaves well-formed requests, each with a user and, once entered, a company.
LEMMA RecordsTyped ==
  ASSUME TypeOK, Next
  PROVE  req' \in [Requests -> Req] /\ \A r \in Requests : Aimed(r)'
<1>0. req \in [Requests -> Req] /\ \A q \in Requests : Aimed(q)
  BY DEF TypeOK, Aimed
<1>1. CASE req' = req
  BY <1>0, <1>1 DEF Aimed
<1>2. CASE \E r \in Requests : Begin(r) \/ RequestStep(r)
  <2>1. PICK r \in Requests : Begin(r) \/ RequestStep(r)
    BY <1>2
  <2>2. Summary(r) /\ Others(r) /\ req' \in [Requests -> Req]
    BY <2>1, RequestSummary
  <2>3. Aimed(r)'
    BY <1>0, <2>2 DEF Summary, SameAim, Aimed, At, Entered, Resolved, Written
  <2>4. ASSUME NEW q \in Requests, q # r PROVE Aimed(q)'
    <3>1. req'[q] = req[q]
      BY <2>2, <2>4 DEF Others
    <3> QED BY <1>0, <3>1 DEF Aimed
  <2> QED BY <2>2, <2>3, <2>4
<1> QED BY <1>1, <1>2, OutsideRequests DEF Next

\* Types hold when the tables are empty.
LEMMA TypesInit == Init => TypeOK
BY IdleReqType, ChangesAssumption DEF Init, TypeOK, IdleReq, Entered, Blocked

\* Types are inductive on their own.
LEMMA TypesStep == ASSUME TypeOK, [Next]_vars PROVE TypeOK'
<1>1. CASE UNCHANGED vars
  BY <1>1 DEF TypeOK, vars, tables
<1>2. CASE Next
  <2>1. RoleTyped' /\ StarTyped'
    BY <1>2, RoleStep
  <2>2. req' \in [Requests -> Req] /\ \A r \in Requests : Aimed(r)'
    BY <1>2, RecordsTyped
  <2>3. /\ identity' \subseteq Users /\ account' \subseteq Users /\ companies' \subseteq Users
        /\ off' \subseteq Users /\ closed' \subseteq Users
        /\ sub' \in [Users -> {"none", "active"} \cup Blocked]
        /\ signup' \in [Users -> {"none", "identity", "onboarded", "done", "failed"}]
        /\ grant' \in [Operators -> Users \cup {NoOne}]
        /\ changes' \in 0 .. MaxChanges
    <3>1. CASE \E u \in Users : SignupStep(u)
      BY <3>1 DEF TypeOK, SignupStep, CreateIdentity, Onboard, FinishSignup, FailSignup, tables
    <3>2. CASE AdminStep
      <4>1. CASE \E u \in Users : SetUserStatus(u) \/ SetCompanyStatus(u)
        BY <4>1, ChangesAssumption DEF TypeOK, Change, SetUserStatus, SetCompanyStatus
      <4>2. CASE \E u \in Users : Cancel(u) \/ Expire(u)
        BY <4>2, ChangesAssumption DEF TypeOK, Change, Cancel, Expire, Blocked
      <4>3. CASE \E o \in Operators : InsertGrant(o)
        <5>1. PICK o \in Operators : InsertGrant(o)
          BY <4>3
        <5>2. grant[o] \in Users
          BY <5>1 DEF TypeOK, InsertGrant
        <5> QED BY <5>1, <5>2 DEF TypeOK, InsertGrant
      <4>4. CASE \E o \in Operators, c \in Users : BeginGrant(o, c)
        BY <4>4, ChangesAssumption DEF TypeOK, Change, BeginGrant
      <4> QED BY <3>2, <4>1, <4>2, <4>3, <4>4 DEF AdminStep
    <3>3. CASE \E r \in Requests : Begin(r) \/ RequestStep(r)
      BY <3>3, RequestTables, RequestChanges DEF TypeOK
    <3> QED BY <1>2, <3>1, <3>2, <3>3 DEF Next
  <2> QED BY <2>1, <2>2, <2>3 DEF TypeOK, RoleTyped, StarTyped, Aimed
<1> QED BY <1>1, <1>2

\* Types hold, and a request past the resolver always has a company.
THEOREM TypesHold == Spec => []TypeOK
BY TypesInit, TypesStep, PTL DEF Spec

-----------------------------------------------------------------------------
(* What the history variables stand for.                                   *)

\* Facts(u), read fact by fact.
Meaning ==
    \A u, c \in Users :
        /\ <<"user", u>> \in Facts(u) <=> u \in off
        /\ <<"company", c>> \in Facts(u) <=> c \in closed
        /\ <<"lapsed", c>> \in Facts(u) <=> sub[c] \in Blocked
        /\ Joined(u, c) => <<role[u][c], c>> \in Facts(u)
        /\ <<u, c>> \in star => <<"star", c>> \in Facts(u)

\* Facts(u) says no more and no less than the tables do.
LEMMA FactsMeaning == TypeOK => Meaning
<1> SUFFICES ASSUME TypeOK, NEW u \in Users, NEW c \in Users
             PROVE  /\ <<"user", u>> \in Facts(u) <=> u \in off
                    /\ <<"company", c>> \in Facts(u) <=> c \in closed
                    /\ <<"lapsed", c>> \in Facts(u) <=> sub[c] \in Blocked
                    /\ Joined(u, c) => <<role[u][c], c>> \in Facts(u)
                    /\ <<u, c>> \in star => <<"star", c>> \in Facts(u)
  BY DEF Meaning
<1>1. \A d \in Memberships(u) : role[u][d] \in Roles
  BY DEF TypeOK, Memberships
<1>2. \A d \in Memberships(u) : role[u][d] \notin {"user", "company", "lapsed", "star"}
  BY <1>1 DEF Roles
<1>3. closed \subseteq Users
  BY DEF TypeOK
<1> QED BY <1>2, <1>3 DEF Facts, Memberships, Joined

\* From one state of a request to the next: "always" can only lose facts and
\* "ever" only gain them, and both took the present ones into account.
LEMMA WatchLasting ==
  ASSUME NEW r \in Requests, NEW u \in Users, Watch,
         req[r].stage # "idle", req'[r].stage # "idle", req'[r].user = u
  PROVE  /\ always'[r] = always[r] \cap Facts(u)'
         /\ ever'[r] = ever[r] \cup Facts(u)'
BY DEF Watch, At

\* The history of a request begins with what holds at its first step.
LEMMA WatchBegins ==
  ASSUME NEW r \in Requests, NEW u \in Users, Watch,
         req[r].stage = "idle", req'[r].stage # "idle", req'[r].user = u
  PROVE  always'[r] = Facts(u)' /\ Facts(u)' \subseteq ever'[r]
BY DEF Watch, At

-----------------------------------------------------------------------------
(* The invariant of one request: at every stage, what its reads have        *)
(* established so far.                                                      *)

Watched(r) ==
    \A u \in Users : req[r].user = u => /\ always[r] \subseteq Facts(u)
                                        /\ Facts(u) \subseteq ever[r]

UserRead(r) ==
    req[r].stage \in Entered \cup {"company"} => <<"user", req[r].user>> \notin always[r]

CompanyRead(r) ==
    req[r].stage \in Entered => /\ <<"company", req[r].company>> \notin always[r]
                                /\ Joined(req[r].user, req[r].company)

SubscriptionRead(r) ==
    req[r].stage \in Admitted => <<"lapsed", req[r].company>> \notin always[r]

PermissionsRead(r) ==
    req[r].stage \in Resolved =>
        /\ <<req[r].role, req[r].company>> \in ever[r]
        /\ req[r].star => \/ <<"star", req[r].company>> \in ever[r]
                          \/ req[r].role = "owner"

GuardPassed(r) ==
    req[r].stage \in Written =>
        \/ req[r].workflow = "read"
        \/ req[r].workflow = "blueprint" /\ req[r].role = "owner"
        \/ req[r].workflow = "member" /\ Admins(r)

RequestInv(r) ==
    req[r].stage # "idle" =>
        /\ Watched(r) /\ UserRead(r) /\ CompanyRead(r) /\ SubscriptionRead(r)
        /\ PermissionsRead(r) /\ GuardPassed(r) /\ Justified(r)

Inv == \A r \in Requests : RequestInv(r)

\* Nothing a request established is undone by the steps of the others.
LEMMA Unmoved ==
  ASSUME TypeOK, TypeOK', NobodyLeaves, Watch, NEW r \in Requests, RequestInv(r),
         req'[r] = req[r]
  PROVE  RequestInv(r)'
<1>1. CASE req[r].stage = "idle"
  BY <1>1 DEF RequestInv
<1>2. CASE req[r].stage # "idle"
  <2> DEFINE u == req[r].user
  <2>1. u \in Users
    BY <1>2 DEF TypeOK
  <2>2. always'[r] = always[r] \cap Facts(u)' /\ ever'[r] = ever[r] \cup Facts(u)'
    <3>1. \A v \in Users : req'[r].user = v =>
              always'[r] = always[r] \cap Facts(v)' /\ ever'[r] = ever[r] \cup Facts(v)'
      BY <1>2, WatchLasting
    <3> QED BY <2>1, <3>1
  <2>3. req[r].stage \in Entered => req[r].company \in Users
    BY DEF TypeOK
  <2> QED BY <1>2, <2>1, <2>2, <2>3
          DEF RequestInv, Watched, UserRead, CompanyRead, SubscriptionRead, PermissionsRead,
              GuardPassed, Justified, Admins, NobodyLeaves
<1> QED BY <1>1, <1>2

\* Each step of the request itself establishes what its stage needs.  The
\* tables it reads are, but for roles, those the next state has.
LEMMA Moved ==
  ASSUME TypeOK, TypeOK', NobodyLeaves, Watch, NEW r \in Requests, RequestInv(r),
         Summary(r), UNCHANGED <<off, closed, sub>>,
         UNCHANGED <<role, star>> \/ At(r, "run")
  PROVE  RequestInv(r)'
<1>1. Meaning /\ Meaning'
  <2>1. TypeOK => Meaning
    BY FactsMeaning
  <2>2. (TypeOK => Meaning)'
    BY FactsMeaning, PTL
  <2> QED BY <2>1, <2>2
<1>2. CASE req'[r].stage = "idle"
  BY <1>2 DEF RequestInv
<1>3. CASE At(r, "idle") /\ req'[r].stage = "user" /\ req'[r].user \in Users
  <2>1. PICK u \in Users : req'[r].user = u
    BY <1>3
  <2>2. always'[r] = Facts(u)' /\ Facts(u)' \subseteq ever'[r]
    BY <1>3, <2>1, WatchBegins DEF At
  <2>3. Watched(r)'
    BY <2>1, <2>2 DEF Watched
  <2> QED BY <1>3, <2>3
          DEF RequestInv, UserRead, CompanyRead, SubscriptionRead, PermissionsRead,
              GuardPassed, Justified, Entered, Admitted, Resolved, Written
<1>4. CASE req[r].stage # "idle" /\ req'[r].stage # "idle" /\ SameAim(r)
  <2>1. PICK u \in Users : req[r].user = u
    BY <1>4 DEF TypeOK
  <2>2. req'[r].user = u
    BY <1>4, <2>1 DEF SameAim
  <2>3. always'[r] = always[r] \cap Facts(u)' /\ ever'[r] = ever[r] \cup Facts(u)'
    BY <1>4, <2>2, WatchLasting
  <2>4. Watched(r)'
    BY <2>2, <2>3 DEF Watched
  <2>5. Facts(u) \subseteq ever[r]
    BY <1>4, <2>1 DEF RequestInv, Watched
  <2>6. CASE At(r, "user") /\ req'[r].stage = "company" /\ u \notin off
    <3>1. <<"user", u>> \notin Facts(u)'
      BY <1>1, <2>6 DEF Meaning
    <3> QED BY <2>2, <2>3, <2>4, <2>6, <3>1
            DEF RequestInv, UserRead, CompanyRead, SubscriptionRead, PermissionsRead,
                GuardPassed, Justified, Entered, Admitted, Resolved, Written
  <2>7. CASE /\ At(r, "company") /\ req'[r].stage = "sub"
             /\ req'[r].company \in Users /\ Found(r, req'[r].company)
             /\ UNCHANGED role
    <3>1. PICK c \in Users : req'[r].company = c
      BY <2>7
    <3>2. Joined(u, c)' /\ c \notin closed'
      BY <2>1, <2>7, <3>1 DEF Found, Joined
    <3>3. <<"company", c>> \notin Facts(u)'
      BY <1>1, <3>2 DEF Meaning
    <3>4. UserRead(r)'
      BY <1>4, <2>1, <2>2, <2>3, <2>7 DEF RequestInv, UserRead, At
    <3>5. CompanyRead(r)'
      BY <2>2, <2>3, <3>1, <3>2, <3>3 DEF CompanyRead, Joined
    <3> QED BY <2>4, <2>7, <3>4, <3>5
            DEF RequestInv, SubscriptionRead, PermissionsRead, GuardPassed, Justified,
                Admitted, Resolved, Written
  <2>8. CASE /\ At(r, "sub") /\ req'[r].stage = "perm"
             /\ req'[r].company = req[r].company /\ sub[req[r].company] \notin Blocked
    <3>1. PICK c \in Users : req[r].company = c
      BY <2>8 DEF TypeOK, At, Entered
    <3>2. <<"lapsed", c>> \notin Facts(u)'
      BY <1>1, <2>8, <3>1 DEF Meaning
    <3>3. UserRead(r)'
      BY <1>4, <2>1, <2>2, <2>3, <2>8 DEF RequestInv, UserRead, At, Entered
    <3>4. CompanyRead(r)'
      BY <1>4, <2>1, <2>2, <2>3, <2>8, <3>1 DEF RequestInv, CompanyRead, At, Entered, NobodyLeaves, Joined
    <3>5. SubscriptionRead(r)'
      BY <2>3, <2>8, <3>1, <3>2 DEF SubscriptionRead
    <3> QED BY <2>4, <2>8, <3>3, <3>4, <3>5
            DEF RequestInv, PermissionsRead, GuardPassed, Justified, Resolved, Written
  <2>9. CASE /\ At(r, "perm") /\ req'[r].stage = "run"
             /\ req'[r].company = req[r].company
             /\ req'[r].role = role[u][req[r].company]
             /\ req'[r].star => <<u, req[r].company>> \in star \/ req'[r].role = "owner"
    <3>1. PICK c \in Users : req[r].company = c
      BY <2>9 DEF TypeOK, At, Entered
    <3>2. Joined(u, c)
      BY <1>4, <2>1, <2>9, <3>1 DEF RequestInv, CompanyRead, At, Entered
    <3>3. <<role[u][c], c>> \in Facts(u) /\ (<<u, c>> \in star => <<"star", c>> \in Facts(u))
      BY <1>1, <3>2 DEF Meaning
    <3>4. PermissionsRead(r)'
      BY <2>3, <2>5, <2>9, <3>1, <3>3 DEF PermissionsRead
    <3>5. UserRead(r)'
      BY <1>4, <2>1, <2>2, <2>3, <2>9 DEF RequestInv, UserRead, At, Entered
    <3>6. CompanyRead(r)'
      BY <1>4, <2>1, <2>2, <2>3, <2>9, <3>1 DEF RequestInv, CompanyRead, At, Entered, NobodyLeaves, Joined
    <3>7. SubscriptionRead(r)'
      BY <1>4, <2>3, <2>9, <3>1 DEF RequestInv, SubscriptionRead, At, Admitted
    <3> QED BY <2>4, <2>9, <3>4, <3>5, <3>6, <3>7
            DEF RequestInv, GuardPassed, Justified, Written
  <2>10. CASE /\ req[r].stage \in Resolved /\ req'[r].stage \in Written
              /\ req'[r].company = req[r].company /\ req'[r].role = req[r].role
              /\ req'[r].star = req[r].star /\ req'[r].workflow = req[r].workflow
              /\ \/ req[r].stage \in Written
                 \/ req[r].workflow = "read"
                 \/ req[r].workflow = "blueprint" /\ req[r].role = "owner"
                 \/ req[r].workflow = "member" /\ Admins(r)
    <3>1. PICK c \in Users : req[r].company = c
      BY <2>10 DEF TypeOK, Entered, Resolved
    <3>2. PermissionsRead(r)'
      BY <1>4, <2>3, <2>10 DEF RequestInv, PermissionsRead
    <3>3. UserRead(r)'
      BY <1>4, <2>1, <2>2, <2>3, <2>10 DEF RequestInv, UserRead, Entered, Resolved
    <3>4. CompanyRead(r)'
      BY <1>4, <2>1, <2>2, <2>3, <2>10, <3>1 DEF RequestInv, CompanyRead, Entered, Resolved, NobodyLeaves, Joined
    <3>5. SubscriptionRead(r)'
      BY <1>4, <2>3, <2>10, <3>1 DEF RequestInv, SubscriptionRead, Resolved, Admitted
    <3>6. GuardPassed(r)'
      BY <1>4, <2>10 DEF RequestInv, GuardPassed, Admins
    <3> QED BY <2>4, <2>10, <3>2, <3>3, <3>4, <3>5, <3>6
            DEF RequestInv, Justified, Written
  <2>11. CASE /\ req'[r].stage = "refused"
              /\ req'[r].reason = "user" => u \in off
              /\ req'[r].reason = "company" =>
                    \E c \in Users : c \in closed /\ req[r].asked \in {c, NoOne}
              /\ req'[r].reason = "subscription" =>
                    /\ At(r, "sub")
                    /\ req'[r].company = req[r].company
                    /\ sub[req[r].company] \in Blocked
    <3>1. req'[r].reason = "user" => <<"user", u>> \in ever'[r]
      BY <1>1, <2>3, <2>11 DEF Meaning
    <3>2. req'[r].reason = "company" => \E c \in Users : /\ req'[r].asked \in {c, NoOne}
                                                         /\ <<"company", c>> \in ever'[r]
      BY <1>1, <1>4, <2>3, <2>11 DEF Meaning, SameAim
    <3>3. req'[r].reason = "subscription" => <<"lapsed", req'[r].company>> \in ever'[r]
      <4>1. At(r, "sub") => req[r].company \in Users
        BY DEF TypeOK, At, Entered
      <4> QED BY <1>1, <2>3, <2>11, <4>1 DEF Meaning
    <3>4. Justified(r)'
      BY <2>2, <3>1, <3>2, <3>3 DEF Justified
    <3> QED BY <2>4, <2>11, <3>4
            DEF RequestInv, UserRead, CompanyRead, SubscriptionRead, PermissionsRead,
                GuardPassed, Entered, Admitted, Resolved, Written
  <2>12. UNCHANGED role \/ At(r, "run")
    OBVIOUS
  <2> QED BY <1>4, <2>1, <2>6, <2>7, <2>8, <2>9, <2>10, <2>11, <2>12 DEF Summary, At
<1> QED BY <1>2, <1>3, <1>4 DEF Summary, At, Resolved, Written

\* The invariant about what each request has read is preserved by every step.
LEMMA InvStep == ASSUME TypeOK, Inv, [Next]_vars PROVE Inv'
<1>0. TypeOK'
  BY TypesStep
<1>1. CASE UNCHANGED vars
  <2> SUFFICES ASSUME NEW r \in Requests PROVE RequestInv(r)'
    BY DEF Inv
  <2>1. RequestInv(r) /\ UNCHANGED <<tables, req, always, ever>>
    BY <1>1 DEF Inv, vars, observed
  <2>2. \A u \in Users : Facts(u)' = Facts(u)
    BY <2>1 DEF Facts, Memberships, tables
  <2>3. Watched(r) => Watched(r)'
    BY <2>1, <2>2 DEF Watched
  <2>4. /\ UserRead(r) => UserRead(r)'
        /\ SubscriptionRead(r) => SubscriptionRead(r)'
        /\ PermissionsRead(r) => PermissionsRead(r)'
    BY <2>1 DEF UserRead, SubscriptionRead, PermissionsRead
  <2>5. /\ CompanyRead(r) => CompanyRead(r)'
        /\ GuardPassed(r) => GuardPassed(r)'
        /\ Justified(r) => Justified(r)'
    BY <2>1 DEF CompanyRead, GuardPassed, Justified, Joined, Admins, tables
  <2> QED BY <2>1, <2>3, <2>4, <2>5 DEF RequestInv
<1>2. CASE Next
  <2>1. NobodyLeaves /\ Watch
    BY <1>2, RoleStep DEF Next
  <2> SUFFICES ASSUME NEW r \in Requests PROVE RequestInv(r)'
    BY DEF Inv
  <2>2. RequestInv(r)
    BY DEF Inv
  <2>3. CASE req'[r] = req[r]
    BY <1>0, <2>1, <2>2, <2>3, Unmoved
  <2>4. CASE Begin(r) \/ RequestStep(r)
    <3>1. Summary(r) /\ UNCHANGED <<off, closed, sub>>
      BY <2>4, RequestSummary, RequestTables
    <3>2. UNCHANGED <<role, star>> \/ At(r, "run")
      BY <2>4, RequestTables DEF RunAddMember
    <3> QED BY <1>0, <2>1, <2>2, <3>1, <3>2, Moved
  <2>5. CASE \E q \in Requests : q # r /\ (Begin(q) \/ RequestStep(q))
    <3>1. req'[r] = req[r]
      BY <2>5, RequestSummary DEF Others
    <3> QED BY <2>3, <3>1
  <2>6. CASE (\E u \in Users : SignupStep(u)) \/ AdminStep
    BY <2>3, <2>6, OutsideRequests
  <2> QED BY <1>2, <2>4, <2>5, <2>6 DEF Next
<1> QED BY <1>1, <1>2

\* Types and that invariant hold together.
LEMMA InvHolds == Spec => [](TypeOK /\ Inv)
<1>1. Init => Inv
  BY DEF Init, Inv, RequestInv, IdleReq
<1> QED BY <1>1, TypesInit, TypesStep, InvStep, PTL DEF Spec

-----------------------------------------------------------------------------
(* The properties.                                                         *)

\* No request goes on past a switch thrown or a lapse that came before it.
THEOREM AdmissionHolds == Spec => []AdmissionCurrent
<1>1. Inv => AdmissionCurrent
  BY DEF Inv, RequestInv, UserRead, CompanyRead, SubscriptionRead, AdmissionCurrent,
         Entered, Admitted
<1> QED BY <1>1, InvHolds, PTL

\* A context's role was held during the request it was built for.
THEOREM FreshHolds == Spec => []FreshContext
<1>1. Inv => FreshContext
  BY DEF Inv, RequestInv, PermissionsRead, FreshContext, Resolved
<1> QED BY <1>1, InvHolds, PTL

\* Every refusal has its cause; no company is refused for want of a grant.
THEOREM RefusalHolds == Spec => []RefusalJustified
<1>1. Inv => RefusalJustified
  BY DEF Inv, RequestInv, RefusalJustified, Justified
<1> QED BY <1>1, InvHolds, PTL

\* Blueprints are written for owners, memberships for owners and admins.
THEOREM WritesHold == Spec => []WritesAuthorised
<1>1. Inv => WritesAuthorised
  BY DEF Inv, RequestInv, PermissionsRead, GuardPassed, Admins, WritesAuthorised,
         Resolved, Written
<1> QED BY <1>1, InvHolds, PTL

-----------------------------------------------------------------------------
(* Companies and their founders.                                           *)

FounderInv ==
    /\ CompanyHasFounder
    /\ \A u \in Users : signup[u] # "none" => u \in identity

\* A company keeps its founder: nothing deletes accounts or memberships.
LEMMA FounderStep == ASSUME TypeOK, FounderInv, [Next]_vars PROVE FounderInv'
<1>1. CASE UNCHANGED vars
  BY <1>1 DEF FounderInv, CompanyHasFounder, vars, tables
<1>2. CASE Next
  <2>1. NobodyLeaves
    BY <1>2, RoleStep
  <2>2. companies \subseteq Users
    BY DEF TypeOK
  <2>3. CASE \E u \in Users : SignupStep(u)
    <3>1. PICK u \in Users : SignupStep(u)
      BY <2>3
    <3>2. CASE Onboard(u)
      <4>1. RoleTyped /\ "owner" \in Roles /\ role' = [role EXCEPT ![u][u] = "owner"]
        BY <3>2 DEF TypeOK, RoleTyped, Roles, Onboard
      <4>2. Joined(u, u)'
        BY <4>1, RoleUpdate
      <4>3. u \in identity
        BY <3>2 DEF FounderInv, Onboard
      <4> QED BY <2>1, <2>2, <3>2, <4>2, <4>3
              DEF FounderInv, CompanyHasFounder, Onboard, NobodyLeaves, Joined, TypeOK
    <3>3. CASE CreateIdentity(u)
      BY <3>3 DEF FounderInv, CompanyHasFounder, CreateIdentity, TypeOK
    <3>4. CASE FinishSignup(u) \/ FailSignup(u)
      BY <3>4 DEF FounderInv, CompanyHasFounder, FinishSignup, FailSignup, tables, TypeOK
    <3> QED BY <3>1, <3>2, <3>3, <3>4 DEF SignupStep
  <2>4. CASE AdminStep
    <3>1. UNCHANGED <<identity, account, companies, role, signup>>
      BY <2>4 DEF AdminStep, Change, SetUserStatus, SetCompanyStatus, Cancel, Expire,
                  InsertGrant, BeginGrant
    <3> QED BY <3>1 DEF FounderInv, CompanyHasFounder
  <2>5. CASE \E r \in Requests : Begin(r) \/ RequestStep(r)
    <3>1. UNCHANGED <<identity, account, companies, signup>>
      BY <2>5, RequestTables
    <3> QED BY <2>1, <2>2, <3>1 DEF FounderInv, CompanyHasFounder, NobodyLeaves, Joined
  <2> QED BY <1>2, <2>3, <2>4, <2>5 DEF Next
<1> QED BY <1>1, <1>2

\* A company always has the identity, the account and the membership of the
\* one who founded it.
THEOREM FounderHolds == Spec => []CompanyHasFounder
<1>1. Init => FounderInv
  BY DEF Init, FounderInv, CompanyHasFounder
<1>2. FounderInv => CompanyHasFounder
  BY DEF FounderInv
<1> QED BY <1>1, <1>2, TypesHold, FounderStep, PTL DEF Spec

=============================================================================
