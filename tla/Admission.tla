------------------------------ MODULE Admission ------------------------------
(***************************************************************************)
(* Who may run what in which company: signup (Supabase identity, then the  *)
(* users/companies/company_members transaction), the resolution of every   *)
(* request (CompanyResolver, SubscriptionManager, PermissionEngine), the   *)
(* guards of the Workflow Engine, add_member, and the Admin Control        *)
(* Panel's switches and subscriptions.                                     *)
(*                                                                         *)
(* Each table is read by a statement of its own, so a request sees them at *)
(* different moments while operators and other requests change them.       *)
(***************************************************************************)
EXTENDS Naturals, FiniteSets

CONSTANTS
    Users,       \* people; a company is named after the user who signed it up
    NoOne,       \* stands for "no company"
    Requests,    \* concurrent requests through RequestRouter.build_context
    Operators,   \* admins granting subscriptions at the same time
    MayFail,     \* whether Postgres or Supabase may fail between two steps
    MaxChanges   \* bound: changes of membership, switches and subscriptions

ASSUME NoOneAssumption == NoOne \notin Users
ASSUME FailAssumption == MayFail \in BOOLEAN
ASSUME ChangesAssumption == MaxChanges \in Nat

VARIABLES
    identity,    \* users Supabase knows
    account,     \* rows of users
    companies,   \* rows of companies
    role,        \* company_members.role, "none" without a row
    star,        \* memberships whose permissions contain "*"
    off,         \* users with is_active = false
    closed,      \* companies with is_active = false
    sub,         \* latest row of company_subscriptions
    signup,      \* progress of each user's signup
    grant,       \* the company each operator is granting a subscription to
    req,         \* progress of each request
    always,      \* history: what has held ever since a request began
    ever,        \* history: what has held at some time since it began
    changes      \* bounds the run

tables == <<identity, account, companies, role, star, off, closed, sub>>
observed == <<always, ever>>
vars == <<tables, signup, grant, req, observed, changes>>

-----------------------------------------------------------------------------
(* Data.                                                                   *)

Roles     == {"owner", "admin", "member"}
Workflows == {"read", "blueprint", "member"}
Blocked   == {"expired", "cancelled"}
Memberships(u) == {c \in Users : role[u][c] # "none"}

Stages == {"idle", "user", "company", "sub", "perm", "run", "announce", "audit", "refused"}
Reasons == {"none", "user", "stranger", "company", "ambiguous", "subscription", "forbidden",
            "unknown", "error", "unaudited"}

Req == [stage : Stages, user : Users \cup {NoOne}, asked : Users \cup {NoOne}, company : Users \cup {NoOne},
        role : Roles \cup {"none"}, star : BOOLEAN, workflow : Workflows, reason : Reasons]
IdleReq == [stage |-> "idle", user |-> NoOne, asked |-> NoOne,
            company |-> NoOne, role |-> "none", star |-> FALSE, workflow |-> "read",
            reason |-> "none"]

At(r, stage) == req[r].stage = stage

\* What the tables say, at this moment, that matters to requests of user u.
Facts(u) ==
    {<<"user", v>> : v \in off \cap {u}}
      \cup {<<"company", c>> : c \in closed}
      \cup {<<"lapsed", c>> : c \in {d \in Users : sub[d] \in Blocked}}
      \cup {<<role[u][c], c>> : c \in Memberships(u)}
      \cup {<<"star", c>> : c \in {d \in Users : <<u, d>> \in star}}

Init ==
    /\ identity = {}
    /\ account = {}
    /\ companies = {}
    /\ role = [u \in Users |-> [c \in Users |-> "none"]]
    /\ star = {}
    /\ off = {}
    /\ closed = {}
    /\ sub = [c \in Users |-> "none"]
    /\ signup = [u \in Users |-> "none"]
    /\ grant = [o \in Operators |-> NoOne]
    /\ req = [r \in Requests |-> IdleReq]
    /\ always = [r \in Requests |-> {}]
    /\ ever = [r \in Requests |-> {}]
    /\ changes = 0

-----------------------------------------------------------------------------
(* Signup.                                                                 *)

\* supabase_auth.create_user: a second signup with the same email is refused.
CreateIdentity(u) ==
    /\ signup[u] = "none"
    /\ identity' = identity \cup {u}
    /\ signup' = [signup EXCEPT ![u] = "identity"]
    /\ UNCHANGED <<account, companies, role, star, off, closed, sub, grant, req,
                   changes>>

\* create_company_and_owner: users, companies and company_members in one
\* transaction.
Onboard(u) ==
    /\ signup[u] = "identity"
    /\ account' = account \cup {u}
    /\ companies' = companies \cup {u}
    /\ role' = [role EXCEPT ![u][u] = "owner"]
    /\ star' = star \cup {<<u, u>>}
    /\ signup' = [signup EXCEPT ![u] = "onboarded"]
    /\ UNCHANGED <<identity, off, closed, sub, grant, req, changes>>

\* The default Blueprint, the session and the audit record.
FinishSignup(u) ==
    /\ signup[u] = "onboarded"
    /\ signup' = [signup EXCEPT ![u] = "done"]
    /\ UNCHANGED <<tables, grant, req, changes>>

\* Postgres or Supabase fails: the signup ends, what is committed stays.  A
\* retry stops at create_user, which refuses the email.
FailSignup(u) ==
    /\ MayFail
    /\ signup[u] \in {"identity", "onboarded"}
    /\ signup' = [signup EXCEPT ![u] = "failed"]
    /\ UNCHANGED <<tables, grant, req, changes>>

-----------------------------------------------------------------------------
(* Resolution of a request.                                                *)

\* A token of a known identity arrives, with or without a company_id.
Begin(r) ==
    /\ At(r, "idle")
    /\ \E u \in identity, asked \in companies \cup {NoOne}, w \in Workflows :
          /\ req' = [req EXCEPT ![r] = [IdleReq EXCEPT !.stage = "user", !.user = u,
                                                       !.asked = asked, !.workflow = w]]
          /\ w = "member" => changes < MaxChanges
          /\ changes' = changes + (IF w = "member" THEN 1 ELSE 0)
    /\ UNCHANGED <<tables, signup, grant>>

Advance(r, stage) == req' = [req EXCEPT ![r].stage = stage]
Refuse(r, reason) == req' = [req EXCEPT ![r].stage = "refused", ![r].reason = reason]

\* SELECT is_active FROM users; an identity without a row passes.
ReadUser(r) ==
    /\ At(r, "user")
    /\ IF req[r].user \in off THEN Refuse(r, "user") ELSE Advance(r, "company")
    /\ UNCHANGED <<tables, signup, grant, changes>>

Enter(r, c) == req' = [req EXCEPT ![r].stage = "sub", ![r].company = c]

\* Mutant: a company named by its id is entered without looking at is_active.
ReadCompanyUnchecked(r) ==
    LET u == req[r].user
        c == req[r].asked
    IN  /\ At(r, "company")
        /\ c # NoOne
        /\ IF c \in Memberships(u) THEN Enter(r, c) ELSE Refuse(r, "stranger")
        /\ UNCHANGED <<tables, signup, grant, changes>>

\* The company asked for must be one of the user's and active.
ReadCompanyAsked(r) ==
    LET u == req[r].user
        c == req[r].asked
    IN  /\ At(r, "company")
        /\ c # NoOne
        /\ IF c \notin Memberships(u) THEN Refuse(r, "stranger")
           ELSE IF c \in closed THEN Refuse(r, "company")
           ELSE Enter(r, c)
        /\ UNCHANGED <<tables, signup, grant, changes>>

\* Mutant: a user without a company is let through, as company NoOne.
ReadCompanyAnyEmpty(r) ==
    LET mine == Memberships(req[r].user)
        open == mine \ closed
    IN  /\ At(r, "company")
        /\ req[r].asked = NoOne
        /\ \/ mine = {} /\ Enter(r, NoOne)
           \/ mine # {} /\ open = {} /\ Refuse(r, "company")
           \/ Cardinality(open) > 1 /\ Refuse(r, "ambiguous")
           \/ \E c \in open : open = {c} /\ Enter(r, c)
        /\ UNCHANGED <<tables, signup, grant, changes>>

\* Without one, the user's only active company is meant.
ReadCompanyAny(r) ==
    LET mine == Memberships(req[r].user)
        open == mine \ closed
    IN  /\ At(r, "company")
        /\ req[r].asked = NoOne
        /\ \/ mine = {} /\ Refuse(r, "stranger")
           \/ mine # {} /\ open = {} /\ Refuse(r, "company")
           \/ Cardinality(open) > 1 /\ Refuse(r, "ambiguous")
           \/ \E c \in open : open = {c} /\ Enter(r, c)
        /\ UNCHANGED <<tables, signup, grant, changes>>

\* Mutant: a company nobody granted a subscription to is blocked too.
ReadSubscriptionStrict(r) ==
    /\ At(r, "sub")
    /\ IF sub[req[r].company] \in Blocked \cup {"none"}
       THEN Refuse(r, "subscription") ELSE Advance(r, "perm")
    /\ UNCHANGED <<tables, signup, grant, changes>>

\* _enforce_subscription and is_blocked, on the latest row.
ReadSubscription(r) ==
    /\ At(r, "sub")
    /\ IF sub[req[r].company] \in Blocked
       THEN Refuse(r, "subscription") ELSE Advance(r, "perm")
    /\ UNCHANGED <<tables, signup, grant, changes>>

\* Mutant: the row is looked up by the user alone.
ReadPermissionsAnywhere(r) ==
    LET u == req[r].user
    IN  /\ At(r, "perm")
        /\ \E c \in Memberships(u) :
              req' = [req EXCEPT ![r].stage = "run", ![r].role = role[u][c],
                                 ![r].star = <<u, c>> \in star \/ role[u][c] = "owner"]
        /\ UNCHANGED <<tables, signup, grant, changes>>

\* PermissionEngine.resolve: an owner holds "*" whatever is stored.
ReadPermissions(r) ==
    LET u == req[r].user
        c == req[r].company
    IN  /\ At(r, "perm")
        /\ req' = [req EXCEPT ![r].stage = "run", ![r].role = role[u][c],
                              ![r].star = <<u, c>> \in star \/ role[u][c] = "owner"]
        /\ UNCHANGED <<tables, signup, grant, changes>>

-----------------------------------------------------------------------------
(* The workflow.                                                           *)

Wrote(r) == req[r].stage \in {"announce", "audit"} /\ req[r].workflow # "read"
Admins(r) == req[r].star \/ req[r].role \in {"owner", "admin"}

\* A workflow open to every member, or one that is turned away: by its guard, or
\* because the email to add has no account.
RunRead(r) ==
    /\ At(r, "run")
    /\ \/ req[r].workflow = "read" /\ Advance(r, "audit")
       \/ req[r].workflow = "blueprint" /\ req[r].role # "owner" /\ Refuse(r, "forbidden")
       \/ req[r].workflow = "member" /\ ~Admins(r) /\ Refuse(r, "forbidden")
       \/ req[r].workflow = "member" /\ Admins(r) /\ account # Users /\ Refuse(r, "unknown")
    /\ UNCHANGED <<tables, signup, grant, changes>>

\* Mutant: publishing a Blueprint asks for an admin instead of the owner.
RunBlueprintAdmin(r) ==
    /\ At(r, "run")
    /\ req[r].workflow = "blueprint"
    /\ Admins(r)
    /\ Advance(r, "announce")
    /\ UNCHANGED <<tables, signup, grant, changes>>

\* blueprint.create and blueprint.restore (see module Blueprint).
RunBlueprint(r) ==
    /\ At(r, "run")
    /\ req[r].workflow = "blueprint"
    /\ req[r].role = "owner"
    /\ Advance(r, "announce")
    /\ UNCHANGED <<tables, signup, grant, changes>>

\* _company_add_member: upsert by email; a conflict replaces only the role.
RunAddMember(r) ==
    LET c == req[r].company
    IN  /\ At(r, "run")
        /\ req[r].workflow = "member"
        /\ Admins(r)
        /\ \E u \in account, new \in Roles :
              /\ role' = [role EXCEPT ![u][c] = new]
              /\ star' = IF role[u][c] = "none" /\ new = "owner"
                         THEN star \cup {<<u, c>>} ELSE star
        /\ Advance(r, "announce")
        /\ UNCHANGED <<identity, account, companies, off, closed, sub, signup, grant, changes>>

\* The event is published; its subscribers swallow their own failures.
Announce(r) ==
    /\ At(r, "announce")
    /\ Advance(r, "audit")
    /\ UNCHANGED <<tables, signup, grant, changes>>

\* execute records the audit entry last and answers.
Audit(r) ==
    /\ At(r, "audit")
    /\ req' = [req EXCEPT ![r] = IdleReq]
    /\ UNCHANGED <<tables, signup, grant, changes>>

\* The refusal is answered.
Answer(r) ==
    /\ At(r, "refused")
    /\ req' = [req EXCEPT ![r] = IdleReq]
    /\ UNCHANGED <<tables, signup, grant, changes>>

\* A query raises: the request is answered with a 500, what is committed stays.
FailRequest(r) ==
    /\ MayFail
    /\ req[r].stage \notin {"idle", "refused"}
    /\ Refuse(r, IF Wrote(r) THEN "unaudited" ELSE "error")
    /\ UNCHANGED <<tables, signup, grant, changes>>

-----------------------------------------------------------------------------
(* The Admin Control Panel.                                                *)

Change ==
    /\ changes < MaxChanges
    /\ changes' = changes + 1
    /\ UNCHANGED <<identity, account, companies, role, star, signup, req>>

SetUserStatus(u) ==
    /\ Change
    /\ u \in account
    /\ off' \in {off \cup {u}, off \ {u}}
    /\ UNCHANGED <<closed, sub, grant>>

SetCompanyStatus(c) ==
    /\ Change
    /\ c \in companies
    /\ closed' \in {closed \cup {c}, closed \ {c}}
    /\ UNCHANGED <<off, sub, grant>>

\* SubscriptionManager.grant first checks that the company is active ...
BeginGrant(o, c) ==
    /\ Change
    /\ grant[o] = NoOne
    /\ c \in companies \ closed
    /\ grant' = [grant EXCEPT ![o] = c]
    /\ UNCHANGED <<off, closed, sub>>

\* ... then inserts a month from now, a statement of its own.
InsertGrant(o) ==
    /\ grant[o] # NoOne
    /\ sub' = [sub EXCEPT ![grant[o]] = "active"]
    /\ grant' = [grant EXCEPT ![o] = NoOne]
    /\ UNCHANGED <<identity, account, companies, role, star, off, closed, signup, req,
                   changes>>

\* cancel: the latest row, if there is one.
Cancel(c) ==
    /\ Change
    /\ sub[c] # "none"
    /\ sub' = [sub EXCEPT ![c] = "cancelled"]
    /\ UNCHANGED <<off, closed, grant>>

\* ends_at passes.
Expire(c) ==
    /\ Change
    /\ sub[c] = "active"
    /\ sub' = [sub EXCEPT ![c] = "expired"]
    /\ UNCHANGED <<off, closed, grant>>

-----------------------------------------------------------------------------
SignupStep(u) == CreateIdentity(u) \/ Onboard(u) \/ FinishSignup(u) \/ FailSignup(u)

RequestStep(r) ==
    \/ ReadUser(r) \/ ReadCompanyAsked(r) \/ ReadCompanyAny(r) \/ ReadSubscription(r)
    \/ ReadPermissions(r) \/ RunRead(r) \/ RunBlueprint(r) \/ RunAddMember(r)
    \/ Announce(r) \/ Audit(r) \/ Answer(r) \/ FailRequest(r)

AdminStep ==
    \/ \E u \in Users : SetUserStatus(u) \/ SetCompanyStatus(u) \/ Cancel(u) \/ Expire(u)
    \/ \E o \in Operators : InsertGrant(o) \/ \E c \in Users : BeginGrant(o, c)

\* The history variables watch every step.
Watch ==
    LET now == [u \in Users |-> Facts(u)']
    IN  /\ always' = [r \in Requests |->
                         IF req'[r].stage = "idle" THEN {}
                         ELSE IF At(r, "idle") THEN now[req'[r].user]
                         ELSE always[r] \cap now[req'[r].user]]
        /\ ever' = [r \in Requests |->
                       IF req'[r].stage = "idle" THEN {}
                       ELSE ever[r] \cup now[req'[r].user]]

Next ==
    /\ \/ \E u \in Users : SignupStep(u)
       \/ \E r \in Requests : Begin(r) \/ RequestStep(r)
       \/ AdminStep
    /\ Watch

Spec == Init /\ [][Next]_vars

-----------------------------------------------------------------------------
(* Properties.                                                             *)

Entered == {"sub", "perm", "run", "announce", "audit"}   \* the company is known
Admitted == {"perm", "run", "announce", "audit"}         \* nothing else is read that may refuse
Resolved == {"run", "announce", "audit"}                 \* the context is built
Written == {"announce", "audit"}                         \* the workflow did its work

\* Types, and a company for every request that has entered one.
TypeOK ==
    /\ identity \subseteq Users /\ account \subseteq Users /\ companies \subseteq Users
    /\ off \subseteq Users /\ closed \subseteq Users
    /\ role \in [Users -> [Users -> Roles \cup {"none"}]]
    /\ star \subseteq Users \X Users
    /\ sub \in [Users -> {"none", "active"} \cup Blocked]
    /\ signup \in [Users -> {"none", "identity", "onboarded", "done", "failed"}]
    /\ grant \in [Operators -> Users \cup {NoOne}]
    /\ req \in [Requests -> Req]
    /\ \A r \in Requests : req[r].stage # "idle" => req[r].user \in Users
    /\ \A r \in Requests : req[r].stage \in Entered => req[r].company \in Users
    /\ changes \in 0 .. MaxChanges

\* A switch thrown, or a subscription lapsed, before a request began and
\* left so is never missed by it, whichever statement reads it and whatever
\* changes in between (resolver.py:12-18, "on the very next request").
AdmissionCurrent ==
    \A r \in Requests : req[r].stage \in Admitted =>
        always[r] \cap {<<"user", req[r].user>>, <<"company", req[r].company>>,
                        <<"lapsed", req[r].company>>} = {}

\* The role in an ExecutionContext is one the user had in that company while
\* this very request ran: nothing is kept from an earlier one.
FreshContext ==
    \A r \in Requests : req[r].stage \in Resolved =>
        <<req[r].role, req[r].company>> \in ever[r]

\* A refused request met the condition it is refused for; a company without
\* any subscription row, in particular, is never refused for lack of one
\* (resolver.py:20-24).
Justified(r) ==
    LET because(reason) == req[r].stage = "refused" /\ req[r].reason = reason
    IN  /\ because("user") => <<"user", req[r].user>> \in ever[r]
        /\ because("company") => \E c \in Users : /\ req[r].asked \in {c, NoOne}
                                                 /\ <<"company", c>> \in ever[r]
        /\ because("subscription") => <<"lapsed", req[r].company>> \in ever[r]

RefusalJustified == \A r \in Requests : Justified(r)

\* A Blueprint is written only for someone who was the company's owner, and a
\* member only for an owner, an admin or a holder of "*", during the request.
WritesAuthorised ==
    \A r \in Requests : req[r].stage \in Written =>
        LET c == req[r].company
        IN  /\ req[r].workflow = "blueprint" => <<"owner", c>> \in ever[r]
            /\ req[r].workflow = "member" =>
                  \E what \in {"owner", "admin", "star"} : <<what, c>> \in ever[r]

\* Every company belongs to someone: its founder has an identity, an account
\* and a membership, whatever failed on the way (onboarding.py:4-7, "or vice
\* versa").
CompanyHasFounder ==
    \A c \in companies : c \in identity /\ c \in account /\ role[c][c] # "none"

-----------------------------------------------------------------------------
(* What the documents say and the code does not keep.                      *)

\* onboarding.py:6-7 and README.md:57-58: a Supabase identity never ends up
\* without a company.
IdentityHasCompany ==
    \A u \in Users : signup[u] = "failed" => u \in companies

=============================================================================
