------------------------------ MODULE TenantAccess ------------------------------
(***************************************************************************)
(* Who may act for a tenant. A request bears a session or an API key; the   *)
(* session's user, the tenant the session has chosen and the user's role    *)
(* there are read one after the other (lib/auth.ts, tenant/context.ts,      *)
(* api/principal.ts), and what the routes under app/api/tenant then count,   *)
(* look up and write are statements of their own. Meanwhile other requests   *)
(* change roles, remove members, revoke keys, and switch or end sessions.    *)
(*                                                                         *)
(* A membership, a session and a key are named by the request that made     *)
(* them, those of the beginning by a name of the plan.                      *)
(***************************************************************************)
EXTENDS Naturals, FiniteSets

CONSTANTS Person, Firm,
          Visit,         \* requests
          Credential,    \* Visit and the names of the sessions and keys of the beginning
          AccessPlans,   \* what a behaviour may begin with
          Nobody

VARIABLES accounts,      \* users, and the state of each on the waitlist
          members,       \* TenantUser rows
          logins,        \* sessions
          keys,          \* API keys
          records,       \* customers of each tenant, and how many orders this month
          founded,       \* by whom each tenant was made, and what it has
          visit,         \* each request's place, and what it has read
          held,          \* the rights each request's bearer has had since it began
          acts,          \* what was written, and by which right
          crowded        \* quotas that two requests were counting at once

accessVars ==
  <<accounts, members, logins, keys, records, founded, visit, held, acts, crowded>>

MANAGE == {"owner", "admin"}
WRITE == MANAGE \cup {"sales", "operations"}
VIEW == WRITE \cup {"support", "billing", "viewer"}
KeyScopes == {"read", "write", "admin"}

MemberRows == [role : VIEW \cup {"none"}, row : Credential \cup {Nobody}]
LoginRows == [user : Person \cup {Nobody}, firm : Firm \cup {Nobody}]
KeyRows == [firm : Firm \cup {Nobody}, scopes : SUBSET KeyScopes, valid : BOOLEAN]
FoundedRows == [by : Credential \cup {Nobody}, live : BOOLEAN,
                has : SUBSET {"subscription", "balance"}]
LimitRows == [staff : Nat \ {0}, customers : Nat, orders : Nat]

\* What requests ask, and the emails of customers.
Requests == {plan.does[v] : plan \in AccessPlans, v \in Visit}
FirstEmails == UNION {plan.records[f].customers : plan \in AccessPlans, f \in Firm}
Emails ==
  FirstEmails \cup {does.email : does \in {d \in Requests : d.kind = "customer"}}

\* The fields of a request.
WellFormed(does) ==
  /\ does.key \in Credential \cup {Nobody}
  /\ does.kind \in {"invite", "promote", "remove"} => does.person \in Person
  /\ does.kind \in {"invite", "promote"} => does.role \in VIEW
  /\ does.kind = "newkey" => does.scopes \subseteq KeyScopes
  /\ does.kind = "revoke" => does.of \in Credential
  /\ does.kind \in {"switch", "signup"} => does.of \in Firm
  /\ does.kind \in {"login", "signup"} => does.person \in Person
  /\ does.kind \notin {"login", "signup", "join", "approve"} => does.token \in Credential

\* The rows of the beginning: a member has a role and belongs to a tenant that was founded,
\* each tenant is within its quotas, and what requests make is not there.
WellBegun(plan) ==
  /\ plan.members \in [Firm -> [Person -> MemberRows]]
  /\ plan.logins \in [Credential -> LoginRows]
  /\ plan.keys \in [Credential -> KeyRows]
  /\ plan.founded \in [Firm -> FoundedRows]
  /\ plan.limit \in [Firm -> LimitRows]
  /\ plan.records \in [Firm -> [customers : SUBSET Emails, placed : Nat]]
  /\ \A f \in Firm :
       LET staff == {p \in Person : plan.members[f][p].role # "none"}
           had == plan.records[f]
       IN /\ plan.founded[f].by \notin Visit
          /\ staff # {} => plan.founded[f].by # Nobody
          /\ \A p \in Person : p \in staff <=> plan.members[f][p].row # Nobody
          /\ Cardinality(staff) <= plan.limit[f].staff
          /\ IsFiniteSet(had.customers)
          /\ Cardinality(had.customers) <= plan.limit[f].customers
          /\ had.placed <= plan.limit[f].orders
  /\ \A v \in Visit : plan.keys[v].firm = Nobody

ASSUME AccessAssumption ==
  /\ IsFiniteSet(Person) /\ Visit \subseteq Credential
  /\ Nobody \notin Person \cup Firm \cup Credential
  /\ \A plan \in AccessPlans : WellBegun(plan)
  /\ \A does \in Requests : WellFormed(does)

-----------------------------------------------------------------------------

NoMember == [role |-> "none", row |-> Nobody]
NoLogin == [user |-> Nobody, firm |-> Nobody]

Does(v, kind, at) == visit[v].does.kind = kind /\ visit[v].at = at
Turns(v, at) == visit' = [visit EXCEPT ![v].at = at]
Ends(v) == Turns(v, "done")
Denied(v) == Turns(v, "refused")

\* What the bearer of a request may do, given the rows.
RightsIn(m, k, v) ==
  LET does == visit[v].does IN
  {<<f, m[f][visit[v].user].role>> : f \in IF visit[v].user = Nobody THEN {} ELSE Firm}
    \cup IF does.key = Nobody \/ ~k[does.key].valid THEN {}
         ELSE {<<k[does.key].firm, scope>> : scope \in k[does.key].scopes}

HeldIn(m, k) ==
  held' = [v \in Visit |-> IF visit[v].at \in {"begin", "done", "refused"} THEN held[v]
                           ELSE held[v] \cup RightsIn(m, k, v)]

\* The write is done, for the tenant of the row, by one who needs one of these rights.
Acts(v, firm, rights) ==
  acts' = acts \cup {[by |-> v, firm |-> firm, rights |-> rights]}

AccessInitOf(plan) ==
  /\ accounts = plan.accounts
  /\ members = plan.members
  /\ logins = plan.logins
  /\ keys = plan.keys
  /\ records = plan.records
  /\ founded = plan.founded
  /\ visit = [v \in Visit |-> [does |-> plan.does[v], limit |-> plan.limit, at |-> "begin",
                               user |-> Nobody, firm |-> Nobody, row |-> Nobody]]
  /\ held = [v \in Visit |-> {}]
  /\ acts = {}
  /\ crowded = {}

AccessInit == \E plan \in AccessPlans : AccessInitOf(plan)

rowVars == <<accounts, members, logins, keys, records, founded>>
historyVars == <<held, acts, crowded>>

-----------------------------------------------------------------------------

(* The bearer: a session's user, or a key.                                 *)

ByKey(v) == visit[v].does.key # Nobody
ForFirm == {"invite", "promote", "remove", "newkey", "revoke", "customer", "edit", "order",
            "session"}
RolesFor(kind) ==
  CASE kind \in {"invite", "promote", "remove", "newkey", "revoke"} -> MANAGE
    [] kind \in {"customer", "edit", "order"} -> WRITE
    [] OTHER -> VIEW

\* getUserFromToken: the row of the token, with its user.
RequireUser(v) ==
  /\ visit[v].at = "begin" /\ ~ByKey(v)
  /\ visit[v].does.kind \in ForFirm \cup {"switch"}
  /\ LET user == logins[visit[v].does.token].user IN
       IF user = Nobody THEN Denied(v) /\ UNCHANGED held
       ELSE /\ visit' = [visit EXCEPT ![v].user = user, ![v].at =
                           IF visit[v].does.kind = "switch" THEN "choose" ELSE "session"]
            /\ held' = [held EXCEPT ![v] = {<<f, members[f][user].role>> : f \in Firm}]
  /\ UNCHANGED <<rowVars, acts, crowded>>

\* getActiveTenant reads the session again: it may be gone, or have another tenant.
ReadSession(v) ==
  /\ visit[v].at = "session"
  /\ LET login == logins[visit[v].does.token] IN
       IF login.user # visit[v].user THEN Denied(v)
       ELSE visit' = [visit EXCEPT ![v].firm = login.firm, ![v].at = "member"]
  /\ UNCHANGED <<rowVars, historyVars>>

Live(f) == founded[f].live
FirmsOf(p) == {f \in Firm : members[f][p].role # "none" /\ Live(f)}

\* The chosen tenant, if the user is a member still; without a choice the only one.
ActiveFirm(v) ==
  LET chosen == visit[v].firm  mine == FirmsOf(visit[v].user)
  IN IF chosen # Nobody THEN {chosen} \cap mine
     ELSE IF Cardinality(mine) = 1 THEN mine ELSE {}

FirstStep(kind) ==
  CASE kind = "invite" -> "countStaff" [] kind = "customer" -> "countCustomers"
    [] kind = "order" -> "countOrders" [] kind \in {"promote", "remove"} -> "findMember"
    [] kind = "newkey" -> "makeKey" [] kind = "revoke" -> "findKey"
    [] kind = "edit" -> "findCustomer" [] OTHER -> "entitlement"

ReadMembership(v) ==
  /\ visit[v].at = "member"
  /\ LET kind == visit[v].does.kind IN
       \/ \E f \in ActiveFirm(v) :
            IF members[f][visit[v].user].role \in RolesFor(kind)
            THEN visit' = [visit EXCEPT ![v].firm = f, ![v].at = FirstStep(kind)]
            ELSE Denied(v)
       \/ ActiveFirm(v) = {} /\ Denied(v)
  /\ UNCHANGED <<rowVars, historyVars>>

\* verifyApiKey, and the scope of the route.
VerifyKey(v) ==
  /\ Does(v, "session", "begin") /\ ByKey(v)
  /\ LET key == keys[visit[v].does.key]
     IN IF key.valid /\ key.scopes \cap {"write", "admin"} # {}
        THEN /\ visit' = [visit EXCEPT ![v].firm = key.firm, ![v].at = "entitlement"]
             /\ held' = [held EXCEPT ![v] = RightsIn(members, keys, v)]
        ELSE Denied(v) /\ UNCHANGED held
  /\ UNCHANGED <<rowVars, acts, crowded>>

-----------------------------------------------------------------------------

(* Quotas: counted first, filled later.                                    *)

Staff(f) == {p \in Person : members[f][p].role # "none"}
TotalOf(f, what) == CASE what = "staff" -> Cardinality(Staff(f))
                      [] what = "customers" -> Cardinality(records[f].customers)
                      [] OTHER -> records[f].placed
FullLate(f, what, limit) == TotalOf(f, what) > limit
Full(f, what, limit) == TotalOf(f, what) >= limit
Filling(what) == CASE what = "staff" -> {"findAccount", "findMember", "addMember"}
                   [] what = "customers" -> {"findEmail", "addCustomer"}
                   [] OTHER -> {"createOrder"}
Counts(v, what) ==
  LET f == visit[v].firm
      others == {u \in Visit \ {v} : visit[u].firm = f /\ visit[u].at \in Filling(what)
                                     /\ visit[u].does.kind = visit[v].does.kind}
  IN /\ IF Full(f, what, visit[v].limit[f][what])
        THEN Denied(v) /\ UNCHANGED crowded
        ELSE /\ Turns(v, CASE what = "staff" -> "findAccount" [] what = "customers" -> "findEmail"
                          [] OTHER -> "createOrder")
             /\ crowded' = IF others = {} THEN crowded ELSE crowded \cup {<<f, what>>}
     /\ UNCHANGED <<rowVars, held, acts>>

AssertCanAddStaff(v) == visit[v].at = "countStaff" /\ Counts(v, "staff")
AssertCanAddCustomer(v) == visit[v].at = "countCustomers" /\ Counts(v, "customers")
AssertCanCreateOrder(v) == visit[v].at = "countOrders" /\ Counts(v, "orders")

\* An invited person without an account gets one.
FindAccount(v) ==
  /\ visit[v].at = "findAccount"
  /\ accounts' = [accounts EXCEPT ![visit[v].does.person].user = TRUE]
  /\ Turns(v, "findMember")
  /\ UNCHANGED <<members, logins, keys, records, founded, historyVars>>

FindMember(v) ==
  /\ visit[v].at = "findMember"
  /\ LET kind == visit[v].does.kind
         found == members[visit[v].firm][visit[v].does.person]
     IN \/ kind = "invite" /\ IF found.role = "none" THEN Turns(v, "addMember") ELSE Denied(v)
        \/ /\ kind # "invite"
           /\ IF found.role = "none" \/ (kind = "remove" /\ found.role = "owner") THEN Denied(v)
              ELSE visit' = [visit EXCEPT ![v].row = found.row, ![v].at = kind]
  /\ UNCHANGED <<rowVars, historyVars>>

\* tenantId and userId are unique together.
AddMember(v) ==
  /\ visit[v].at = "addMember"
  /\ LET f == visit[v].firm  p == visit[v].does.person IN
       IF members[f][p].role # "none" THEN Denied(v) /\ UNCHANGED <<members, held, acts>>
       ELSE /\ members' = [members EXCEPT ![f][p] = [role |-> visit[v].does.role, row |-> v]]
            /\ HeldIn(members', keys) /\ Acts(v, f, MANAGE) /\ Ends(v)
  /\ UNCHANGED <<accounts, logins, keys, records, founded, crowded>>

\* The row that was found, by its id: when it is gone the statement throws.
ChangeMember(v) ==
  /\ visit[v].at \in {"promote", "remove"}
  /\ LET f == visit[v].firm  p == visit[v].does.person IN
       IF members[f][p].row # visit[v].row THEN Denied(v) /\ UNCHANGED <<members, held, acts>>
       ELSE /\ members' = [members EXCEPT ![f][p] =
                             IF visit[v].at = "remove" THEN NoMember
                             ELSE [@ EXCEPT !.role = visit[v].does.role]]
            /\ HeldIn(members', keys) /\ Acts(v, f, MANAGE) /\ Ends(v)
  /\ UNCHANGED <<accounts, logins, keys, records, founded, crowded>>

CreateKey(v) ==
  /\ visit[v].at = "makeKey"
  /\ keys' = [keys EXCEPT ![v] = [firm |-> visit[v].firm, scopes |-> visit[v].does.scopes,
                                  valid |-> TRUE]]
  /\ HeldIn(members, keys') /\ Acts(v, visit[v].firm, MANAGE) /\ Ends(v)
  /\ UNCHANGED <<accounts, members, logins, records, founded, crowded>>

FindAnyKey(v) ==
  visit[v].at = "findKey" /\ Turns(v, "revokeKey") /\ UNCHANGED <<rowVars, historyVars>>
FindKey(v) ==
  /\ visit[v].at = "findKey"
  /\ IF keys[visit[v].does.of].firm = visit[v].firm THEN Turns(v, "revokeKey") ELSE Denied(v)
  /\ UNCHANGED <<rowVars, historyVars>>

RevokeKey(v) ==
  /\ visit[v].at = "revokeKey"
  /\ keys' = [keys EXCEPT ![visit[v].does.of].valid = FALSE]
  /\ Acts(v, keys[visit[v].does.of].firm, MANAGE) /\ Ends(v)
  /\ UNCHANGED <<accounts, members, logins, records, founded, held, crowded>>

FindEmail(v) ==
  /\ visit[v].at = "findEmail"
  /\ IF visit[v].does.email \in records[visit[v].firm].customers THEN Denied(v)
     ELSE Turns(v, "addCustomer")
  /\ UNCHANGED <<rowVars, historyVars>>

\* tenantId and email are unique together.
AddCustomer(v) ==
  /\ visit[v].at = "addCustomer"
  /\ LET f == visit[v].firm IN
       IF visit[v].does.email \in records[f].customers
       THEN Denied(v) /\ UNCHANGED <<records, acts>>
       ELSE /\ records' = [records EXCEPT ![f].customers = @ \cup {visit[v].does.email}]
            /\ Acts(v, f, WRITE) /\ Ends(v)
  /\ UNCHANGED <<accounts, members, logins, keys, founded, held, crowded>>

\* getTenantCustomer, then the update of that customer.
FindCustomer(v) ==
  /\ visit[v].at = "findCustomer"
  /\ IF visit[v].does.of = visit[v].firm THEN Turns(v, "editCustomer") ELSE Denied(v)
  /\ UNCHANGED <<rowVars, historyVars>>
EditCustomer(v) ==
  /\ visit[v].at = "editCustomer"
  /\ Acts(v, visit[v].does.of, WRITE) /\ Ends(v)
  /\ UNCHANGED <<rowVars, held, crowded>>

CreateOrder(v) ==
  /\ visit[v].at = "createOrder"
  /\ records' = [records EXCEPT ![visit[v].firm].placed = @ + 1]
  /\ Acts(v, visit[v].firm, WRITE) /\ Ends(v)
  /\ UNCHANGED <<accounts, members, logins, keys, founded, held, crowded>>

\* The API: an entitlement of this tenant, and of this user when a session bears the call.
CreateSession(v) ==
  /\ visit[v].at = "entitlement"
  /\ LET of == visit[v].does.of IN
       IF of.firm # visit[v].firm \/ (~ByKey(v) /\ of.user # visit[v].user)
       THEN Denied(v) /\ UNCHANGED acts
       ELSE Ends(v) /\ Acts(v, of.firm, IF ByKey(v) THEN {"write", "admin"} ELSE VIEW)
  /\ UNCHANGED <<rowVars, held, crowded>>

-----------------------------------------------------------------------------

(* Sessions and accounts.                                                  *)

Login(v) ==
  /\ Does(v, "login", "begin")
  /\ IF accounts[visit[v].does.person].user
     THEN logins' = [logins EXCEPT ![v] = [user |-> visit[v].does.person, firm |-> Nobody]]
          /\ Ends(v)
     ELSE Denied(v) /\ UNCHANGED logins
  /\ UNCHANGED <<accounts, members, keys, records, founded, historyVars>>

\* Also what a session's age does to it.
Logout(v) ==
  /\ Does(v, "logout", "begin")
  /\ logins' = [logins EXCEPT ![visit[v].does.token] = NoLogin] /\ Ends(v)
  /\ UNCHANGED <<accounts, members, keys, records, founded, historyVars>>

\* setActiveTenant: membership is read, then this session of this user is updated.
ChooseFirm(v) ==
  /\ visit[v].at = "choose"
  /\ IF members[visit[v].does.of][visit[v].user].role # "none" THEN Turns(v, "setFirm")
     ELSE Denied(v)
  /\ UNCHANGED <<rowVars, historyVars>>
SetActiveTenant(v) ==
  /\ visit[v].at = "setFirm"
  /\ LET token == visit[v].does.token IN
       IF logins[token].user = visit[v].user
       THEN logins' = [logins EXCEPT ![token].firm = visit[v].does.of] /\ Ends(v)
       ELSE Denied(v) /\ UNCHANGED logins
  /\ UNCHANGED <<accounts, members, keys, records, founded, historyVars>>

JoinWaitlist(v) ==
  /\ Does(v, "join", "begin")
  /\ LET p == visit[v].does.person IN
       IF accounts[p].user THEN Denied(v) /\ UNCHANGED accounts
       ELSE /\ accounts' = IF accounts[p].entry # "absent" THEN accounts
                           ELSE [accounts EXCEPT ![p].entry = "pending"]
            /\ Ends(v)
  /\ UNCHANGED <<members, logins, keys, records, founded, historyVars>>

ReadEntry(v) ==
  /\ Does(v, "approve", "begin")
  /\ IF accounts[visit[v].does.person].entry \in {"absent", "approved"} THEN Denied(v)
     ELSE Turns(v, "approve")
  /\ UNCHANGED <<rowVars, historyVars>>
\* One transaction; the email of a user is unique.
ApproveWaitlistEntry(v) ==
  /\ visit[v].at = "approve"
  /\ LET p == visit[v].does.person IN
       IF accounts[p].user THEN Denied(v) /\ UNCHANGED accounts
       ELSE accounts' = [accounts EXCEPT ![p] = [user |-> TRUE, entry |-> "approved"]] /\ Ends(v)
  /\ UNCHANGED <<members, logins, keys, records, founded, historyVars>>

\* A tenant's sign-up: each row is written alone.
SignUpReads(v) ==
  /\ Does(v, "signup", "begin")
  /\ IF accounts[visit[v].does.person].user THEN Denied(v) ELSE Turns(v, "slug")
  /\ UNCHANGED <<rowVars, historyVars>>
SignUpReadsSlug(v) ==
  /\ visit[v].at \in {"slug", "slugAgain"}
  /\ IF founded[visit[v].does.of].by # Nobody THEN Denied(v)
     ELSE Turns(v, IF visit[v].at = "slug" THEN "account" ELSE "found")
  /\ UNCHANGED <<rowVars, historyVars>>
CreateAccount(v) ==
  /\ visit[v].at = "account"
  /\ LET p == visit[v].does.person IN
       IF accounts[p].user THEN Denied(v) /\ UNCHANGED accounts
       ELSE accounts' = [accounts EXCEPT ![p].user = TRUE] /\ Turns(v, "slugAgain")
  /\ UNCHANGED <<members, logins, keys, records, founded, historyVars>>
CreateTenant(v) ==
  /\ visit[v].at = "found"
  /\ LET f == visit[v].does.of IN
       IF founded[f].by # Nobody THEN Denied(v) /\ UNCHANGED founded
       ELSE founded' = [founded EXCEPT ![f] = [by |-> v, has |-> {}, live |-> TRUE]]
            /\ Turns(v, "own")
  /\ UNCHANGED <<accounts, members, logins, keys, records, historyVars>>
AddOwner(v) ==
  /\ visit[v].at = "own"
  /\ LET f == visit[v].does.of  p == visit[v].does.person IN
       members' = [members EXCEPT ![f][p] = [role |-> "owner", row |-> v]]
  /\ HeldIn(members', keys) /\ Turns(v, "subscription")
  /\ UNCHANGED <<accounts, logins, keys, records, founded, acts, crowded>>
Furnish(v) ==
  /\ visit[v].at \in {"subscription", "balance"}
  /\ founded' = [founded EXCEPT ![visit[v].does.of].has = @ \cup {visit[v].at}]
  /\ Turns(v, IF visit[v].at = "subscription" THEN "balance" ELSE "signin")
  /\ UNCHANGED <<accounts, members, logins, keys, records, historyVars>>
SignIn(v) ==
  /\ visit[v].at = "signin"
  /\ logins' = [logins EXCEPT ![v] = [user |-> visit[v].does.person, firm |-> Nobody]]
  /\ Ends(v)
  /\ UNCHANGED <<accounts, members, keys, records, founded, historyVars>>

AccessSteps(v) ==
  \/ RequireUser(v) \/ ReadSession(v) \/ ReadMembership(v) \/ VerifyKey(v)
  \/ AssertCanAddStaff(v) \/ AssertCanAddCustomer(v) \/ AssertCanCreateOrder(v)
  \/ FindAccount(v) \/ FindMember(v) \/ AddMember(v) \/ ChangeMember(v)
  \/ CreateKey(v) \/ FindKey(v) \/ RevokeKey(v) \/ FindEmail(v) \/ AddCustomer(v)
  \/ FindCustomer(v) \/ EditCustomer(v) \/ CreateOrder(v) \/ CreateSession(v)
AccountSteps(v) ==
  \/ Login(v) \/ Logout(v) \/ ChooseFirm(v) \/ SetActiveTenant(v)
  \/ JoinWaitlist(v) \/ ReadEntry(v) \/ ApproveWaitlistEntry(v)
  \/ SignUpReads(v) \/ SignUpReadsSlug(v) \/ CreateAccount(v) \/ CreateTenant(v)
  \/ AddOwner(v) \/ Furnish(v) \/ SignIn(v)

AccessNext == \E v \in Visit : AccessSteps(v) \/ AccountSteps(v)

AccessSpec == AccessInit /\ [][AccessNext]_accessVars

-----------------------------------------------------------------------------

\* Whatever a request writes for a tenant, its bearer had a right to: some time since the
\* request began, the session's user had a role of that tenant that the route asks for, or
\* the key was valid, of that tenant and of the scope. The checks and the write are
\* apart, so the right may be gone by then, but it was never another's, never of another
\* tenant, and never one that was taken before the request came (tenant/context.ts:74-107).
ActedWithRight ==
  \A a \in acts : \E right \in a.rights : <<a.firm, right>> \in held[a.by]

\* A quota is exceeded only by requests that counted at once: as long as no two of them were
\* between count and insert together, a tenant has no more members, customers and orders
\* of the month than its plan includes (entitlements.ts:84-133). And each tenant has one
\* founder: of two sign-ups for a name or a slug, at most one ends signed in.
QuotaHeldAlone ==
  /\ \A v \in Visit : \A f \in Firm : \A what \in {"staff", "customers", "orders"} :
       <<f, what>> \notin crowded => TotalOf(f, what) <= visit[v].limit[f][what]
  /\ \A v \in Visit : visit[v].does.kind = "signup" /\ visit[v].at = "done" =>
       founded[visit[v].does.of] = [by |-> v, has |-> {"subscription", "balance"}, live |-> TRUE]

\* What is written in a tenant's name was allowed to the writer and to the tenant.
WritesAreAllowed == ActedWithRight /\ QuotaHeldAlone
===============================================================================
