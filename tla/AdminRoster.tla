----------------------------- MODULE AdminRoster -----------------------------
(***************************************************************************)
(* The platform admins: control_plane add_admin, modify_admin and          *)
(* remove_admin over the users table (repo.py) and the identity provider   *)
(* (zitadel_admin.py).  A request checks that another active admin is      *)
(* left, then writes the row, then calls the IdP: three awaits without a   *)
(* transaction, interleaved with other requests.                           *)
(*                                                                         *)
(* Abstracted: passwords, tokens and the role grant; an identity is        *)
(* absent, active or disabled, on either side.                             *)
(***************************************************************************)
EXTENDS Integers

CONSTANTS
    Emails,
    Bootstrap,    \* config.BOOTSTRAP_ADMIN_EMAIL
    Requests,     \* requests that may be in progress at once
    MaxMishaps   \* bound: IdP calls that fail and restarts

ASSUME AdminRosterAssumption ==
    /\ Bootstrap \in Emails
    /\ MaxMishaps \in Nat

VARIABLES
    users,      \* rows with role = 'admin'
    idp,        \* identities in Zitadel
    request,    \* what each request does and where it stands
    mishaps,
    crossed,    \* history: two admins were being taken away at once, and
                \* none has been added or enabled since
    apart       \* history: admins whose requests overlapped, whose IdP call
                \* failed or was cut off, or whom the start-up seeded

rosterVars == <<users, idp, request, mishaps, crossed, apart>>
traces     == <<crossed, apart>>

Status == {"absent", "active", "disabled"}
Idle == [at |-> "idle", to |-> "active", email |-> Bootstrap]

RosterInit ==
    /\ users = [e \in Emails |-> IF e = Bootstrap THEN "active" ELSE "absent"]
    /\ idp = users
    /\ request = [q \in Requests |-> Idle]
    /\ mishaps = 0 /\ crossed = FALSE /\ apart = {}

\* _other_active_admins.
OtherActive(email) == {e \in Emails \ {email} : users[e] = "active"}

\* Requests under way about an admin, and the history their overlap leaves.
About(e)   == {q \in Requests : request[q].at # "idle" /\ request[q].email = e}
Overlap(e) == apart' = IF About(e) = {} THEN apart ELSE apart \cup {e}

Taking(q, e) == request[q].at = "write" /\ request[q].email = e /\ request[q].to # "active"

Revive == crossed' = (crossed /\ \E q \in Requests, e \in Emails : Taking(q, e))

Goto(q, at) == request' = [request EXCEPT ![q].at = at]
Finish(q)   == request' = [request EXCEPT ![q] = Idle]

\* POST /admin/admins: the INSERT is the check (409 if the email is taken).
AddAdmin(q, e) ==
    /\ request[q].at = "idle" /\ users[e] = "absent"
    /\ users' = [users EXCEPT ![e] = "active"]
    /\ request' = [request EXCEPT ![q] = [at |-> "provision", to |-> "active", email |-> e]]
    /\ Revive /\ Overlap(e)
    /\ UNCHANGED <<idp, mishaps>>

\* Mutant of LeavesAdmin: the admin itself is counted.
LeavesAdminCounted(e, to) == to = "active" \/ {f \in Emails : users[f] = "active"} # {}

\* Disabling and removing need another active admin (else 409).
LeavesAdmin(e, to) == to = "active" \/ OtherActive(e) # {}

\* PATCH and DELETE begin with the check ...
CheckAdmin(q, e, to) ==
    /\ request[q].at = "idle"
    /\ LeavesAdmin(e, to)
    /\ request' = [request EXCEPT ![q] = [at |-> "write", to |-> to, email |-> e]]
    /\ crossed' = (crossed \/ (to # "active" /\ \E r \in Requests, f \in Emails \ {e} : Taking(r, f)))
    /\ Overlap(e)
    /\ UNCHANGED <<users, idp, mishaps>>

\* ... and go on with an UPDATE or a DELETE of the row; 404 if there is none.
WriteAdmin(q) ==
    LET e == request[q].email IN
    /\ request[q].at = "write"
    /\ IF users[e] = "absent"
         THEN UNCHANGED <<users, crossed>> /\ Finish(q)
         ELSE /\ users' = [users EXCEPT ![e] = request[q].to]
              /\ Goto(q, "mirror")
              /\ IF request[q].to = "active" THEN Revive ELSE UNCHANGED crossed
    /\ UNCHANGED <<idp, mishaps, apart>>

\* provision_admin_user: the import of an identity that exists is an error,
\* and the row stays (502).
ProvisionIdp(q) ==
    LET e == request[q].email IN
    /\ request[q].at = "provision" /\ idp[e] = "absent"
    /\ idp' = [idp EXCEPT ![e] = "active"]
    /\ Finish(q)
    /\ UNCHANGED <<users, mishaps, traces>>

ProvisionRefused(q) ==
    /\ request[q].at = "provision" /\ idp[request[q].email] # "absent"
    /\ Finish(q)
    /\ UNCHANGED <<users, idp, mishaps, traces>>

\* set_user_active and delete_user leave a missing identity missing.
Mirrored(e, to) == IF idp[e] = "absent" THEN "absent" ELSE to

\* Mutant of MirrorIdp: the identity is only ever deactivated.
MirrorIdpDisabling(q) ==
    LET e == request[q].email IN
    /\ request[q].at = "mirror"
    /\ idp' = [idp EXCEPT ![e] = Mirrored(e, "disabled")]
    /\ Finish(q)
    /\ UNCHANGED <<users, mishaps, traces>>

\* _deactivate, _reactivate or DELETE of the identity.
MirrorIdp(q) ==
    LET e == request[q].email IN
    /\ request[q].at = "mirror"
    /\ idp' = [idp EXCEPT ![e] = Mirrored(e, request[q].to)]
    /\ Finish(q)
    /\ UNCHANGED <<users, mishaps, traces>>

\* The IdP does not answer, or refuses: 502 or 500, the row stays written.
\* A refused DELETE is not even noticed.
IdpFails(q) ==
    /\ request[q].at \in {"provision", "mirror"} /\ mishaps < MaxMishaps
    /\ mishaps' = mishaps + 1
    /\ apart' = apart \cup {request[q].email}
    /\ Finish(q)
    /\ UNCHANGED <<users, idp, crossed>>

\* Admins whose row is written and whose identity is not.
CutOff == {e \in Emails : \E q \in About(e) : request[q].at \in {"provision", "mirror"}}

\* The control plane restarts: requests in progress are gone and seed_admin
\* inserts the bootstrap admin if there is no admin row at all.
Restart ==
    /\ mishaps < MaxMishaps
    /\ mishaps' = mishaps + 1
    /\ request' = [q \in Requests |-> Idle]
    /\ IF \A e \in Emails : users[e] = "absent"
         THEN /\ users' = [users EXCEPT ![Bootstrap] = "active"]
              /\ apart' = apart \cup CutOff \cup {Bootstrap}
         ELSE /\ UNCHANGED users
              /\ apart' = apart \cup CutOff
    /\ UNCHANGED <<idp, crossed>>

RequestStep(q) ==
    \/ \E e \in Emails : AddAdmin(q, e) \/ \E to \in Status : CheckAdmin(q, e, to)
    \/ WriteAdmin(q) \/ ProvisionIdp(q) \/ ProvisionRefused(q)
    \/ MirrorIdp(q) \/ IdpFails(q)

RosterNext == (\E q \in Requests : RequestStep(q)) \/ Restart

RosterSpec == RosterInit /\ [][RosterNext]_rosterVars

----------------------------------------------------------------------------
RosterTypeOK ==
    /\ users \in [Emails -> Status]
    /\ idp \in [Emails -> Status]
    /\ request \in [Requests -> [at : {"idle", "write", "provision", "mirror"},
                                 to : Status, email : Emails]]
    /\ mishaps \in 0 .. MaxMishaps
    /\ crossed \in BOOLEAN /\ apart \subseteq Emails

(* "cannot disable/remove the last active admin": an active admin is left, *)
(* unless the removals of two have passed their checks side by side, which *)
(* nothing prevents: each counts on the other.                             *)
AdminLeft == crossed \/ \E e \in Emails : users[e] = "active"

(* What makes it so: however the other requests have moved the roster      *)
(* since, a check that was passed still holds when the row is written.     *)
CheckHolds ==
    ~ crossed => \A q \in Requests :
        request[q].at = "write" => LeavesAdmin(request[q].email, request[q].to)

(* Once no request about an admin is under way, the table and the identity *)
(* provider agree on that one, whatever happens to the others, as long as  *)
(* its requests came one by one and its calls were answered.               *)
IdpAgrees == \A e \in Emails \ apart : About(e) = {} => idp[e] = users[e]

(* An active admin is left, and the identity provider follows.             *)
RosterInv == RosterTypeOK /\ AdminLeft /\ CheckHolds /\ IdpAgrees
==============================================================================
