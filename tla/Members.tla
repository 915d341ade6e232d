------------------------------- MODULE Members -------------------------------
(***************************************************************************)
(* The members of one project and their roles: the routes under            *)
(* /api/projects/:id/members, ProjectMemberService and                     *)
(* DrizzleMembershipDb.  Every query is a statement of its own; what makes *)
(* a project keep an owner is read in two of them before the third writes. *)
(* The roles "member" and "viewer", which change nothing here, are left    *)
(* out.                                                                    *)
(***************************************************************************)
EXTENDS FiniteSets, Naturals

CONSTANTS
  Users,
  Creator,  \* projects.created_by
  Changes   \* requests under way that change a role or remove a member

ASSUME CreatorAssumption == Creator \in Users /\ IsFiniteSet(Users)

VARIABLES
  role,    \* role[u]: of the row in project_members, "none" without one
  change,  \* change[x]: the step of a request, its target and new role, what it read
  owned,   \* history: there has been an owner
  raced    \* history: a change was written by a check another write had overtaken

memberVars == <<role, change, owned, raced>>

NoChange == [pc |-> "idle", user |-> Creator, to |-> "none", owners |-> 0, stale |-> FALSE]

(* POST /api/projects makes its creator an owner; the default projects and *)
(* those of chat/start have no members.                                    *)
MembersInit ==
  /\ role \in {[u \in Users |-> IF u = Creator THEN r ELSE "none"] : r \in {"owner", "none"}}
  /\ change = [x \in Changes |-> NoChange]
  /\ owned = (role[Creator] = "owner")
  /\ raced = FALSE

Owners == {u \in Users : role[u] = "owner"}

(* getProjectRole: a creator without a row counts as an owner. *)
ProjectRole(u) == IF role[u] = "none" /\ u = Creator THEN "owner" ELSE role[u]

(* POST: an owner or an admin adds a member; the unique index refuses one  *)
(* who is there.  A creator may add himself, and so lose the project.      *)
AddMember(u, to) ==
  /\ \E actor \in Users : ProjectRole(actor) \in {"owner", "admin"}
  /\ role[u] = "none"
  /\ role' = [role EXCEPT ![u] = to]
  /\ owned' = (owned \/ to = "owner")
  /\ change' = [x \in Changes |-> [change[x] EXCEPT !.stale = @ \/ (change[x].pc # "idle" /\ change[x].user = u)]]
  /\ UNCHANGED raced

(* PATCH with a role, or DELETE ("none"), by an owner. *)
Request(x, u, to) ==
  /\ change[x].pc = "idle"
  /\ \E actor \in Users : ProjectRole(actor) = "owner"
  /\ change' = [change EXCEPT ![x] = [NoChange EXCEPT
       !.pc = IF to = "none" THEN "find" ELSE IF to = "owner" THEN "write" ELSE "count",
       !.user = u, !.to = to]]
  /\ UNCHANGED <<role, owned, raced>>

\* The next step of request x, or none: the answer.
Step(x, pc) == change' = IF pc = "idle" THEN [change EXCEPT ![x] = NoChange] ELSE [change EXCEPT ![x].pc = pc]

(* updateRole counts the owners before it looks at the member; removeMember *)
(* looks first, and counts if it found an owner.                           *)
CountOwners(x) ==
  /\ change[x].pc = "count"
  /\ IF change[x].to = "none"
     THEN Step(x, IF Cardinality(Owners) <= 1 THEN "idle" ELSE "write")
     ELSE change' = [change EXCEPT ![x].pc = "find", ![x].owners = Cardinality(Owners)]
  /\ UNCHANGED <<role, owned, raced>>

(* Mutant: the last owner may be made an admin. *)
FindMemberOffByOne(x) ==
  LET was == role[change[x].user] IN
  /\ change[x].pc = "find"
  /\ IF change[x].to = "none"
     THEN Step(x, IF was = "none" THEN "idle" ELSE IF was = "owner" THEN "count" ELSE "write")
     ELSE Step(x, IF was = "owner" /\ change[x].owners < 1 THEN "idle" ELSE "write")
  /\ UNCHANGED <<role, owned, raced>>

FindMember(x) ==
  LET was == role[change[x].user] IN
  /\ change[x].pc = "find"
  /\ IF change[x].to = "none"
     THEN Step(x, IF was = "none" THEN "idle" ELSE IF was = "owner" THEN "count" ELSE "write")
     ELSE Step(x, IF was = "owner" /\ change[x].owners <= 1 THEN "idle" ELSE "write")
  /\ UNCHANGED <<role, owned, raced>>

(* The UPDATE or DELETE of the row, which may be gone by now. *)
WriteRole(x) ==
  LET u == change[x].user IN
  /\ change[x].pc = "write"
  /\ role' = IF role[u] = "none" THEN role ELSE [role EXCEPT ![u] = change[x].to]
  /\ owned' = (owned \/ role'[u] = "owner")
  /\ change' = [y \in Changes |-> IF y = x THEN NoChange
                                  ELSE [change[y] EXCEPT !.stale = @ \/ change[y].pc # "idle"]]
  /\ raced' = (raced \/ change[x].stale)

MembersNext ==
  \/ \E u \in Users, to \in {"owner", "admin"} : AddMember(u, to)
  \/ \E x \in Changes :
       \/ \E u \in Users, to \in {"owner", "admin", "none"} : Request(x, u, to)
       \/ CountOwners(x) \/ FindMember(x) \/ WriteRole(x)

MembersSpec == MembersInit /\ [][MembersNext]_memberVars

(* "Cannot remove the last owner of a project" (membership-store.ts): no   *)
(* sequence of requests takes from a project the last of its owners,       *)
(* unless a role was written, or the member added, while another request   *)
(* was between its check and its own write, which the comments at the end  *)
(* of membership-store.ts and in drizzle-membership-db.ts admit.           *)
KeepsAnOwner == owned /\ ~raced => Owners # {}
=============================================================================
