-------------------------------- MODULE Groups --------------------------------
(***************************************************************************)
(* Group management (src/src/groups.ts): members and roles of one group,   *)
(* changed by the devices of its members, several at once.  A reconcile is *)
(* a chain of commits from one synced view, any of which may be refused    *)
(* (most often because another device's landed first), and is run once     *)
(* more from a fresh view when one was; a change of role takes one commit  *)
(* or two.                                                                 *)
(*                                                                         *)
(* A device is its member.  Who may commit is the network's business: a    *)
(* commit may fail for any reason, and does when the device is no member.  *)
(***************************************************************************)
EXTENDS Naturals, Sequences, FiniteSets

CONSTANTS
    Member,      \* addresses
    Device,      \* the members that run this package
    Founded,     \* the groups to start from: [members, admins, supers]
    Rosters,     \* what a host may reconcile to: [members, role, protect]
    Reachable,   \* the addresses with an XMTP inbox
    MaxChanges   \* bound on the single changes (add, remove, set role, leave)

ASSUME DeviceAssumption == Device \subseteq Member /\ Device \subseteq Reachable
ASSUME MaxChangesAssumption == MaxChanges \in Nat

Role == {"member", "admin", "super_admin"}

ASSUME FoundedAssumption ==
    \A group \in Founded : group.members \cup group.admins \cup group.supers \subseteq Member
ASSUME RosterAssumption ==
    \A roster \in Rosters : /\ roster.members \subseteq Member
                            /\ \A p \in DOMAIN roster.role : roster.role[p] \in Role

VARIABLES
    grpsIn, grpsAdmins, grpsSupers,   \* the group: members and the two admin lists
    grpsRoster,    \* the roster all devices reconcile to
    grpsOps,       \* per device: what it is doing, from which view
    grpsChanges,   \* single changes so far
    grpsResult,    \* history: how the device's last reconcile ended
    grpsFresh,     \* history: its last pass synced when nobody was on both lists, and no
                   \* single change came since
    grpsHarmed     \* history: [by, who] demoted or removed by a reconcile in that state

grpsGroup == <<grpsIn, grpsAdmins, grpsSupers>>
grpsHistory == <<grpsResult, grpsFresh, grpsHarmed>>
grpsVars == <<grpsGroup, grpsRoster, grpsOps, grpsChanges, grpsHistory>>

\* A single change, which a pass that has synced does not know of.
Disturbs == grpsFresh' = [d \in Device |-> FALSE]

-----------------------------------------------------------------------------
(* Roles *)

\* permissionLevel: the highest list that names the member.
RoleOf(p) ==
    IF p \in grpsSupers THEN "super_admin" ELSE IF p \in grpsAdmins THEN "admin" ELSE "member"

Rank(role) == CASE role = "super_admin" -> 2 [] role = "admin" -> 1 [] OTHER -> 0

\* group.members(), as a map from member to role.
Members == [p \in grpsIn |-> RoleOf(p)]

\* Fault: a promotion leaves the admin list as it is.
PromoteInOne(from, to) ==
    CASE from = to -> <<>>
      [] to = "super_admin" -> <<"addSuper">>
      [] to = "admin" -> <<"addAdmin">>
      [] OTHER -> IF from = "admin" THEN <<"removeAdmin">> ELSE <<"removeSuper">>

\* applyRole (groups.ts:198): the commits that move a member from one role to another.
RoleCommits(from, to) ==
    CASE from = to -> <<>>
      [] to = "super_admin" ->
             IF from = "admin" THEN <<"addSuper", "removeAdmin">> ELSE <<"addSuper">>
      [] to = "admin" ->
             IF from = "super_admin" THEN <<"removeSuper", "addAdmin">> ELSE <<"addAdmin">>
      [] OTHER -> IF from = "admin" THEN <<"removeAdmin">> ELSE <<"removeSuper">>

CommitRole(commit, p) ==
    /\ grpsAdmins' = CASE commit = "addAdmin" -> grpsAdmins \cup {p}
                       [] commit = "removeAdmin" -> grpsAdmins \ {p}
                       [] OTHER -> grpsAdmins
    /\ grpsSupers' = CASE commit = "addSuper" -> grpsSupers \cup {p}
                       [] commit = "removeSuper" -> grpsSupers \ {p}
                       [] OTHER -> grpsSupers
    /\ UNCHANGED grpsIn

\* Removing a member takes its roles with it, or leaves them in the lists.
CommitRemove(gone) ==
    /\ grpsIn' = grpsIn \ gone
    /\ \/ grpsAdmins' = grpsAdmins \ gone /\ grpsSupers' = grpsSupers \ gone
       \/ UNCHANGED <<grpsAdmins, grpsSupers>>

CommitAdd(new) == grpsIn' = grpsIn \cup new /\ UNCHANGED <<grpsAdmins, grpsSupers>>

-----------------------------------------------------------------------------
(* What a device does: the pass of a reconcile, what it adds and removes, the *)
(* view its roles are fixed from and whose are left, and, of the change of    *)
(* role it is at, the member and the commits left.                            *)

NoOp == [pc |-> "idle", pass |-> 0, add |-> {}, remove |-> {}, reread |-> FALSE,
         view |-> <<>>, todo |-> {}, at |-> {}, commits |-> <<>>]

Op(d) == grpsOps[d]
Goes(d, op) == grpsOps' = [grpsOps EXCEPT ![d] = op]

Wanted(d) == grpsRoster.members \ {d}
Missing(d, view) == (Wanted(d) \ DOMAIN view) \cap Reachable
\* (groups.ts:431-433)
Leftover(d, view) == DOMAIN view \ (Wanted(d) \cup grpsRoster.protect \cup {d})

\* Fault: protection is looked up for removals only.
RoleFixesAll(d, view) ==
    {p \in DOMAIN view \ {d} : p \in DOMAIN grpsRoster.role /\ view[p] # grpsRoster.role[p]}

\* The members of a view whose role the roster changes (groups.ts:443-448): never me, and
\* nobody protected to a lower one.
RoleFixes(d, view) ==
    {p \in DOMAIN view \ {d} :
        /\ p \in DOMAIN grpsRoster.role
        /\ view[p] # grpsRoster.role[p]
        /\ p \in grpsRoster.protect => Rank(grpsRoster.role[p]) >= Rank(view[p])}

\* The next stage of a pass that has something to do: adds run before removals, and the
\* roles come last, from the pass's view, or a new one if anything was committed.
Stage(d, op) ==
    LET view == IF op.reread THEN Members' ELSE op.view
    IN  IF op.add # {} THEN [op EXCEPT !.pc = "adding"]
        ELSE IF op.remove # {} THEN [op EXCEPT !.pc = "removing"]
        ELSE [op EXCEPT !.pc = "roles", !.view = view, !.todo = RoleFixes(d, view)]

-----------------------------------------------------------------------------
(* reconcileGroupMembers (groups.ts:393) *)

Reconcile(d) ==
    /\ Op(d) = NoOp /\ d \in grpsIn
    /\ Goes(d, [NoOp EXCEPT !.pc = "syncing", !.pass = 1])
    /\ grpsResult' = [grpsResult EXCEPT ![d] = "none"]
    /\ UNCHANGED <<grpsGroup, grpsRoster, grpsChanges, grpsFresh, grpsHarmed>>

\* group.sync(), group.members() and the reachability check decide what the pass does.
PassSyncs(d) ==
    /\ Op(d).pc = "syncing"
    /\ UNCHANGED grpsGroup
    /\ Goes(d, Stage(d, [Op(d) EXCEPT !.view = Members, !.add = Missing(d, Members),
                             !.remove = Leftover(d, Members)]))
    /\ grpsFresh' = [grpsFresh EXCEPT ![d] = grpsAdmins \cap grpsSupers = {}]
    /\ UNCHANGED <<grpsRoster, grpsChanges, grpsResult, grpsHarmed>>

\* Who loses the membership or rank in this step, by a pass that nothing disturbed.
Harm(d) == grpsHarmed' = grpsHarmed \cup
    {[by |-> d, who |-> p] :
        p \in {q \in grpsIn : grpsFresh[d] /\ (q \notin grpsIn' \/ Rank(RoleOf(q)') < Rank(RoleOf(q)))}}

PassAdds(d) ==
    /\ Op(d).pc = "adding" /\ d \in grpsIn
    /\ CommitAdd(Op(d).add)
    /\ Goes(d, Stage(d, [Op(d) EXCEPT !.add = {}, !.reread = TRUE]))
    /\ UNCHANGED <<grpsRoster, grpsChanges, grpsHistory>>

PassRemoves(d) ==
    /\ Op(d).pc = "removing" /\ d \in grpsIn
    /\ CommitRemove(Op(d).remove)
    /\ Goes(d, Stage(d, [Op(d) EXCEPT !.remove = {}, !.reread = TRUE]))
    /\ Harm(d)
    /\ UNCHANGED <<grpsRoster, grpsChanges, grpsResult, grpsFresh>>

\* The next member of the loop: applyRole, from the role in the view.
PassPicks(d, p) ==
    /\ Op(d).pc = "roles" /\ Op(d).commits = <<>> /\ p \in Op(d).todo
    /\ Goes(d, [Op(d) EXCEPT !.todo = @ \ {p}, !.at = {p},
                    !.commits = RoleCommits(Op(d).view[p], grpsRoster.role[p])])
    /\ UNCHANGED <<grpsGroup, grpsRoster, grpsChanges, grpsHistory>>

\* A commit of applyRole, for a reconcile or for setGroupMemberRole.
RoleCommitted(d, p) ==
    /\ Op(d).commits # <<>> /\ Op(d).at = {p} /\ {d, p} \subseteq grpsIn
    /\ CommitRole(Head(Op(d).commits), p)
    /\ Goes(d, [Op(d) EXCEPT !.commits = Tail(@)])
    /\ IF Op(d).pc = "roles" THEN Harm(d) /\ UNCHANGED grpsFresh
                             ELSE Disturbs /\ UNCHANGED grpsHarmed
    /\ UNCHANGED <<grpsRoster, grpsChanges, grpsResult>>

PassDone(d) ==
    /\ Op(d).pc = "roles" /\ Op(d).todo = {} /\ Op(d).commits = <<>>
    /\ Goes(d, NoOp)
    /\ grpsResult' = [grpsResult EXCEPT ![d] = "matched"]
    /\ UNCHANGED <<grpsGroup, grpsRoster, grpsChanges, grpsFresh, grpsHarmed>>

\* A sync or a commit is refused: the first pass is followed by a second one from the
\* start (its own sync, groups.ts:398, fetches nothing more), whose failure propagates.
PassFails(d) ==
    /\ Op(d).pc \in {"syncing", "adding", "removing"} \/ (Op(d).pc = "roles" /\ Op(d).commits # <<>>)
    /\ IF Op(d).pass = 1
         THEN Goes(d, [NoOp EXCEPT !.pc = "syncing", !.pass = 2]) /\ UNCHANGED grpsResult
         ELSE Goes(d, NoOp) /\ grpsResult' = [grpsResult EXCEPT ![d] = "failed"]
    /\ UNCHANGED <<grpsGroup, grpsRoster, grpsChanges, grpsFresh, grpsHarmed>>

-----------------------------------------------------------------------------
(* Single changes *)

SingleChange(d) ==
    /\ Op(d) = NoOp /\ d \in grpsIn
    /\ grpsChanges < MaxChanges /\ grpsChanges' = grpsChanges + 1

\* addGroupMembers, which refuses the whole call for an unreachable address
AddGroupMembers(d, p) ==
    /\ SingleChange(d) /\ p \in Reachable \ grpsIn
    /\ CommitAdd({p})
    /\ Disturbs
    /\ UNCHANGED <<grpsRoster, grpsOps, grpsResult, grpsHarmed>>

\* removeGroupMembers of somebody else, or leaveGroup
RemoveGroupMembers(d, p) ==
    /\ SingleChange(d) /\ p \in grpsIn
    /\ CommitRemove({p})
    /\ Disturbs
    /\ UNCHANGED <<grpsRoster, grpsOps, grpsResult, grpsHarmed>>

\* setGroupMemberRole: the commits follow from the role read now.
SetGroupMemberRole(d, p, role) ==
    /\ SingleChange(d) /\ p \in grpsIn /\ RoleOf(p) # role
    /\ Goes(d, [NoOp EXCEPT !.pc = "setting", !.at = {p}, !.commits = RoleCommits(RoleOf(p), role)])
    /\ UNCHANGED <<grpsGroup, grpsRoster, grpsHistory>>

\* Its last commit is in, or one was refused: there is no second try.
SetRoleEnds(d) ==
    /\ Op(d).pc = "setting"
    /\ Goes(d, NoOp)
    /\ UNCHANGED <<grpsGroup, grpsRoster, grpsChanges, grpsHistory>>

-----------------------------------------------------------------------------
(* Specification *)

\* As createGroup and the changes of earlier sessions left it.
GroupsInit ==
    /\ \E group \in Founded :
           grpsIn = group.members /\ grpsAdmins = group.admins /\ grpsSupers = group.supers
    /\ grpsRoster \in Rosters
    /\ grpsOps = [d \in Device |-> NoOp] /\ grpsChanges = 0
    /\ grpsResult = [d \in Device |-> "none"] /\ grpsFresh = [d \in Device |-> FALSE]
    /\ grpsHarmed = {}

GroupsNext ==
    \E d \in Device :
        \/ Reconcile(d) \/ PassSyncs(d) \/ PassAdds(d) \/ PassRemoves(d)
        \/ PassDone(d) \/ PassFails(d) \/ SetRoleEnds(d)
        \/ \E p \in Member :
               \/ PassPicks(d, p) \/ RoleCommitted(d, p)
               \/ AddGroupMembers(d, p) \/ RemoveGroupMembers(d, p)
               \/ \E role \in Role : SetGroupMemberRole(d, p, role)

GroupsSpec == GroupsInit /\ [][GroupsNext]_grpsVars

-----------------------------------------------------------------------------
(* Properties *)

GroupsTypeOK ==
    /\ grpsIn \subseteq Member /\ grpsAdmins \subseteq Member /\ grpsSupers \subseteq Member
    /\ grpsRoster \in Rosters
    /\ \A d \in Device :
           /\ Op(d).pc \in {"idle", "syncing", "adding", "removing", "roles", "setting"}
           /\ Op(d).pass \in 0..2 /\ Op(d).reread \in BOOLEAN
           /\ (Op(d).add \cup Op(d).remove \cup Op(d).todo \cup Op(d).at) \subseteq Member
           /\ Len(Op(d).commits) <= 2
           /\ DOMAIN Op(d).view \subseteq Member
    /\ grpsChanges \in 0..MaxChanges
    /\ grpsResult \in [Device -> {"none", "matched", "failed"}]
    /\ grpsFresh \in [Device -> BOOLEAN]
    /\ grpsHarmed \subseteq [by : Device, who : Member]

\* What the roster asks of the group, as far as device d may bring it about.
Matches(d) ==
    /\ Wanted(d) \cap Reachable \subseteq grpsIn
    /\ grpsIn \subseteq Wanted(d) \cup grpsRoster.protect \cup {d}
    /\ \A p \in (grpsIn \cap DOMAIN grpsRoster.role) \ {d} :
           \/ RoleOf(p) = grpsRoster.role[p]
           \/ p \in grpsRoster.protect /\ Rank(RoleOf(p)) > Rank(grpsRoster.role[p])

\* A reconcile that returned has matched the group to the roster, whatever other devices
\* reconciled at the same time from views of their own, whichever commits were refused
\* and retried; unless a single change came after its last sync, or it started from a
\* member on both admin lists.
RosterReached ==
    (\A d \in Device : Op(d).pc = "idle")
        => \A d \in Device : grpsResult[d] = "matched" /\ grpsFresh[d] => Matches(d)

\* A reconcile removes or demotes neither its own device nor a protected member, not even
\* between the two commits of a change of role, under the same proviso.
ProtectedStay ==
    \A h \in grpsHarmed : h.who # h.by /\ h.who \notin grpsRoster.protect
=============================================================================
