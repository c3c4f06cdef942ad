----------------------------- MODULE Directory ------------------------------
(***************************************************************************)
(* One organisation under concurrent database sessions: its own API, its   *)
(* identity provider's SCIM requests and SAML sign-ons, and the accounts'  *)
(* registrations and deletions.                                            *)
(*                                                                         *)
(* No operation takes a lock.  A session reads, decides, and at the end of *)
(* get_session's block writes the columns it changed; only the tables'     *)
(* unique constraints and the rows that are gone stop it.  The reads of a  *)
(* session are taken at one instant.                                       *)
(***************************************************************************)
EXTENDS DirectoryOps

CONSTANTS
  Sessions,
  Openings,   (* the tables a behaviour may start with                     *)
  Requests,   (* the requests this instance lets happen                    *)
  MaxOps      (* bound: requests in a behaviour                            *)

VARIABLES
  db,         (* the committed tables                                      *)
  pc,         (* per session: idle, called, open, mint                     *)
  req,        (* per session: the request it serves                        *)
  seen,       (* per session: the tables it read                           *)
  address,    (* per session: the e-mail a sign-on will link by            *)
  signed,     (* users the IdP has been given a session for: their rows    *)
              (* name its sign-in user (supertokens_user_id)               *)
  astray,     (* those of them that were given it because the account that *)
              (* signed on had lost its e-mail by then                     *)
  budget

vars == <<db, pc, req, seen, address, signed, astray, budget>>

(* What the code keeps true of the tables beside their types: a row that is *)
(* not there is blank, an account in use has an e-mail, and a SCIM token is  *)
(* live or revoked.                                                          *)
RowsAreWhole(d) ==
  /\ \A u \in Users : ~IsMember(d, u) => d.members[u] = NoMember
  /\ \A u \in Users : HasAccount(d, u) <=> d.accounts[u].email # Nothing
  /\ d.live \cap d.revoked = {}

(* The IdP's bindings name only accounts the organisation provisioned.       *)
BindsItsOwn(d) ==
  \A k \in Keys : d.bound[k] # Nothing => d.accounts[d.bound[k]].source \in {"org", "gone"}

(* One e-mail names one account, one external id one member.                 *)
NamesOne(d) ==
  \A u, v \in Users : u # v =>
    /\ HasAccount(d, u) /\ HasAccount(d, v) => d.accounts[u].email # d.accounts[v].email
    /\ d.members[u].ext = d.members[v].ext => d.members[u].ext = Nothing

ASSUME OpeningsAssumption ==
  \A d \in Openings : d \in Tables /\ RowsAreWhole(d) /\ BindsItsOwn(d) /\ NamesOne(d)
ASSUME MaxOpsAssumption == MaxOps \in Nat
ASSUME RequestsAssumption == \A o \in Requests : WellFormed(o)

Allowed(d, o) ==
  CASE o.kind = "create"   -> MayCreateOrg(d, o)   [] o.kind = "add"    -> MayAddMember(d, o)
    [] o.kind = "role"     -> MaySetRole(d, o)     [] o.kind = "remove" -> MayRemove(d, o)
    [] o.kind = "sso"      -> MayPatchSso(d, o)    [] o.kind = "mfa"    -> MayPatchMfa(d, o)
    [] o.kind = "group"    -> MayCreateGroup(d, o) [] o.kind = "ungroup" -> MayDeleteGroup(d, o)
    [] o.kind = "join"     -> MayJoin(d, o)        [] o.kind = "part"   -> MayPart(d, o)
    [] o.kind = "mint"     -> MayMint(d, o)        [] o.kind = "revoke" -> MayRevoke(d, o)
    [] o.kind = "provision" -> MayScimCreate(d, o) [] o.kind = "write"  -> MayScimWrite(d, o)
    [] o.kind = "deprovision" -> MayScimDelete(d, o)
    [] o.kind = "post"     -> MayScimPost(d, o)    [] o.kind = "put"    -> MayScimPut(d, o)
    [] o.kind = "addto"    -> MayScimAdd(d, o)     [] o.kind = "takefrom" -> MayScimTake(d, o)
    [] o.kind = "drop"     -> MayScimDropGroup(d, o)
    [] o.kind = "signon"   -> MaySignOn(d, o)      [] o.kind = "erase"  -> MayErase(d, o)
    [] OTHER               -> MayRegister(d, o)

Result(d, o) ==
  CASE o.kind = "create"   -> CreateOrg(d, o)      [] o.kind = "add"    -> AddMember(d, o)
    [] o.kind = "role"     -> SetRole(d, o)        [] o.kind = "remove" -> RemoveMember(d, o)
    [] o.kind = "sso"      -> PatchSso(d, o)       [] o.kind = "mfa"    -> PatchMfa(d, o)
    [] o.kind = "group"    -> CreateGroup(d, o)    [] o.kind = "ungroup" -> DeleteGroup(d, o)
    [] o.kind \in {"join", "addto"}    -> Join(d, o)
    [] o.kind \in {"part", "takefrom"} -> Part(d, o)
    [] o.kind = "mint"     -> Mint(d, o)           [] o.kind = "revoke" -> Revoke(d, o)
    [] o.kind = "provision" -> ScimCreate(d, o)    [] o.kind = "write"  -> ScimWrite(d, o)
    [] o.kind = "deprovision" -> ScimDelete(d, o)
    [] o.kind \in {"post", "put"}      -> ScimPut(d, o)
    [] o.kind = "drop"     -> ScimDropGroup(d, o)
    [] o.kind = "signon"   -> SignOn(d, o)         [] o.kind = "erase"  -> Erase(d, o)
    [] OTHER               -> Register(d, o)
------------------------------------------------------------------------------
(* What a commit writes over the tables as they are by now: the columns and *)
(* rows in which the session's result differs from what it read.            *)
Written(now, old, new) == IF new = old THEN now ELSE new
Patched(now, old, new) == (now \ (old \ new)) \cup (new \ old)

MergedMember(now, old, new) ==
  IF new = old THEN now
  ELSE IF new = NoMember \/ old = NoMember THEN new
  ELSE [role |-> Written(now.role, old.role, new.role),
        active |-> Written(now.active, old.active, new.active),
        ext |-> Written(now.ext, old.ext, new.ext)]

Merged(now, old, new) ==
  [exists   |-> now.exists \/ new.exists,
   settings |-> Written(now.settings, old.settings, new.settings),
   accounts |-> [u \in Users |-> Written(now.accounts[u], old.accounts[u], new.accounts[u])],
   members  |-> [u \in Users |-> MergedMember(now.members[u], old.members[u], new.members[u])],
   groups   |-> Patched(now.groups, old.groups, new.groups),
   dropped  |-> now.dropped \cup new.dropped,
   joined   |-> {j \in Patched(now.joined, old.joined, new.joined) :
                   j[1] \notin old.groups \ new.groups},
   bound    |-> [k \in Keys |-> Written(now.bound[k], old.bound[k], new.bound[k])],
   live     |-> Patched(now.live, old.live, new.live),
   revoked  |-> now.revoked \cup new.revoked]

(* Mutation: users.email is not unique.                                     *)
NoEmailClash(now, old, new) == FALSE

(* uq_org_member, uq_org_member_external_id, users.email, uq_saml_identity, *)
(* the group constraints and org.slug.                                      *)
ExtClash(now, old, new) ==
  \E u, v \in Users : /\ new.members[u].ext # old.members[u].ext
                      /\ new.members[u].ext # Nothing
                      /\ u # v /\ now.members[v].ext = new.members[u].ext
EmailClash(now, old, new) ==
  \E u, v \in Users : /\ new.accounts[u].email # old.accounts[u].email
                      /\ new.accounts[u].email # Nothing
                      /\ u # v /\ now.accounts[v].email = new.accounts[u].email
KeyClash(now, old, new) ==
  \E k \in Keys : new.bound[k] # old.bound[k] /\ new.bound[k] # Nothing /\ now.bound[k] # old.bound[k]

(* An insert of a row that exists by now, or a change to a row that is gone.*)
RowClash(now, old, new) ==
  \/ ~old.exists /\ now.exists
  \/ \E u \in Users :
       /\ new.members[u] # old.members[u] /\ new.members[u] # NoMember
       /\ IsMember(now, u) # IsMember(old, u)
  \/ \E u \in Users :
       /\ new.accounts[u] # old.accounts[u] /\ new.accounts[u] # GoneAccount
       /\ now.accounts[u].source # old.accounts[u].source
  \/ (new.groups \ old.groups) \cap now.groups # {}
  \/ \E j \in new.joined \ old.joined :
       j \in now.joined \/ j[1] \in now.dropped

Clashes(now, old, new) == \/ ExtClash(now, old, new)  \/ EmailClash(now, old, new)
                          \/ KeyClash(now, old, new)  \/ RowClash(now, old, new)
------------------------------------------------------------------------------
Init == /\ db \in Openings
        /\ pc = [s \in Sessions |-> "idle"]
        /\ req = [s \in Sessions |-> NoRequest]
        /\ seen = [s \in Sessions |-> NoTables]
        /\ address = [s \in Sessions |-> Nothing]
        /\ signed = {} /\ astray = {}
        /\ budget = MaxOps

Close(s) == /\ pc' = [pc EXCEPT ![s] = "idle"]
            /\ req' = [req EXCEPT ![s] = NoRequest]
            /\ seen' = [seen EXCEPT ![s] = NoTables]
            /\ address' = [address EXCEPT ![s] = Nothing]

(* require_scim_org and _org_with_sso look the organisation up in a session *)
(* of their own, before the one that serves the request.                    *)
Call(s, o) ==
  /\ pc[s] = "idle" /\ budget > 0 /\ db.exists
  /\ o.kind \in ScimKinds => db.live # {}
  /\ o.kind = "signon" => SsoEnabled(db)
  /\ o.kind \in ScimKinds \cup {"signon"}
  /\ pc' = [pc EXCEPT ![s] = "called"]
  /\ req' = [req EXCEPT ![s] = o]
  /\ budget' = budget - 1
  /\ UNCHANGED <<db, seen, address, signed, astray>>

(* A sign-on reads or makes a users row that has a sign-in user, or that    *)
(* will be linked by its e-mail.                                            *)
EmailOf(d, o) == IF HasAccount(d, o.who) THEN d.accounts[o.who].email ELSE o.email
LinksBy(d, o) == IF o.kind = "signon" /\ o.who \notin signed THEN EmailOf(d, o) ELSE Nothing

Open(s, o) ==
  /\ Allowed(db, o)
  /\ pc' = [pc EXCEPT ![s] = "open"]
  /\ req' = [req EXCEPT ![s] = o]
  /\ seen' = [seen EXCEPT ![s] = db]
  /\ address' = [address EXCEPT ![s] = LinksBy(db, o)]
  /\ UNCHANGED <<db, signed, astray>>

(* Every other request is checked and served in one session.  A token is    *)
(* random: no two mints draw the same.                                      *)
Begin(s, o) ==
  /\ pc[s] = "idle" /\ budget > 0
  /\ o.kind \notin ScimKinds \cup {"signon"}
  /\ o.kind \in OrgKinds \ {"create"} => db.exists
  /\ o.kind = "mint" => \A t \in Sessions : req[t].token # o.token
  /\ Open(s, o)
  /\ budget' = budget - 1

Serve(s) == /\ pc[s] = "called"
            /\ Open(s, req[s])
            /\ UNCHANGED budget

Refuse(s) == /\ pc[s] = "called"
             /\ ~Allowed(db, req[s])
             /\ UNCHANGED <<db, signed, astray, budget>>
             /\ Close(s)

Commit(s) ==
  LET new == Result(seen[s], req[s])
  IN  /\ pc[s] = "open"
      /\ ~Clashes(db, seen[s], new)
      /\ db' = Merged(db, seen[s], new)
      /\ IF req[s].kind = "signon"
           THEN /\ pc' = [pc EXCEPT ![s] = "mint"]
                /\ seen' = [seen EXCEPT ![s] = NoTables]
                /\ UNCHANGED <<req, address>>
           ELSE Close(s)
      /\ UNCHANGED <<signed, astray, budget>>

(* A unique violation, a row that is gone, an error or a crash.             *)
Rollback(s) == /\ pc[s] # "idle"
               /\ UNCHANGED <<db, signed, astray, budget>>
               /\ Close(s)

(* consume mints the session after its transaction.  An account that has no *)
(* sign-in user is given the IdP's by link_supertokens_id, which looks its  *)
(* e-mail up again: whoever holds it by now is linked and signed on.        *)
Holds(u, e) == HasAccount(db, u) /\ db.accounts[u].email = e

MintSession(s) ==
  LET who == req[s].who
      reached == IF address[s] = Nothing THEN {who} ELSE {u \in Users : Holds(u, address[s])}
  IN  /\ pc[s] = "mint"
      /\ signed' = signed \cup reached
      /\ astray' = IF address[s] = Nothing \/ Holds(who, address[s]) THEN astray
                   ELSE astray \cup reached
      /\ UNCHANGED <<db, budget>>
      /\ Close(s)

Next == \E s \in Sessions :
          \/ \E o \in Requests : Call(s, o) \/ Begin(s, o)
          \/ Serve(s) \/ Refuse(s) \/ Commit(s) \/ Rollback(s) \/ MintSession(s)

Spec == Init /\ [][Next]_vars
------------------------------------------------------------------------------
TypeOK ==
  /\ db \in Tables
  /\ pc \in [Sessions -> {"idle", "called", "open", "mint"}]
  /\ RowsAreWhole(db)
  /\ req \in [Sessions -> Requests \cup {NoRequest}]
  /\ seen \in [Sessions -> Tables]
  /\ address \in [Sessions -> Emails \cup {Nothing}]
  /\ {signed, astray} \subseteq SUBSET Users
  /\ budget \in Nat

(* An organisation's IdP signs in only accounts that the organisation       *)
(* provisioned (saml/service.py, "Who is this?"), whatever registrations,   *)
(* deletions and provisioning overlap: no binding ever names an account     *)
(* whose authority is somebody else, and its sessions reach one only if the *)
(* account that signed on lost its e-mail to it before its session was made.*)
IdpReachesItsOwn ==
  /\ BindsItsOwn(db)
  /\ \A u \in signed \ astray : db.accounts[u].source \in {"org", "gone"}

(* The checks before an insert race; one e-mail still names one account and *)
(* one external id one member.                                              *)
IdentitiesAreUnique == NamesOne(db)

Lands(s) == pc[s] = "open" /\ Commit(s)
MembersCurrent(s) == seen[s].members = db.members

(* The last owner is neither removed nor demoted through the organisation's *)
(* own API (orgs/service.py, 33), as long as nobody changed a membership    *)
(* between the count of the owners and the commit.                          *)
OwnersStay ==
  [][\A s \in Sessions :
       Lands(s) /\ req[s].kind \in OrgKinds /\ MembersCurrent(s) /\ ActiveOwners(db) # {}
         => ActiveOwners(db') # {}]_vars

(* Groups hold members of the organisation only (OrgGroupMember), unless a  *)
(* removal overlaps with what puts the member into a group.                 *)
GroupsHoldMembers(d) == \A j \in d.joined : j[1] \in d.groups /\ IsMember(d, j[2])

GroupsStayInside ==
  [][\A s \in Sessions :
       Lands(s) /\ MembersCurrent(s) /\ seen[s].joined = db.joined /\ GroupsHoldMembers(db)
         => GroupsHoldMembers(db')]_vars

(* Owners and admins are made by owners, and only owners change the SSO     *)
(* configuration or the SCIM token: neither an admin nor the IdP can        *)
(* (orgs/service.py, 29; OrgMember.sso_attributes).                         *)
OwnersDecide ==
  [][\A s \in Sessions :
       Lands(s) /\ MembersCurrent(s) /\ req[s].kind # "create"
         => \/ req[s].kind \in OrgKinds /\ req[s].by \in ActiveOwners(db)
            \/ /\ \A u \in Users : db'.members[u].role \in {"member", "none", db.members[u].role}
               /\ seen[s].settings = db.settings => db'.settings.saml = db.settings.saml
               /\ db'.live = db.live]_vars

(* Minting a token leaves it the only live one, unless another mint         *)
(* overlaps (scim/models.py, 21).                                           *)
OneLiveToken ==
  [][\A s \in Sessions :
       Lands(s) /\ seen[s].live = db.live /\ Cardinality(db.live) <= 1
         => Cardinality(db'.live) <= 1]_vars

(* An organisation never becomes ownerless through its API, whatever        *)
(* overlaps (orgs/service.py, 33).                                          *)
NeverOwnerless == db.exists => ActiveOwners(db) # {}
==============================================================================
