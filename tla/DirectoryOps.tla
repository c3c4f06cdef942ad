---------------------------- MODULE DirectoryOps ----------------------------
(***************************************************************************)
(* One organisation's tables, and what each operation does to what its     *)
(* session read: the organisation API (auth/orgs/service.py), SCIM         *)
(* provisioning (auth/scim/service.py) and SAML just-in-time sign-on       *)
(* (auth/saml/service.py).                                                 *)
(*                                                                         *)
(* d is the tables as a session read them, o the request.  May...(d, o)    *)
(* holds when the code refuses nothing, the other operator is the tables   *)
(* the session then wants.  The IdP uses e-mail-shaped user names, so an   *)
(* account's e-mail is also its userName; display names are left out.      *)
(***************************************************************************)
EXTENDS Integers, FiniteSets

CONSTANTS
  Users,      (* ids of users rows, those not in use included              *)
  Emails,
  ExtIds,     (* the IdP's own ids of people                               *)
  Groups,     (* groups, by name; a group's externalId is left out         *)
  Tokens,     (* SCIM tokens ever minted                                   *)
  Verified,   (* users whose session has passed MFA                        *)
  Nothing     (* no e-mail, no external id, nobody                         *)

Roles == {"owner", "admin", "member"}
ManagerRoles == {"owner", "admin"}
Keys == Emails \cup ExtIds

Keep == "keep"   (* a PATCH that does not name the attribute                  *)

ASSUME NothingAssumption == Nothing \notin Emails \cup ExtIds \cup Users
ASSUME KeysAssumption    == Emails \cap ExtIds = {} /\ Keep \notin Keys \cup {Nothing}

(* A users row: whose account it is (identity_source), and its e-mail.      *)
(* Ids are random: one that is gone is never used again.                    *)
Account == [source: {"none", "local", "org", "gone"}, email: Emails \cup {Nothing}]
NoAccount == [source |-> "none", email |-> Nothing]
GoneAccount == [source |-> "gone", email |-> Nothing]

(* An org_member row.                                                       *)
Member == [role: Roles \cup {"none"}, active: BOOLEAN, ext: ExtIds \cup {Nothing}]
NoMember == [role |-> "none", active |-> FALSE, ext |-> Nothing]
NewMember(r) == [role |-> r, active |-> TRUE, ext |-> Nothing]

(* settings is one JSON column: the SSO configuration (a version number;    *)
(* odd versions have it switched on) and mfa_required.                      *)
Settings == [saml: 0 .. 3, mfa: BOOLEAN]

Tables == [exists: BOOLEAN, settings: Settings,
           accounts: [Users -> Account], members: [Users -> Member],
           groups: SUBSET Groups, dropped: SUBSET Groups, joined: SUBSET (Groups \X Users),
           bound: [Keys -> Users \cup {Nothing}],
           live: SUBSET Tokens, revoked: SUBSET Tokens]

(* A new installation.                                                      *)
NoTables == [exists |-> FALSE, settings |-> [saml |-> 0, mfa |-> FALSE],
             accounts |-> [u \in Users |-> NoAccount], members |-> [u \in Users |-> NoMember],
             groups |-> {}, dropped |-> {}, joined |-> {}, bound |-> [k \in Keys |-> Nothing],
             live |-> {}, revoked |-> {}]

Fresh(d, u)      == d.accounts[u].source = "none"
HasAccount(d, u) == d.accounts[u].source \in {"local", "org"}
IsMember(d, u)   == d.members[u].role # "none"
IsActive(d, u)   == IsMember(d, u) /\ d.members[u].active
ActiveOwners(d)  == {u \in Users : IsActive(d, u) /\ d.members[u].role = "owner"}
Owned(d, u)      == d.accounts[u].source = "org"
EmailTaken(d, e) == \E u \in Users : HasAccount(d, u) /\ d.accounts[u].email = e
ExtTaken(d, x, but) == \E u \in Users \ {but} : IsMember(d, u) /\ d.members[u].ext = x
SsoEnabled(d)    == d.settings.saml % 2 = 1
------------------------------------------------------------------------------
ScimKinds == {"provision", "write", "deprovision", "post", "put", "addto", "takefrom", "drop"}
OrgKinds  == {"create", "add", "role", "remove", "sso", "mfa", "group", "ungroup",
              "join", "part", "mint", "revoke"}

(* Requests.  One record for all kinds; a field a kind does not use keeps   *)
(* its value of NoRequest.                                                  *)
NoRequest == [kind |-> "none", by |-> Nothing, who |-> Nothing, role |-> "none",
              email |-> Nothing, ext |-> Nothing, active |-> Keep,
              groups |-> {}, token |-> Nothing]

(* A request as the schemas of the routes let it through: the manager is    *)
(* the session's user, the path names the member, the body carries the rest.*)
Request == [kind: ScimKinds \cup OrgKinds \cup {"signon", "erase", "register"},
            by: Users \cup {Nothing}, who: Users \cup {Nothing}, role: Roles \cup {"none"},
            email: Emails \cup {Keep, Nothing}, ext: ExtIds \cup {Keep, Nothing},
            active: {"on", "off", Keep}, groups: SUBSET Groups, token: Tokens \cup {Nothing}]

WellFormed(o) ==
  /\ o \in Request
  /\ o.kind \in OrgKinds => o.by \in Users
  /\ o.kind \in {"add", "role"} => o.role \in Roles
  /\ o.kind = "mint" => o.token \in Tokens
  /\ o.kind \in {"provision", "signon", "register"} => o.email \in Emails
  /\ o.kind = "write" => o.email \in Emails \cup {Keep}
  /\ o.kind \in {"provision", "signon"} => o.ext # Keep
  /\ o.kind \in {"add", "role", "remove", "join", "part", "provision", "write", "deprovision",
                 "addto", "takefrom", "signon", "erase", "register"} => o.who \in Users

(* _require_membership: an active member, of one of the roles, past the     *)
(* organisation's MFA gate.                                                 *)
Passes(d, u)  == d.settings.mfa => u \in Verified
Manages(d, u) == IsActive(d, u) /\ d.members[u].role \in ManagerRoles /\ Passes(d, u)
Owns(d, u)    == IsActive(d, u) /\ d.members[u].role = "owner" /\ Passes(d, u)

(* _can_assign and _can_touch: an owner everything, an admin plain members. *)
CanDeal(d, u, role) == d.members[u].role = "owner" \/ role = "member"

(* Mutation: the owners are not counted.                                    *)
AnyOwnerMayGo(d, u) == TRUE

(* The last owner is neither demoted nor removed.                           *)
KeepsOwner(d, u) == d.members[u].role = "owner" => Cardinality(ActiveOwners(d)) > 1

MayCreateOrg(d, o) == ~d.exists /\ HasAccount(d, o.by)
CreateOrg(d, o) == [d EXCEPT !.exists = TRUE, !.settings = [saml |-> 0, mfa |-> FALSE],
                             !.members[o.by] = NewMember("owner")]

MayAddMember(d, o) == /\ Manages(d, o.by) /\ CanDeal(d, o.by, o.role)
                      /\ HasAccount(d, o.who) /\ ~IsMember(d, o.who)
AddMember(d, o) == [d EXCEPT !.members[o.who] = NewMember(o.role)]

MaySetRole(d, o) == /\ Manages(d, o.by) /\ IsMember(d, o.who)
                    /\ CanDeal(d, o.by, d.members[o.who].role) /\ CanDeal(d, o.by, o.role)
                    /\ o.role # "owner" => KeepsOwner(d, o.who)
SetRole(d, o) == [d EXCEPT !.members[o.who].role = o.role]

(* Mutation: the rows in the groups stay.                                   *)
RemovedFromOrgOnly(d, u) == [d EXCEPT !.members[u] = NoMember]

(* _remove_membership: the member's row and rows in the groups.             *)
Removed(d, u) == [d EXCEPT !.members[u] = NoMember,
                           !.joined = {j \in @ : j[2] # u}]

(* Leaving is open to every active member and not behind the MFA gate.      *)
MayRemove(d, o) == /\ IsMember(d, o.who) /\ IsActive(d, o.by)
                   /\ o.by # o.who => Manages(d, o.by) /\ CanDeal(d, o.by, d.members[o.who].role)
                   /\ KeepsOwner(d, o.who)
RemoveMember(d, o) == Removed(d, o.who)

(* Mutation: the SSO key is an ordinary setting.                            *)
ManagersPatchSso(d, o) == Manages(d, o.by)

(* update_org merges the given keys over the settings it read; "saml" is    *)
(* the owners' key.                                                         *)
MayPatchSso(d, o) == Owns(d, o.by)

PatchSso(d, o)    == [d EXCEPT !.settings.saml = (@ + 1) % 4]
MayPatchMfa(d, o) == Manages(d, o.by)
PatchMfa(d, o)    == [d EXCEPT !.settings.mfa = ~@]

(* Bound: the name of a dropped group is not used again.                    *)
Unused(d, gs) == gs \cap (d.groups \cup d.dropped) = {}

MayCreateGroup(d, o) == Manages(d, o.by) /\ Unused(d, o.groups)
CreateGroup(d, o)    == [d EXCEPT !.groups = @ \cup o.groups]
MayDeleteGroup(d, o) == Manages(d, o.by) /\ o.groups \subseteq d.groups
DeleteGroup(d, o)    == [d EXCEPT !.groups = @ \ o.groups, !.dropped = @ \cup o.groups,
                                  !.joined = {j \in @ : j[1] \notin o.groups}]

(* _add_group_member: only an active member joins a group.                  *)
Joins(d, u) == IsActive(d, u)

MayJoin(d, o) == Manages(d, o.by) /\ o.groups \subseteq d.groups /\ Joins(d, o.who)
Join(d, o)    == [d EXCEPT !.joined = @ \cup (o.groups \X {o.who})]
MayPart(d, o) == Manages(d, o.by) /\ o.groups \subseteq d.groups
Part(d, o)    == [d EXCEPT !.joined = @ \ (o.groups \X {o.who})]

(* Mutation: a new token beside the old ones.                               *)
MintAnother(d, o) == [d EXCEPT !.live = @ \cup {o.token}]

(* mint_token: an owner's new token revokes every live one.                 *)
MayMint(d, o)   == Owns(d, o.by) /\ o.token \notin d.live \cup d.revoked
Mint(d, o)      == [d EXCEPT !.live = {o.token}, !.revoked = @ \cup d.live]

MayRevoke(d, o) == Owns(d, o.by)
Revoke(d, o)    == [d EXCEPT !.live = {}, !.revoked = @ \cup d.live]
------------------------------------------------------------------------------
(* bind_identity: each key is bound to u; a key bound to somebody else is   *)
(* a conflict.                                                              *)
Bindable(d, u, ks) == \A k \in ks : d.bound[k] \in {u, Nothing}
Bound(d, u, ks) == [d EXCEPT !.bound = [k \in Keys |-> IF k \in ks THEN u ELSE @[k]]]
Given(k) == {k} \ {Nothing}

(* create_user: a new account of this organisation, or the membership of an *)
(* account it already owns; anybody else's e-mail is refused.               *)
Provisioned(d, o) == [d EXCEPT !.members[o.who] = [role |-> "member",
                                                   active |-> o.active # "off", ext |-> o.ext]]

MayScimCreate(d, o) ==
  /\ o.ext # Nothing => ~ExtTaken(d, o.ext, o.who)
  /\ \/ /\ Fresh(d, o.who) /\ ~EmailTaken(d, o.email)
        /\ Bindable(d, o.who, {o.email} \cup Given(o.ext))
     \/ /\ Owned(d, o.who) /\ d.accounts[o.who].email = o.email /\ ~IsMember(d, o.who)

NewAccount(d, u, e) == [d EXCEPT !.accounts[u] = [source |-> "org", email |-> e]]

ScimCreate(d, o) ==
  IF HasAccount(d, o.who) THEN Provisioned(d, o)
  ELSE Bound(NewAccount(Provisioned(d, o), o.who, o.email), o.who, {o.email} \cup Given(o.ext))

(* Mutation: _write_user binds the keys of any account.                     *)
NewKeysOfAny(d, o) ==
  (IF o.email \in {Keep, d.accounts[o.who].email} THEN {} ELSE {o.email})
    \cup (IF o.ext = Keep THEN {} ELSE Given(o.ext))

(* _write_user, for PUT and PATCH: the e-mail (the owner's to change only   *)
(* if the organisation owns the account), the external id, active.          *)
NewKeys(d, o) ==
  (IF o.email \in {Keep, d.accounts[o.who].email} THEN {} ELSE {o.email})
    \cup (IF o.ext = Keep \/ ~Owned(d, o.who) THEN {} ELSE Given(o.ext))

(* Mutation: a membership is not looked up before it is written.            *)
WritesUnseen(d, o) ==
  /\ HasAccount(d, o.who)
  /\ o.email \in {Keep, d.accounts[o.who].email} \/ (Owned(d, o.who) /\ ~EmailTaken(d, o.email))
  /\ o.ext \notin {Keep, Nothing} => ~ExtTaken(d, o.ext, o.who)
  /\ Bindable(d, o.who, NewKeys(d, o))

MayScimWrite(d, o) ==
  /\ IsMember(d, o.who) /\ HasAccount(d, o.who)
  /\ o.email \in {Keep, d.accounts[o.who].email} \/ (Owned(d, o.who) /\ ~EmailTaken(d, o.email))
  /\ o.ext \notin {Keep, Nothing} => ~ExtTaken(d, o.ext, o.who)
  /\ Bindable(d, o.who, NewKeys(d, o))

ScimWrite(d, o) ==
  LET m == [d.members[o.who] EXCEPT !.ext = IF o.ext = Keep THEN @ ELSE o.ext,
                                    !.active = IF o.active = Keep THEN @ ELSE o.active = "on"]
      e == IF o.email = Keep THEN d.accounts[o.who].email ELSE o.email
  IN  Bound([d EXCEPT !.members[o.who] = m, !.accounts[o.who].email = e], o.who, NewKeys(d, o))

(* delete_user keeps the account and its bindings.                          *)
MayScimDelete(d, o) == IsMember(d, o.who) /\ HasAccount(d, o.who)
ScimDelete(d, o)    == Removed(d, o.who)

(* POST and PUT of a group leave it with these members; a PATCH adds or     *)
(* takes away.  Only active members are put in.                             *)
MayScimPost(d, o) == Unused(d, o.groups) /\ (o.who # Nothing => Joins(d, o.who))
MayScimPut(d, o)  == o.groups \subseteq d.groups /\ (o.who # Nothing => Joins(d, o.who))
ScimPut(d, o) ==
  [d EXCEPT !.groups = @ \cup o.groups,
            !.joined = {j \in @ : j[1] \notin o.groups} \cup (o.groups \X Given(o.who))]
MayScimAdd(d, o)  == o.groups \subseteq d.groups /\ Joins(d, o.who)
MayScimTake(d, o) == o.groups \subseteq d.groups
MayScimDropGroup(d, o) == o.groups \subseteq d.groups
ScimDropGroup(d, o)    == DeleteGroup(d, o)
------------------------------------------------------------------------------
(* _resolve_user: whom the IdP's keys name.  A binding to an account that   *)
(* is gone is dropped; an e-mail somebody already has is refused.           *)
SignOnKeys(o) == {o.email} \cup Given(o.ext)
Known(d, o)   == {d.bound[k] : k \in SignOnKeys(o)} \ {Nothing}
Gone(d, o)    == {k \in SignOnKeys(o) : d.bound[k] # Nothing /\ ~HasAccount(d, d.bound[k])}

MaySignOn(d, o) ==
  /\ o.groups \cap d.dropped = {}
  /\ \/ Known(d, o) = {o.who} /\ Owned(d, o.who) /\ IsActive(d, o.who)
     \/ /\ \A u \in Known(d, o) : ~HasAccount(d, u)
        /\ Fresh(d, o.who) /\ ~EmailTaken(d, o.email)
        /\ Cardinality({k \in SignOnKeys(o) : d.bound[k] # Nothing}) <= 1

(* consume's session: the account and membership if they are new, the       *)
(* bindings, and the groups the assertion lists, created where missing (an  *)
(* IdP that sends no group attribute, which leaves them alone, is left out).*)
SignOn(d, o) ==
  LET kept == [d EXCEPT !.bound = [k \in Keys |-> IF k \in Gone(d, o) THEN Nothing ELSE @[k]]]
      here == IF HasAccount(d, o.who) THEN kept
              ELSE NewAccount([kept EXCEPT !.members[o.who] = NewMember("member")], o.who, o.email)
  IN  [Bound(here, o.who, SignOnKeys(o)) EXCEPT
         !.groups = @ \cup o.groups,
         !.joined = {j \in @ : j[2] # o.who} \cup (o.groups \X {o.who})]
------------------------------------------------------------------------------
(* The account's own side: _hard_delete_user removes the account and every  *)
(* row it names, an ordinary registration makes a local account.            *)
MayErase(d, o) == HasAccount(d, o.who)
Erase(d, o) ==
  [Removed(d, o.who) EXCEPT !.accounts[o.who] = GoneAccount,
     !.bound = [k \in Keys |-> IF @[k] = o.who THEN Nothing ELSE @[k]]]

MayRegister(d, o) == Fresh(d, o.who) /\ ~EmailTaken(d, o.email)
Register(d, o)    == [d EXCEPT !.accounts[o.who] = [source |-> "local", email |-> o.email]]
==============================================================================
