-------------------------- MODULE DirectoryProofs ---------------------------
(***************************************************************************)
(* Theorems about Directory, for any tables it may start with, any         *)
(* requests, and any number of users, groups, tokens and sessions.         *)
(***************************************************************************)
EXTENDS Directory, FiniteSetTheorems, TLAPS

(* An account the IdP may name: the organisation's, or one that is gone and *)
(* with it everything it gave access to.  Once it is, it stays so.          *)
OrgOrGone == {"org", "gone"}
Ours(d, u) == d.accounts[u].source \in OrgOrGone

(* How tables read earlier relate to the tables now.                        *)
Precedes(old, now) ==
  /\ \A u \in Users : Ours(old, u) => Ours(now, u)
  /\ old.groups \subseteq now.groups \cup now.dropped
  /\ old.live \subseteq now.live \cup now.revoked
  /\ old.revoked \subseteq now.revoked

(* A session that is at work serves a request that was let in, on tables    *)
(* that were the committed ones at some time; one that is to mint a session *)
(* has put its user among the organisation's accounts.                      *)
Serving(s) ==
  /\ RowsAreWhole(seen[s])
  /\ BindsItsOwn(seen[s])
  /\ Precedes(seen[s], db)
  /\ pc[s] = "idle" => req[s] = NoRequest
  /\ pc[s] # "idle" => req[s] \in Requests
  /\ pc[s] = "called" => req[s].kind \in ScimKinds \cup {"signon"}
  /\ pc[s] = "open" => Allowed(seen[s], req[s])
  /\ pc[s] = "mint" => req[s].kind = "signon" /\ Ours(db, req[s].who)

(* A token that is about to be minted is nobody else's and not in use yet.  *)
FreshToken(s) ==
  req[s].kind = "mint" =>
    /\ req[s].token \notin db.live \cup db.revoked
    /\ \A t \in Sessions \ {s} : req[t].kind = "mint" => req[t].token # req[s].token

Inv == /\ TypeOK
       /\ IdpReachesItsOwn
       /\ IdentitiesAreUnique
       /\ \A s \in Sessions : Serving(s)
       /\ \A s \in Sessions : FreshToken(s)
------------------------------------------------------------------------------
(* What a request does, kind by kind.                                       *)
LEMMA NewMemberType == \A r \in Roles : NewMember(r) \in Member /\ NewMember(r).role # "none"
BY DEF NewMember, Member, Roles

LEMMA NoMemberType == NoMember \in Member /\ NoMember.role = "none" /\ NoMember.ext = Nothing
BY DEF NoMember, Member

LEMMA FieldTypes ==
  ASSUME NEW d \in Tables
  PROVE  /\ d.exists \in BOOLEAN /\ d.settings \in Settings
         /\ d.accounts \in [Users -> Account] /\ d.members \in [Users -> Member]
         /\ d.groups \subseteq Groups /\ d.dropped \subseteq Groups
         /\ d.joined \subseteq Groups \X Users
         /\ d.bound \in [Keys -> Users \cup {Nothing}]
         /\ d.live \subseteq Tokens /\ d.revoked \subseteq Tokens
BY DEF Tables

LEMMA CreateOrgDoes ==
  ASSUME NEW d \in Tables, NEW o, WellFormed(o), o.kind = "create"
  PROVE  LET n == CreateOrg(d, o)
         IN  /\ n \in Tables
             /\ n.settings = [saml |-> 0, mfa |-> FALSE]
             /\ n.members = [d.members EXCEPT ![o.by] = NewMember("owner")]
             /\ n.accounts = d.accounts /\ n.groups = d.groups /\ n.dropped = d.dropped
             /\ n.joined = d.joined /\ n.bound = d.bound /\ n.live = d.live
             /\ n.revoked = d.revoked
<1>1. o.by \in Users
  BY DEF WellFormed, OrgKinds
<1> DEFINE z == [saml |-> 0, mfa |-> FALSE]
           m == [d.members EXCEPT ![o.by] = NewMember("owner")]
<1>2. z \in Settings
  BY DEF Settings
<1>3. m \in [Users -> Member]
  BY <1>1, NewMemberType, FieldTypes DEF Roles
<1>4. CreateOrg(d, o) = [d EXCEPT !.exists = TRUE, !.settings = z, !.members = m]
  BY FieldTypes DEF CreateOrg, Tables
<1> HIDE DEF z, m
<1>5. LET n == [d EXCEPT !.exists = TRUE, !.settings = z, !.members = m]
        IN  /\ n \in Tables
            /\ n.settings = z /\ n.members = m
            /\ n.accounts = d.accounts /\ n.groups = d.groups /\ n.dropped = d.dropped
            /\ n.joined = d.joined /\ n.bound = d.bound /\ n.live = d.live
            /\ n.revoked = d.revoked
  BY <1>2, <1>3 DEF Tables
<1>6. QED
  BY <1>4, <1>5 DEF z, m

LEMMA AddMemberDoes ==
  ASSUME NEW d \in Tables, NEW o, WellFormed(o), o.kind = "add"
  PROVE  LET n == AddMember(d, o)
         IN  /\ n \in Tables
             /\ n.members = [d.members EXCEPT ![o.who] = NewMember(o.role)]
             /\ n.settings = d.settings /\ n.accounts = d.accounts /\ n.groups = d.groups
             /\ n.dropped = d.dropped /\ n.joined = d.joined /\ n.bound = d.bound
             /\ n.live = d.live /\ n.revoked = d.revoked
<1>1. o.who \in Users /\ o.role \in Roles
  BY DEF WellFormed
<1> DEFINE m == [d.members EXCEPT ![o.who] = NewMember(o.role)]
<1>2. m \in [Users -> Member]
  BY <1>1, NewMemberType, FieldTypes
<1>3. AddMember(d, o) = [d EXCEPT !.members = m]
  BY FieldTypes DEF AddMember, Tables
<1> HIDE DEF m
<1>4. LET n == [d EXCEPT !.members = m]
        IN  /\ n \in Tables
            /\ n.members = m
            /\ n.settings = d.settings /\ n.accounts = d.accounts /\ n.groups = d.groups
            /\ n.dropped = d.dropped /\ n.joined = d.joined /\ n.bound = d.bound
            /\ n.live = d.live /\ n.revoked = d.revoked
  BY <1>2 DEF Tables
<1>5. QED
  BY <1>3, <1>4 DEF m

LEMMA SetRoleDoes ==
  ASSUME NEW d \in Tables, NEW o, WellFormed(o), o.kind = "role"
  PROVE  LET n == SetRole(d, o)
         IN  /\ n \in Tables
             /\ n.members = [d.members EXCEPT ![o.who] = [@ EXCEPT !.role = o.role]]
             /\ n.settings = d.settings /\ n.accounts = d.accounts /\ n.groups = d.groups
             /\ n.dropped = d.dropped /\ n.joined = d.joined /\ n.bound = d.bound
             /\ n.live = d.live /\ n.revoked = d.revoked
<1>1. o.who \in Users /\ o.role \in Roles
  BY DEF WellFormed
<1> DEFINE m == [d.members EXCEPT ![o.who] = [@ EXCEPT !.role = o.role]]
<1>2. m \in [Users -> Member]
  BY <1>1, FieldTypes DEF Member
<1>3. SetRole(d, o) = [d EXCEPT !.members = m]
  BY FieldTypes DEF SetRole, Tables
<1> HIDE DEF m
<1>4. LET n == [d EXCEPT !.members = m]
        IN  /\ n \in Tables
            /\ n.members = m
            /\ n.settings = d.settings /\ n.accounts = d.accounts /\ n.groups = d.groups
            /\ n.dropped = d.dropped /\ n.joined = d.joined /\ n.bound = d.bound
            /\ n.live = d.live /\ n.revoked = d.revoked
  BY <1>2 DEF Tables
<1>5. QED
  BY <1>3, <1>4 DEF m

LEMMA RemovedDoes ==
  ASSUME NEW d \in Tables, NEW u \in Users
  PROVE  LET n == Removed(d, u)
         IN  /\ n \in Tables
             /\ n.members = [d.members EXCEPT ![u] = NoMember]
             /\ n.joined = {j \in d.joined : j[2] # u}
             /\ n.settings = d.settings /\ n.accounts = d.accounts /\ n.groups = d.groups
             /\ n.dropped = d.dropped /\ n.bound = d.bound /\ n.live = d.live
             /\ n.revoked = d.revoked
<1> DEFINE m == [d.members EXCEPT ![u] = NoMember]
           j == {j \in d.joined : j[2] # u}
<1>1. m \in [Users -> Member]
  BY NoMemberType, FieldTypes
<1>2. j \in SUBSET (Groups \X Users)
  BY FieldTypes
<1>3. Removed(d, u) = [d EXCEPT !.members = m, !.joined = j]
  BY FieldTypes DEF Removed, Tables
<1> HIDE DEF m, j
<1>4. LET n == [d EXCEPT !.members = m, !.joined = j]
        IN  /\ n \in Tables
            /\ n.members = m /\ n.joined = j
            /\ n.settings = d.settings /\ n.accounts = d.accounts /\ n.groups = d.groups
            /\ n.dropped = d.dropped /\ n.bound = d.bound /\ n.live = d.live
            /\ n.revoked = d.revoked
  BY <1>1, <1>2 DEF Tables
<1>5. QED
  BY <1>3, <1>4 DEF m, j

LEMMA PatchSsoDoes ==
  ASSUME NEW d \in Tables, NEW o
  PROVE  LET n == PatchSso(d, o)
         IN  /\ n \in Tables
             /\ n.settings = [d.settings EXCEPT !.saml = (@ + 1) % 4]
             /\ n.accounts = d.accounts /\ n.members = d.members /\ n.groups = d.groups
             /\ n.dropped = d.dropped /\ n.joined = d.joined /\ n.bound = d.bound
             /\ n.live = d.live /\ n.revoked = d.revoked
<1> DEFINE z == [d.settings EXCEPT !.saml = (@ + 1) % 4]
<1>1. z \in Settings
  BY FieldTypes DEF Settings
<1>2. PatchSso(d, o) = [d EXCEPT !.settings = z]
  BY FieldTypes DEF PatchSso, Tables
<1> HIDE DEF z
<1>3. LET n == [d EXCEPT !.settings = z]
        IN  /\ n \in Tables
            /\ n.settings = z
            /\ n.accounts = d.accounts /\ n.members = d.members /\ n.groups = d.groups
            /\ n.dropped = d.dropped /\ n.joined = d.joined /\ n.bound = d.bound
            /\ n.live = d.live /\ n.revoked = d.revoked
  BY <1>1 DEF Tables
<1>4. QED
  BY <1>2, <1>3 DEF z

LEMMA PatchMfaDoes ==
  ASSUME NEW d \in Tables, NEW o
  PROVE  LET n == PatchMfa(d, o)
         IN  /\ n \in Tables
             /\ n.settings = [d.settings EXCEPT !.mfa = ~@]
             /\ n.accounts = d.accounts /\ n.members = d.members /\ n.groups = d.groups
             /\ n.dropped = d.dropped /\ n.joined = d.joined /\ n.bound = d.bound
             /\ n.live = d.live /\ n.revoked = d.revoked
<1> DEFINE z == [d.settings EXCEPT !.mfa = ~@]
<1>1. z \in Settings
  BY FieldTypes DEF Settings
<1>2. PatchMfa(d, o) = [d EXCEPT !.settings = z]
  BY FieldTypes DEF PatchMfa, Tables
<1> HIDE DEF z
<1>3. LET n == [d EXCEPT !.settings = z]
        IN  /\ n \in Tables
            /\ n.settings = z
            /\ n.accounts = d.accounts /\ n.members = d.members /\ n.groups = d.groups
            /\ n.dropped = d.dropped /\ n.joined = d.joined /\ n.bound = d.bound
            /\ n.live = d.live /\ n.revoked = d.revoked
  BY <1>1 DEF Tables
<1>4. QED
  BY <1>2, <1>3 DEF z

LEMMA CreateGroupDoes ==
  ASSUME NEW d \in Tables, NEW o, WellFormed(o)
  PROVE  LET n == CreateGroup(d, o)
         IN  /\ n \in Tables
             /\ n.groups = d.groups \cup o.groups
             /\ n.settings = d.settings /\ n.accounts = d.accounts /\ n.members = d.members
             /\ n.dropped = d.dropped /\ n.joined = d.joined /\ n.bound = d.bound
             /\ n.live = d.live /\ n.revoked = d.revoked
<1>1. o.groups \subseteq Groups
  BY DEF WellFormed, Request
<1> DEFINE g == d.groups \cup o.groups
<1>2. g \in SUBSET Groups
  BY <1>1, FieldTypes
<1>3. CreateGroup(d, o) = [d EXCEPT !.groups = g]
  BY FieldTypes DEF CreateGroup, Tables
<1> HIDE DEF g
<1>4. LET n == [d EXCEPT !.groups = g]
        IN  /\ n \in Tables
            /\ n.groups = g
            /\ n.settings = d.settings /\ n.accounts = d.accounts /\ n.members = d.members
            /\ n.dropped = d.dropped /\ n.joined = d.joined /\ n.bound = d.bound
            /\ n.live = d.live /\ n.revoked = d.revoked
  BY <1>2 DEF Tables
<1>5. QED
  BY <1>3, <1>4 DEF g

LEMMA DeleteGroupDoes ==
  ASSUME NEW d \in Tables, NEW o, WellFormed(o)
  PROVE  LET n == DeleteGroup(d, o)
         IN  /\ n \in Tables
             /\ n.groups = d.groups \ o.groups
             /\ n.dropped = d.dropped \cup o.groups
             /\ n.joined = {j \in d.joined : j[1] \notin o.groups}
             /\ n.settings = d.settings /\ n.accounts = d.accounts /\ n.members = d.members
             /\ n.bound = d.bound /\ n.live = d.live /\ n.revoked = d.revoked
<1>1. o.groups \subseteq Groups
  BY DEF WellFormed, Request
<1> DEFINE g == d.groups \ o.groups
           x == d.dropped \cup o.groups
           j == {j \in d.joined : j[1] \notin o.groups}
<1>2. g \in SUBSET Groups
  BY <1>1, FieldTypes
<1>3. x \in SUBSET Groups
  BY <1>1, FieldTypes
<1>4. j \in SUBSET (Groups \X Users)
  BY <1>1, FieldTypes
<1>5. DeleteGroup(d, o) = [d EXCEPT !.groups = g, !.dropped = x, !.joined = j]
  BY FieldTypes DEF DeleteGroup, Tables
<1> HIDE DEF g, x, j
<1>6. LET n == [d EXCEPT !.groups = g, !.dropped = x, !.joined = j]
        IN  /\ n \in Tables
            /\ n.groups = g /\ n.dropped = x /\ n.joined = j
            /\ n.settings = d.settings /\ n.accounts = d.accounts /\ n.members = d.members
            /\ n.bound = d.bound /\ n.live = d.live /\ n.revoked = d.revoked
  BY <1>2, <1>3, <1>4 DEF Tables
<1>7. QED
  BY <1>5, <1>6 DEF g, x, j

LEMMA JoinDoes ==
  ASSUME NEW d \in Tables, NEW o, WellFormed(o), o.kind \in {"join", "addto"}
  PROVE  LET n == Join(d, o)
         IN  /\ n \in Tables
             /\ n.joined = d.joined \cup (o.groups \X {o.who})
             /\ n.settings = d.settings /\ n.accounts = d.accounts /\ n.members = d.members
             /\ n.groups = d.groups /\ n.dropped = d.dropped /\ n.bound = d.bound
             /\ n.live = d.live /\ n.revoked = d.revoked
<1>1. o.groups \X {o.who} \subseteq Groups \X Users
  BY DEF WellFormed, Request
<1> DEFINE j == d.joined \cup (o.groups \X {o.who})
<1>2. j \in SUBSET (Groups \X Users)
  BY <1>1, FieldTypes
<1>3. Join(d, o) = [d EXCEPT !.joined = j]
  BY FieldTypes DEF Join, Tables
<1> HIDE DEF j
<1>4. LET n == [d EXCEPT !.joined = j]
        IN  /\ n \in Tables
            /\ n.joined = j
            /\ n.settings = d.settings /\ n.accounts = d.accounts /\ n.members = d.members
            /\ n.groups = d.groups /\ n.dropped = d.dropped /\ n.bound = d.bound
            /\ n.live = d.live /\ n.revoked = d.revoked
  BY <1>2 DEF Tables
<1>5. QED
  BY <1>3, <1>4 DEF j

LEMMA PartDoes ==
  ASSUME NEW d \in Tables, NEW o
  PROVE  LET n == Part(d, o)
         IN  /\ n \in Tables
             /\ n.joined = d.joined \ (o.groups \X {o.who})
             /\ n.settings = d.settings /\ n.accounts = d.accounts /\ n.members = d.members
             /\ n.groups = d.groups /\ n.dropped = d.dropped /\ n.bound = d.bound
             /\ n.live = d.live /\ n.revoked = d.revoked
<1> DEFINE j == d.joined \ (o.groups \X {o.who})
<1>1. j \in SUBSET (Groups \X Users)
  BY FieldTypes
<1>2. Part(d, o) = [d EXCEPT !.joined = j]
  BY FieldTypes DEF Part, Tables
<1> HIDE DEF j
<1>3. LET n == [d EXCEPT !.joined = j]
        IN  /\ n \in Tables
            /\ n.joined = j
            /\ n.settings = d.settings /\ n.accounts = d.accounts /\ n.members = d.members
            /\ n.groups = d.groups /\ n.dropped = d.dropped /\ n.bound = d.bound
            /\ n.live = d.live /\ n.revoked = d.revoked
  BY <1>1 DEF Tables
<1>4. QED
  BY <1>2, <1>3 DEF j

LEMMA MintDoes ==
  ASSUME NEW d \in Tables, NEW o, WellFormed(o), o.kind = "mint"
  PROVE  LET n == Mint(d, o)
         IN  /\ n \in Tables
             /\ n.live = {o.token}
             /\ n.revoked = d.revoked \cup d.live
             /\ n.settings = d.settings /\ n.accounts = d.accounts /\ n.members = d.members
             /\ n.groups = d.groups /\ n.dropped = d.dropped /\ n.joined = d.joined
             /\ n.bound = d.bound
<1> DEFINE l == {o.token}
           v == d.revoked \cup d.live
<1>1. l \in SUBSET Tokens
  BY DEF WellFormed
<1>2. v \in SUBSET Tokens
  BY FieldTypes
<1>3. Mint(d, o) = [d EXCEPT !.live = l, !.revoked = v]
  BY FieldTypes DEF Mint, Tables
<1> HIDE DEF l, v
<1>4. LET n == [d EXCEPT !.live = l, !.revoked = v]
        IN  /\ n \in Tables
            /\ n.live = l /\ n.revoked = v
            /\ n.settings = d.settings /\ n.accounts = d.accounts /\ n.members = d.members
            /\ n.groups = d.groups /\ n.dropped = d.dropped /\ n.joined = d.joined
            /\ n.bound = d.bound
  BY <1>1, <1>2 DEF Tables
<1>5. QED
  BY <1>3, <1>4 DEF l, v

LEMMA RevokeDoes ==
  ASSUME NEW d \in Tables, NEW o
  PROVE  LET n == Revoke(d, o)
         IN  /\ n \in Tables
             /\ n.live = {}
             /\ n.revoked = d.revoked \cup d.live
             /\ n.settings = d.settings /\ n.accounts = d.accounts /\ n.members = d.members
             /\ n.groups = d.groups /\ n.dropped = d.dropped /\ n.joined = d.joined
             /\ n.bound = d.bound
<1> DEFINE l == {}
           v == d.revoked \cup d.live
<1>1. l \in SUBSET Tokens
  OBVIOUS
<1>2. v \in SUBSET Tokens
  BY FieldTypes
<1>3. Revoke(d, o) = [d EXCEPT !.live = l, !.revoked = v]
  BY FieldTypes DEF Revoke, Tables
<1> HIDE DEF l, v
<1>4. LET n == [d EXCEPT !.live = l, !.revoked = v]
        IN  /\ n \in Tables
            /\ n.live = l /\ n.revoked = v
            /\ n.settings = d.settings /\ n.accounts = d.accounts /\ n.members = d.members
            /\ n.groups = d.groups /\ n.dropped = d.dropped /\ n.joined = d.joined
            /\ n.bound = d.bound
  BY <1>1, <1>2 DEF Tables
<1>5. QED
  BY <1>3, <1>4 DEF l, v

LEMMA ScimPutDoes ==
  ASSUME NEW d \in Tables, NEW o, WellFormed(o)
  PROVE  LET n == ScimPut(d, o)
         IN  /\ n \in Tables
             /\ n.groups = d.groups \cup o.groups
             /\ n.joined = {j \in d.joined : j[1] \notin o.groups}
                           \cup (o.groups \X Given(o.who))
             /\ n.settings = d.settings /\ n.accounts = d.accounts /\ n.members = d.members
             /\ n.dropped = d.dropped /\ n.bound = d.bound /\ n.live = d.live
             /\ n.revoked = d.revoked
<1>1. o.groups \subseteq Groups /\ Given(o.who) \subseteq Users
  BY NothingAssumption DEF WellFormed, Request, Given
<1> DEFINE g == d.groups \cup o.groups
           j == {j \in d.joined : j[1] \notin o.groups}
                           \cup (o.groups \X Given(o.who))
<1>2. g \in SUBSET Groups
  BY <1>1, FieldTypes
<1>3. j \in SUBSET (Groups \X Users)
  BY <1>1, FieldTypes
<1>4. ScimPut(d, o) = [d EXCEPT !.groups = g, !.joined = j]
  BY FieldTypes DEF ScimPut, Tables
<1> HIDE DEF g, j
<1>5. LET n == [d EXCEPT !.groups = g, !.joined = j]
        IN  /\ n \in Tables
            /\ n.groups = g /\ n.joined = j
            /\ n.settings = d.settings /\ n.accounts = d.accounts /\ n.members = d.members
            /\ n.dropped = d.dropped /\ n.bound = d.bound /\ n.live = d.live
            /\ n.revoked = d.revoked
  BY <1>2, <1>3 DEF Tables
<1>6. QED
  BY <1>4, <1>5 DEF g, j

(* create_user: a new account with its keys bound, or the membership alone.  *)
ProvisionedRow(o) == [role |-> "member", active |-> o.active # "off", ext |-> o.ext]
CreateKeys(o) == {o.email} \cup Given(o.ext)
BoundTo(d, u, ks) == [k \in Keys |-> IF k \in ks THEN u ELSE d.bound[k]]

LEMMA ProvisionedDoes ==
  ASSUME NEW d \in Tables, NEW o, WellFormed(o), o.kind = "provision"
  PROVE  LET n == Provisioned(d, o)
         IN  /\ n \in Tables
             /\ n.members = [d.members EXCEPT ![o.who] = ProvisionedRow(o)]
             /\ n.settings = d.settings /\ n.accounts = d.accounts /\ n.groups = d.groups
             /\ n.dropped = d.dropped /\ n.joined = d.joined /\ n.bound = d.bound
             /\ n.live = d.live /\ n.revoked = d.revoked
<1>1. o.who \in Users /\ ProvisionedRow(o) \in Member
  BY DEF WellFormed, Request, ProvisionedRow, Member, Roles
<1> DEFINE m == [d.members EXCEPT ![o.who] = ProvisionedRow(o)]
<1>2. m \in [Users -> Member]
  BY <1>1, FieldTypes
<1>3. Provisioned(d, o) = [d EXCEPT !.members = m]
  BY FieldTypes DEF Provisioned, ProvisionedRow, Tables
<1> HIDE DEF m
<1>4. LET n == [d EXCEPT !.members = m]
      IN  /\ n \in Tables /\ n.members = m
          /\ n.settings = d.settings /\ n.accounts = d.accounts /\ n.groups = d.groups
          /\ n.dropped = d.dropped /\ n.joined = d.joined /\ n.bound = d.bound
          /\ n.live = d.live /\ n.revoked = d.revoked
  BY <1>2 DEF Tables
<1>5. QED
  BY <1>3, <1>4 DEF m

LEMMA BoundDoes ==
  ASSUME NEW d \in Tables, NEW u \in Users, NEW ks
  PROVE  LET n == Bound(d, u, ks)
         IN  /\ n \in Tables
             /\ n.bound = BoundTo(d, u, ks)
             /\ n.settings = d.settings /\ n.accounts = d.accounts /\ n.members = d.members
             /\ n.groups = d.groups /\ n.dropped = d.dropped /\ n.joined = d.joined
             /\ n.live = d.live /\ n.revoked = d.revoked
<1> DEFINE b == BoundTo(d, u, ks)
<1>1. b \in [Keys -> Users \cup {Nothing}]
  BY FieldTypes DEF BoundTo
<1>2. Bound(d, u, ks) = [d EXCEPT !.bound = b]
  BY DEF Bound, BoundTo, Tables
<1> HIDE DEF b
<1>3. LET n == [d EXCEPT !.bound = b]
      IN  /\ n \in Tables /\ n.bound = b
          /\ n.settings = d.settings /\ n.accounts = d.accounts /\ n.members = d.members
          /\ n.groups = d.groups /\ n.dropped = d.dropped /\ n.joined = d.joined
          /\ n.live = d.live /\ n.revoked = d.revoked
  BY <1>1 DEF Tables
<1>4. QED
  BY <1>2, <1>3 DEF b

LEMMA NewAccountDoes ==
  ASSUME NEW d \in Tables, NEW u \in Users, NEW e \in Emails
  PROVE  LET n == NewAccount(d, u, e)
         IN  /\ n \in Tables
             /\ n.accounts = [d.accounts EXCEPT ![u] = [source |-> "org", email |-> e]]
             /\ n.settings = d.settings /\ n.members = d.members /\ n.groups = d.groups
             /\ n.dropped = d.dropped /\ n.joined = d.joined /\ n.bound = d.bound
             /\ n.live = d.live /\ n.revoked = d.revoked
<1> DEFINE a == [d.accounts EXCEPT ![u] = [source |-> "org", email |-> e]]
<1>1. a \in [Users -> Account]
  BY FieldTypes DEF Account
<1>2. NewAccount(d, u, e) = [d EXCEPT !.accounts = a]
  BY FieldTypes DEF NewAccount, Tables
<1> HIDE DEF a
<1>3. LET n == [d EXCEPT !.accounts = a]
      IN  /\ n \in Tables /\ n.accounts = a
          /\ n.settings = d.settings /\ n.members = d.members /\ n.groups = d.groups
          /\ n.dropped = d.dropped /\ n.joined = d.joined /\ n.bound = d.bound
          /\ n.live = d.live /\ n.revoked = d.revoked
  BY <1>1 DEF Tables
<1>4. QED
  BY <1>2, <1>3 DEF a

LEMMA ScimCreateDoes ==
  ASSUME NEW d \in Tables, NEW o, WellFormed(o), o.kind = "provision"
  PROVE  LET n == ScimCreate(d, o)
         IN  /\ n \in Tables
             /\ n.members = [d.members EXCEPT ![o.who] = ProvisionedRow(o)]
             /\ n.accounts = IF HasAccount(d, o.who) THEN d.accounts
                             ELSE [d.accounts EXCEPT ![o.who] = [source |-> "org", email |-> o.email]]
             /\ n.bound = IF HasAccount(d, o.who) THEN d.bound
                          ELSE BoundTo(d, o.who, CreateKeys(o))
             /\ n.settings = d.settings /\ n.groups = d.groups
             /\ n.dropped = d.dropped /\ n.joined = d.joined
             /\ n.live = d.live /\ n.revoked = d.revoked
<1>1. o.who \in Users /\ o.email \in Emails
  BY DEF WellFormed
<1>2. CASE HasAccount(d, o.who)
  BY <1>2, ProvisionedDoes DEF ScimCreate
<1>3. CASE ~HasAccount(d, o.who)
  <2> DEFINE p == Provisioned(d, o)
             q == NewAccount(p, o.who, o.email)
  <2>1. ScimCreate(d, o) = Bound(q, o.who, CreateKeys(o))
    BY <1>3 DEF ScimCreate, CreateKeys
  <2>2. /\ p \in Tables
        /\ p.members = [d.members EXCEPT ![o.who] = ProvisionedRow(o)]
        /\ p.settings = d.settings /\ p.accounts = d.accounts /\ p.groups = d.groups
        /\ p.dropped = d.dropped /\ p.joined = d.joined /\ p.bound = d.bound
        /\ p.live = d.live /\ p.revoked = d.revoked
    BY ProvisionedDoes
  <2> HIDE DEF p
  <2>3. /\ q \in Tables
        /\ q.accounts = [p.accounts EXCEPT ![o.who] = [source |-> "org", email |-> o.email]]
        /\ q.settings = p.settings /\ q.members = p.members /\ q.groups = p.groups
        /\ q.dropped = p.dropped /\ q.joined = p.joined /\ q.bound = p.bound
        /\ q.live = p.live /\ q.revoked = p.revoked
    BY <1>1, <2>2, NewAccountDoes
  <2> HIDE DEF q
  <2>4. BoundTo(q, o.who, CreateKeys(o)) = BoundTo(d, o.who, CreateKeys(o))
    BY <2>2, <2>3 DEF BoundTo
  <2>5. QED
    BY <1>1, <1>3, <2>1, <2>2, <2>3, <2>4, BoundDoes
<1>4. QED
  BY <1>2, <1>3

(* _write_user.                                                              *)
WrittenRow(d, o) ==
  [d.members[o.who] EXCEPT !.ext = IF o.ext = Keep THEN @ ELSE o.ext,
                           !.active = IF o.active = Keep THEN @ ELSE o.active = "on"]
WrittenEmail(d, o) == IF o.email = Keep THEN d.accounts[o.who].email ELSE o.email

LEMMA ScimWriteDoes ==
  ASSUME NEW d \in Tables, NEW o, WellFormed(o), o.kind = "write"
  PROVE  LET n == ScimWrite(d, o)
         IN  /\ n \in Tables
             /\ n.members = [d.members EXCEPT ![o.who] = WrittenRow(d, o)]
             /\ WrittenRow(d, o).role = d.members[o.who].role
             /\ n.accounts = [d.accounts EXCEPT ![o.who] = [@ EXCEPT !.email = WrittenEmail(d, o)]]
             /\ n.bound = BoundTo(d, o.who, NewKeys(d, o))
             /\ n.settings = d.settings /\ n.groups = d.groups
             /\ n.dropped = d.dropped /\ n.joined = d.joined
             /\ n.live = d.live /\ n.revoked = d.revoked
<1>1. o.who \in Users
  BY DEF WellFormed
<1>2. d.members[o.who] \in Member /\ d.accounts[o.who] \in Account
  BY <1>1, FieldTypes
<1>3. WrittenRow(d, o) \in Member /\ WrittenRow(d, o).role = d.members[o.who].role
  <2>1. o.ext \in ExtIds \cup {Keep, Nothing}
    BY DEF WellFormed, Request
  <2>2. (IF o.ext = Keep THEN d.members[o.who].ext ELSE o.ext) \in ExtIds \cup {Nothing}
    BY <1>2, <2>1 DEF Member
  <2>3. (IF o.active = Keep THEN d.members[o.who].active ELSE o.active = "on") \in BOOLEAN
    BY <1>2 DEF Member
  <2>4. QED
    BY <1>2, <2>2, <2>3 DEF WrittenRow, Member
<1>4. WrittenEmail(d, o) \in Emails \cup {Nothing}
  BY <1>2 DEF WrittenEmail, WellFormed, Account
<1> DEFINE m == [d.members EXCEPT ![o.who] = WrittenRow(d, o)]
           a == [d.accounts EXCEPT ![o.who] = [@ EXCEPT !.email = WrittenEmail(d, o)]]
           p == [d EXCEPT !.members = m, !.accounts = a]
<1>5. m \in [Users -> Member]
  BY <1>1, <1>3, FieldTypes
<1>6. a \in [Users -> Account]
  BY <1>1, <1>4, FieldTypes DEF Account
<1>7. ScimWrite(d, o) = Bound(p, o.who, NewKeys(d, o))
  BY <1>1, FieldTypes DEF ScimWrite, WrittenRow, WrittenEmail, Tables
<1> HIDE DEF m, a
<1>8. /\ p \in Tables /\ p.members = m /\ p.accounts = a
      /\ p.settings = d.settings /\ p.groups = d.groups /\ p.bound = d.bound
      /\ p.dropped = d.dropped /\ p.joined = d.joined
      /\ p.live = d.live /\ p.revoked = d.revoked
  BY <1>5, <1>6 DEF Tables
<1> HIDE DEF p
<1>9. BoundTo(p, o.who, NewKeys(d, o)) = BoundTo(d, o.who, NewKeys(d, o))
  BY <1>8 DEF BoundTo
<1>10. QED
  BY <1>1, <1>3, <1>7, <1>8, <1>9, BoundDoes DEF m, a

(* consume: the bindings to what is gone are dropped, the keys bound, and    *)
(* the groups made what the assertion lists.                                 *)
Cleared(d, ks) == [k \in Keys |-> IF k \in ks THEN Nothing ELSE d.bound[k]]
SignOnBound(d, o) ==
  [k \in Keys |-> IF k \in SignOnKeys(o) THEN o.who ELSE Cleared(d, Gone(d, o))[k]]

LEMMA ClearedDoes ==
  ASSUME NEW d \in Tables, NEW ks
  PROVE  LET n == [d EXCEPT !.bound = [k \in Keys |-> IF k \in ks THEN Nothing ELSE @[k]]]
         IN  /\ n \in Tables
             /\ n.bound = Cleared(d, ks)
             /\ n.settings = d.settings /\ n.accounts = d.accounts /\ n.members = d.members
             /\ n.groups = d.groups /\ n.dropped = d.dropped /\ n.joined = d.joined
             /\ n.live = d.live /\ n.revoked = d.revoked
<1> DEFINE b == Cleared(d, ks)
           q == [d EXCEPT !.bound = [k \in Keys |-> IF k \in ks THEN Nothing ELSE @[k]]]
<1>1. b \in [Keys -> Users \cup {Nothing}]
  BY FieldTypes DEF Cleared
<1>2. q = [d EXCEPT !.bound = b]
  BY DEF Cleared, Tables
<1> HIDE DEF b
<1>3. LET n == [d EXCEPT !.bound = b]
      IN  /\ n \in Tables /\ n.bound = b
          /\ n.settings = d.settings /\ n.accounts = d.accounts /\ n.members = d.members
          /\ n.groups = d.groups /\ n.dropped = d.dropped /\ n.joined = d.joined
          /\ n.live = d.live /\ n.revoked = d.revoked
  BY <1>1 DEF Tables
<1>4. q \in Tables
  BY <1>2, <1>3
<1>5. QED
  BY <1>2, <1>3, <1>4 DEF b

LEMMA NewMembershipDoes ==
  ASSUME NEW d \in Tables, NEW u \in Users
  PROVE  LET n == [d EXCEPT !.members[u] = NewMember("member")]
         IN  /\ n \in Tables
             /\ n.members = [d.members EXCEPT ![u] = NewMember("member")]
             /\ n.settings = d.settings /\ n.accounts = d.accounts /\ n.groups = d.groups
             /\ n.dropped = d.dropped /\ n.joined = d.joined /\ n.bound = d.bound
             /\ n.live = d.live /\ n.revoked = d.revoked
<1> DEFINE m == [d.members EXCEPT ![u] = NewMember("member")]
           q == [d EXCEPT !.members[u] = NewMember("member")]
<1>1. m \in [Users -> Member]
  BY NewMemberType, FieldTypes DEF Roles
<1>2. q = [d EXCEPT !.members = m]
  BY FieldTypes DEF Tables
<1> HIDE DEF m
<1>3. LET n == [d EXCEPT !.members = m]
      IN  /\ n \in Tables /\ n.members = m
          /\ n.settings = d.settings /\ n.accounts = d.accounts /\ n.groups = d.groups
          /\ n.dropped = d.dropped /\ n.joined = d.joined /\ n.bound = d.bound
          /\ n.live = d.live /\ n.revoked = d.revoked
  BY <1>1 DEF Tables
<1>4. q \in Tables
  BY <1>2, <1>3
<1>5. QED
  BY <1>2, <1>3, <1>4 DEF m

LEMMA SignOnDoes ==
  ASSUME NEW d \in Tables, NEW o, WellFormed(o), o.kind = "signon"
  PROVE  LET n == SignOn(d, o)
         IN  /\ n \in Tables
             /\ n.members = IF HasAccount(d, o.who) THEN d.members
                            ELSE [d.members EXCEPT ![o.who] = NewMember("member")]
             /\ n.accounts = IF HasAccount(d, o.who) THEN d.accounts
                             ELSE [d.accounts EXCEPT ![o.who] = [source |-> "org", email |-> o.email]]
             /\ n.bound = SignOnBound(d, o)
             /\ n.groups = d.groups \cup o.groups
             /\ n.joined = {j \in d.joined : j[2] # o.who} \cup (o.groups \X {o.who})
             /\ n.settings = d.settings /\ n.dropped = d.dropped
             /\ n.live = d.live /\ n.revoked = d.revoked
<1>1. o.who \in Users /\ o.email \in Emails /\ o.groups \subseteq Groups
  BY DEF WellFormed, Request
<1> DEFINE kept == [d EXCEPT !.bound = [k \in Keys |-> IF k \in Gone(d, o) THEN Nothing ELSE @[k]]]
           joining == [kept EXCEPT !.members[o.who] = NewMember("member")]
           here == IF HasAccount(d, o.who) THEN kept ELSE NewAccount(joining, o.who, o.email)
           there == Bound(here, o.who, SignOnKeys(o))
           g == d.groups \cup o.groups
           j == {i \in d.joined : i[2] # o.who} \cup (o.groups \X {o.who})
<1>2. SignOn(d, o) = [there EXCEPT !.groups = @ \cup o.groups,
                        !.joined = {i \in @ : i[2] # o.who} \cup (o.groups \X {o.who})]
  BY DEF SignOn
<1>3. /\ kept \in Tables /\ kept.bound = Cleared(d, Gone(d, o))
      /\ kept.settings = d.settings /\ kept.accounts = d.accounts /\ kept.members = d.members
      /\ kept.groups = d.groups /\ kept.dropped = d.dropped /\ kept.joined = d.joined
      /\ kept.live = d.live /\ kept.revoked = d.revoked
  BY ClearedDoes
<1> HIDE DEF kept
<1>4. /\ joining \in Tables
      /\ joining.members = [kept.members EXCEPT ![o.who] = NewMember("member")]
      /\ joining.settings = kept.settings /\ joining.accounts = kept.accounts
      /\ joining.groups = kept.groups /\ joining.dropped = kept.dropped
      /\ joining.joined = kept.joined /\ joining.bound = kept.bound
      /\ joining.live = kept.live /\ joining.revoked = kept.revoked
  BY <1>1, <1>3, NewMembershipDoes
<1> HIDE DEF joining
<1>5. /\ here \in Tables
      /\ here.members = IF HasAccount(d, o.who) THEN d.members
                        ELSE [d.members EXCEPT ![o.who] = NewMember("member")]
      /\ here.accounts = IF HasAccount(d, o.who) THEN d.accounts
                         ELSE [d.accounts EXCEPT ![o.who] = [source |-> "org", email |-> o.email]]
      /\ here.bound = Cleared(d, Gone(d, o))
      /\ here.settings = d.settings /\ here.groups = d.groups
      /\ here.dropped = d.dropped /\ here.joined = d.joined
      /\ here.live = d.live /\ here.revoked = d.revoked
  BY <1>1, <1>3, <1>4, NewAccountDoes
<1> HIDE DEF here
<1>6. /\ there \in Tables
      /\ there.bound = BoundTo(here, o.who, SignOnKeys(o))
      /\ there.settings = here.settings /\ there.accounts = here.accounts
      /\ there.members = here.members /\ there.groups = here.groups
      /\ there.dropped = here.dropped /\ there.joined = here.joined
      /\ there.live = here.live /\ there.revoked = here.revoked
  BY <1>1, <1>5, BoundDoes
<1>7. BoundTo(here, o.who, SignOnKeys(o)) = SignOnBound(d, o)
  BY <1>5 DEF BoundTo, SignOnBound
<1> HIDE DEF there
<1>8. SignOn(d, o) = [there EXCEPT !.groups = g, !.joined = j]
  BY <1>2, <1>5, <1>6 DEF Tables
<1>9. g \in SUBSET Groups /\ j \in SUBSET (Groups \X Users)
  BY <1>1, FieldTypes
<1> HIDE DEF g, j
<1>10. LET n == [there EXCEPT !.groups = g, !.joined = j]
       IN  /\ n \in Tables /\ n.groups = g /\ n.joined = j
           /\ n.settings = there.settings /\ n.accounts = there.accounts
           /\ n.members = there.members /\ n.dropped = there.dropped
           /\ n.bound = there.bound /\ n.live = there.live /\ n.revoked = there.revoked
  BY <1>6, <1>9 DEF Tables
<1>11. QED
  BY <1>5, <1>6, <1>7, <1>8, <1>10 DEF g, j

(* _hard_delete_user, and an ordinary registration.                          *)
Unbound(d, u) == [k \in Keys |-> IF d.bound[k] = u THEN Nothing ELSE d.bound[k]]

LEMMA EraseDoes ==
  ASSUME NEW d \in Tables, NEW o, WellFormed(o), o.kind = "erase"
  PROVE  LET n == Erase(d, o)
         IN  /\ n \in Tables
             /\ n.members = [d.members EXCEPT ![o.who] = NoMember]
             /\ n.joined = {j \in d.joined : j[2] # o.who}
             /\ n.accounts = [d.accounts EXCEPT ![o.who] = GoneAccount]
             /\ n.bound = Unbound(d, o.who)
             /\ n.settings = d.settings /\ n.groups = d.groups /\ n.dropped = d.dropped
             /\ n.live = d.live /\ n.revoked = d.revoked
<1>1. o.who \in Users
  BY DEF WellFormed
<1> DEFINE p == Removed(d, o.who)
           a == [d.accounts EXCEPT ![o.who] = GoneAccount]
           b == Unbound(d, o.who)
<1>2. /\ p \in Tables
      /\ p.members = [d.members EXCEPT ![o.who] = NoMember]
      /\ p.joined = {j \in d.joined : j[2] # o.who}
      /\ p.settings = d.settings /\ p.accounts = d.accounts /\ p.groups = d.groups
      /\ p.dropped = d.dropped /\ p.bound = d.bound
      /\ p.live = d.live /\ p.revoked = d.revoked
  BY <1>1, RemovedDoes
<1>3. Erase(d, o) = [p EXCEPT !.accounts[o.who] = GoneAccount,
                       !.bound = [k \in Keys |-> IF @[k] = o.who THEN Nothing ELSE @[k]]]
  BY DEF Erase
<1> HIDE DEF p
<1>4. Erase(d, o) = [p EXCEPT !.accounts = a, !.bound = b]
  BY <1>2, <1>3 DEF Unbound, Tables
<1>5. a \in [Users -> Account]
  BY <1>1, FieldTypes DEF GoneAccount, Account
<1>6. b \in [Keys -> Users \cup {Nothing}]
  BY FieldTypes DEF Unbound
<1> HIDE DEF a, b
<1>7. LET n == [p EXCEPT !.accounts = a, !.bound = b]
      IN  /\ n \in Tables /\ n.accounts = a /\ n.bound = b
          /\ n.settings = p.settings /\ n.members = p.members /\ n.groups = p.groups
          /\ n.dropped = p.dropped /\ n.joined = p.joined
          /\ n.live = p.live /\ n.revoked = p.revoked
  BY <1>2, <1>5, <1>6 DEF Tables
<1>8. QED
  BY <1>2, <1>4, <1>7 DEF a, b

LEMMA RegisterDoes ==
  ASSUME NEW d \in Tables, NEW o, WellFormed(o), o.kind = "register"
  PROVE  LET n == Register(d, o)
         IN  /\ n \in Tables
             /\ n.accounts = [d.accounts EXCEPT ![o.who] = [source |-> "local", email |-> o.email]]
             /\ n.settings = d.settings /\ n.members = d.members /\ n.groups = d.groups
             /\ n.dropped = d.dropped /\ n.joined = d.joined /\ n.bound = d.bound
             /\ n.live = d.live /\ n.revoked = d.revoked
<1>1. o.who \in Users /\ o.email \in Emails
  BY DEF WellFormed
<1> DEFINE a == [d.accounts EXCEPT ![o.who] = [source |-> "local", email |-> o.email]]
<1>2. a \in [Users -> Account]
  BY <1>1, FieldTypes DEF Account
<1>3. Register(d, o) = [d EXCEPT !.accounts = a]
  BY FieldTypes DEF Register, Tables
<1> HIDE DEF a
<1>4. LET n == [d EXCEPT !.accounts = a]
      IN  /\ n \in Tables /\ n.accounts = a
          /\ n.settings = d.settings /\ n.members = d.members /\ n.groups = d.groups
          /\ n.dropped = d.dropped /\ n.joined = d.joined /\ n.bound = d.bound
          /\ n.live = d.live /\ n.revoked = d.revoked
  BY <1>2 DEF Tables
<1>5. QED
  BY <1>3, <1>4 DEF a
------------------------------------------------------------------------------
(* The operation and the guard of each kind of request.                      *)
LEMMA OperationOf ==
  ASSUME NEW d, NEW o
  PROVE
    /\ o.kind = "create" => Result(d, o) = CreateOrg(d, o) /\ (Allowed(d, o) => MayCreateOrg(d, o))
    /\ o.kind = "add" => Result(d, o) = AddMember(d, o) /\ (Allowed(d, o) => MayAddMember(d, o))
    /\ o.kind = "role" => Result(d, o) = SetRole(d, o) /\ (Allowed(d, o) => MaySetRole(d, o))
    /\ o.kind = "remove" => Result(d, o) = RemoveMember(d, o) /\ (Allowed(d, o) => MayRemove(d, o))
    /\ o.kind = "sso" => Result(d, o) = PatchSso(d, o) /\ (Allowed(d, o) => MayPatchSso(d, o))
    /\ o.kind = "mfa" => Result(d, o) = PatchMfa(d, o) /\ (Allowed(d, o) => MayPatchMfa(d, o))
    /\ o.kind = "group" => Result(d, o) = CreateGroup(d, o) /\ (Allowed(d, o) => MayCreateGroup(d, o))
    /\ o.kind = "ungroup" => Result(d, o) = DeleteGroup(d, o) /\ (Allowed(d, o) => MayDeleteGroup(d, o))
    /\ o.kind = "join" => Result(d, o) = Join(d, o) /\ (Allowed(d, o) => MayJoin(d, o))
    /\ o.kind = "part" => Result(d, o) = Part(d, o) /\ (Allowed(d, o) => MayPart(d, o))
    /\ o.kind = "mint" => Result(d, o) = Mint(d, o) /\ (Allowed(d, o) => MayMint(d, o))
    /\ o.kind = "revoke" => Result(d, o) = Revoke(d, o) /\ (Allowed(d, o) => MayRevoke(d, o))
    /\ o.kind = "provision" => Result(d, o) = ScimCreate(d, o) /\ (Allowed(d, o) => MayScimCreate(d, o))
    /\ o.kind = "write" => Result(d, o) = ScimWrite(d, o) /\ (Allowed(d, o) => MayScimWrite(d, o))
    /\ o.kind = "deprovision" => Result(d, o) = ScimDelete(d, o) /\ (Allowed(d, o) => MayScimDelete(d, o))
    /\ o.kind = "post" => Result(d, o) = ScimPut(d, o) /\ (Allowed(d, o) => MayScimPost(d, o))
    /\ o.kind = "put" => Result(d, o) = ScimPut(d, o) /\ (Allowed(d, o) => MayScimPut(d, o))
    /\ o.kind = "addto" => Result(d, o) = Join(d, o) /\ (Allowed(d, o) => MayScimAdd(d, o))
    /\ o.kind = "takefrom" => Result(d, o) = Part(d, o) /\ (Allowed(d, o) => MayScimTake(d, o))
    /\ o.kind = "drop" => Result(d, o) = ScimDropGroup(d, o) /\ (Allowed(d, o) => MayScimDropGroup(d, o))
    /\ o.kind = "signon" => Result(d, o) = SignOn(d, o) /\ (Allowed(d, o) => MaySignOn(d, o))
    /\ o.kind = "erase" => Result(d, o) = Erase(d, o) /\ (Allowed(d, o) => MayErase(d, o))
    /\ o.kind = "register" => Result(d, o) = Register(d, o) /\ (Allowed(d, o) => MayRegister(d, o))
BY DEF Result, Allowed

LEMMA KindsOf ==
  ASSUME NEW o, WellFormed(o)
  PROVE  o.kind \in {"create", "add", "role", "remove", "sso", "mfa", "group", "ungroup", "join",
                     "part", "mint", "revoke", "provision", "write", "deprovision", "post", "put",
                     "addto", "takefrom", "drop", "signon", "erase", "register"}
BY DEF WellFormed, Request, ScimKinds, OrgKinds

(* What an operation can do to an account, a binding and a member's row.     *)
MovesTo(a, b) ==
  \/ b = GoneAccount
  \/ a.source = "none" /\ b.source \in {"local", "org"} /\ b.email \in Emails
  \/ a.source \in {"local", "org"} /\ b.source = a.source /\ b.email \in Emails

AccountsMove(d, n) ==
  \/ n.accounts = d.accounts
  \/ \E u \in Users, row \in Account :
       n.accounts = [d.accounts EXCEPT ![u] = row] /\ MovesTo(d.accounts[u], row)

BindingsMove(d, n) ==
  \A k \in Keys : \/ n.bound[k] \in {Nothing, d.bound[k]}
                  \/ n.bound[k] \in Users /\ n.accounts[n.bound[k]].source = "org"

MembersMove(d, n) ==
  \/ n.members = d.members
  \/ \E u \in Users, row \in Member :
       n.members = [d.members EXCEPT ![u] = row] /\ (row = NoMember \/ row.role # "none")

TokensMove(d, n, o) ==
  \/ n.live = d.live /\ n.revoked = d.revoked
  \/ n.live = {} /\ n.revoked = d.revoked \cup d.live
  \/ o.kind = "mint" /\ n.live = {o.token} /\ n.revoked = d.revoked \cup d.live

GroupsMove(d, n) == d.groups \subseteq n.groups \cup n.dropped /\ d.dropped \subseteq n.dropped

LEMMA EmailOfAccount ==
  ASSUME NEW d \in Tables, RowsAreWhole(d), NEW u \in Users, HasAccount(d, u)
  PROVE  d.accounts[u].email \in Emails
BY FieldTypes DEF RowsAreWhole, Account

LEMMA ResultMoves ==
  ASSUME NEW d \in Tables, NEW o, WellFormed(o), RowsAreWhole(d), Allowed(d, o)
  PROVE  LET n == Result(d, o)
         IN  /\ n \in Tables
             /\ AccountsMove(d, n) /\ BindingsMove(d, n) /\ MembersMove(d, n)
             /\ TokensMove(d, n, o) /\ GroupsMove(d, n)
<1> DEFINE n == Result(d, o)
           Good == /\ n \in Tables
                   /\ AccountsMove(d, n) /\ BindingsMove(d, n) /\ MembersMove(d, n)
                   /\ TokensMove(d, n, o) /\ GroupsMove(d, n)
<1> USE DEF GroupsMove, TokensMove
<1> SUFFICES Good
  OBVIOUS
<1>a. n = Result(d, o)
  OBVIOUS
<1> HIDE DEF n
<1>0. n.accounts = d.accounts => AccountsMove(d, n)
  BY DEF AccountsMove
<1>1. n.bound = d.bound => BindingsMove(d, n)
  BY DEF BindingsMove
<1>2. n.members = d.members => MembersMove(d, n)
  BY DEF MembersMove
<1>3. ASSUME NEW u \in Users, NEW row \in Member, row = NoMember \/ row.role # "none",
             n.members = [d.members EXCEPT ![u] = row]
      PROVE  MembersMove(d, n)
  BY <1>3 DEF MembersMove
<1>4. ASSUME NEW u \in Users, NEW row \in Account, MovesTo(d.accounts[u], row),
             n.accounts = [d.accounts EXCEPT ![u] = row]
      PROVE  AccountsMove(d, n)
  BY <1>4 DEF AccountsMove
<1>5. CASE o.kind = "create"
  <2>1. o.by \in Users
    BY <1>5 DEF WellFormed, OrgKinds
  <2>2. n = CreateOrg(d, o)
    BY <1>5, <1>a, OperationOf
  <2>3. QED
    BY <1>0, <1>1, <1>3, <1>5, <2>1, <2>2, CreateOrgDoes, NewMemberType DEF Roles
<1>6. CASE o.kind = "add"
  <2>1. o.who \in Users /\ o.role \in Roles
    BY <1>6 DEF WellFormed
  <2>2. n = AddMember(d, o)
    BY <1>6, <1>a, OperationOf
  <2>3. QED
    BY <1>0, <1>1, <1>3, <1>6, <2>1, <2>2, AddMemberDoes, NewMemberType
<1>7. CASE o.kind = "role"
  <2>1. o.who \in Users /\ o.role \in Roles
    BY <1>7 DEF WellFormed
  <2>2. n = SetRole(d, o)
    BY <1>7, <1>a, OperationOf
  <2> DEFINE row == [d.members[o.who] EXCEPT !.role = o.role]
  <2>3. row \in Member /\ row.role # "none"
    BY <2>1, FieldTypes DEF Member, Roles
  <2>4. n.members = [d.members EXCEPT ![o.who] = row]
    BY <1>7, <2>1, <2>2, SetRoleDoes, FieldTypes
  <2> HIDE DEF row
  <2>5. MembersMove(d, n)
    BY <1>3, <2>1, <2>3, <2>4
  <2>6. QED
    BY <1>0, <1>1, <1>7, <2>2, <2>5, SetRoleDoes
<1>8. CASE o.kind \in {"remove", "deprovision"}
  <2>1. o.who \in Users
    BY <1>8 DEF WellFormed
  <2>2. n = Removed(d, o.who)
    BY <1>8, <1>a, OperationOf DEF RemoveMember, ScimDelete
  <2>3. QED
    BY <1>0, <1>1, <1>3, <2>1, <2>2, RemovedDoes, NoMemberType
<1>9. CASE o.kind = "sso"
  <2>1. n = PatchSso(d, o)
    BY <1>9, <1>a, OperationOf
  <2>2. /\ n \in Tables /\ n.members = d.members /\ n.accounts = d.accounts
        /\ n.bound = d.bound /\ n.groups = d.groups /\ n.dropped = d.dropped
        /\ n.live = d.live /\ n.revoked = d.revoked
    BY <2>1, PatchSsoDoes
  <2>3. QED
    BY <1>0, <1>1, <1>2, <2>2
<1>10. CASE o.kind = "mfa"
  <2>1. n = PatchMfa(d, o)
    BY <1>10, <1>a, OperationOf
  <2>2. /\ n \in Tables /\ n.members = d.members /\ n.accounts = d.accounts
        /\ n.bound = d.bound /\ n.groups = d.groups /\ n.dropped = d.dropped
        /\ n.live = d.live /\ n.revoked = d.revoked
    BY <2>1, PatchMfaDoes
  <2>3. QED
    BY <1>0, <1>1, <1>2, <2>2
<1>11. CASE o.kind = "group"
  BY <1>0, <1>1, <1>2, <1>11, <1>a, OperationOf, CreateGroupDoes
<1>12. CASE o.kind \in {"ungroup", "drop"}
  <2>1. n = DeleteGroup(d, o)
    BY <1>12, <1>a, OperationOf DEF ScimDropGroup
  <2>2. QED
    BY <1>0, <1>1, <1>2, <2>1, DeleteGroupDoes
<1>13. CASE o.kind \in {"join", "addto"}
  <2>1. n = Join(d, o)
    BY <1>13, <1>a, OperationOf
  <2>2. QED
    BY <1>0, <1>1, <1>2, <1>13, <2>1, JoinDoes
<1>14. CASE o.kind \in {"part", "takefrom"}
  <2>1. n = Part(d, o)
    BY <1>14, <1>a, OperationOf
  <2>2. QED
    BY <1>0, <1>1, <1>2, <1>14, <2>1, PartDoes
<1>15. CASE o.kind = "mint"
  BY <1>0, <1>1, <1>2, <1>15, <1>a, OperationOf, MintDoes
<1>16. CASE o.kind = "revoke"
  BY <1>0, <1>1, <1>2, <1>16, <1>a, OperationOf, RevokeDoes
<1>17. CASE o.kind \in {"post", "put"}
  <2>1. n = ScimPut(d, o)
    BY <1>17, <1>a, OperationOf
  <2>2. QED
    BY <1>0, <1>1, <1>2, <2>1, ScimPutDoes
<1>18. CASE o.kind = "provision"
  <2>1. o.who \in Users /\ o.email \in Emails /\ MayScimCreate(d, o)
    BY <1>18, <1>a, OperationOf DEF WellFormed
  <2>2. n = ScimCreate(d, o)
    BY <1>18, <1>a, OperationOf
  <2>3. ProvisionedRow(o) \in Member /\ ProvisionedRow(o).role # "none"
    BY <1>18 DEF ProvisionedRow, Member, Roles, WellFormed, Request
  <2>4. MembersMove(d, n)
    BY <1>3, <1>18, <2>1, <2>2, <2>3, ScimCreateDoes
  <2>5. CASE HasAccount(d, o.who)
    BY <1>0, <1>1, <1>18, <2>2, <2>4, <2>5, ScimCreateDoes
  <2>6. CASE ~HasAccount(d, o.who)
    <3> DEFINE row == [source |-> "org", email |-> o.email]
    <3>1. row \in Account /\ MovesTo(d.accounts[o.who], row) /\ row.source = "org"
      BY <2>1, <2>6 DEF Account, MovesTo, MayScimCreate, Fresh, Owned, HasAccount
    <3>2. /\ n.accounts = [d.accounts EXCEPT ![o.who] = row]
          /\ n.bound = BoundTo(d, o.who, CreateKeys(o))
      BY <1>18, <2>2, <2>6, ScimCreateDoes
    <3> HIDE DEF row
    <3>3. AccountsMove(d, n)
      BY <1>4, <2>1, <3>1, <3>2
    <3>4. BindingsMove(d, n)
      BY <2>1, <3>1, <3>2, FieldTypes DEF BindingsMove, BoundTo
    <3>5. QED
      BY <1>18, <2>2, <2>4, <2>6, <3>3, <3>4, ScimCreateDoes
  <2>7. QED
    BY <2>5, <2>6
<1>19. CASE o.kind = "write"
  <2>1. o.who \in Users /\ MayScimWrite(d, o)
    BY <1>19, <1>a, OperationOf DEF WellFormed
  <2>2. n = ScimWrite(d, o)
    BY <1>19, <1>a, OperationOf
  <2>3. /\ d.accounts[o.who] \in Account /\ HasAccount(d, o.who)
        /\ d.members[o.who] \in Member /\ d.members[o.who].role # "none"
    BY <2>1, FieldTypes DEF MayScimWrite, IsMember
  <2> DEFINE row == WrittenRow(d, o)
             acc == [d.accounts[o.who] EXCEPT !.email = WrittenEmail(d, o)]
  <2>4. /\ n \in Tables
        /\ n.members = [d.members EXCEPT ![o.who] = row] /\ row.role = d.members[o.who].role
        /\ n.accounts = [d.accounts EXCEPT ![o.who] = acc]
        /\ n.bound = BoundTo(d, o.who, NewKeys(d, o))
        /\ n.groups = d.groups /\ n.dropped = d.dropped
        /\ n.live = d.live /\ n.revoked = d.revoked
    BY <1>19, <2>1, <2>2, ScimWriteDoes, FieldTypes
  <2>5. row \in Member
    BY <2>1, <2>4, FieldTypes
  <2>6. WrittenEmail(d, o) \in Emails
    BY <1>19, <2>1, <2>3, EmailOfAccount DEF WrittenEmail, WellFormed
  <2>7. acc \in Account /\ MovesTo(d.accounts[o.who], acc) /\ acc.source = d.accounts[o.who].source
    BY <2>3, <2>6 DEF Account, MovesTo, HasAccount
  <2>8. NewKeys(d, o) # {} => d.accounts[o.who].source = "org"
    BY <2>1 DEF NewKeys, MayScimWrite, Owned
  <2> HIDE DEF row, acc
  <2>9. MembersMove(d, n)
    BY <1>3, <2>1, <2>3, <2>4, <2>5
  <2>10. AccountsMove(d, n)
    BY <1>4, <2>1, <2>4, <2>7
  <2>11. BindingsMove(d, n)
    BY <2>1, <2>4, <2>7, <2>8, FieldTypes DEF BindingsMove, BoundTo
  <2>12. QED
    BY <2>4, <2>9, <2>10, <2>11
<1>20. CASE o.kind = "signon"
  <2>1. o.who \in Users /\ o.email \in Emails /\ MaySignOn(d, o)
    BY <1>20, <1>a, OperationOf DEF WellFormed
  <2>2. n = SignOn(d, o)
    BY <1>20, <1>a, OperationOf
  <2>3. /\ n \in Tables /\ n.bound = SignOnBound(d, o)
        /\ n.groups = d.groups \cup o.groups /\ n.dropped = d.dropped
        /\ n.live = d.live /\ n.revoked = d.revoked
    BY <1>20, <2>2, SignOnDoes
  <2>4. MembersMove(d, n) /\ AccountsMove(d, n) /\ n.accounts[o.who].source = "org"
    <3>1. CASE HasAccount(d, o.who)
      <4>1. n.members = d.members /\ n.accounts = d.accounts
        BY <1>20, <2>2, <3>1, SignOnDoes
      <4>2. QED
        BY <1>0, <1>2, <2>1, <3>1, <4>1 DEF MaySignOn, Owned, Fresh, HasAccount
    <3>2. CASE ~HasAccount(d, o.who)
      <4> DEFINE row == [source |-> "org", email |-> o.email]
      <4>1. row \in Account /\ MovesTo(d.accounts[o.who], row) /\ row.source = "org"
        BY <2>1, <3>2 DEF Account, MovesTo, MaySignOn, Fresh, Owned, HasAccount
      <4>2. /\ n.accounts = [d.accounts EXCEPT ![o.who] = row]
            /\ n.members = [d.members EXCEPT ![o.who] = NewMember("member")]
        BY <1>20, <2>2, <3>2, SignOnDoes
      <4> HIDE DEF row
      <4>3. AccountsMove(d, n) /\ MembersMove(d, n)
        BY <1>3, <1>4, <2>1, <4>1, <4>2, NewMemberType DEF Roles
      <4>4. QED
        BY <2>1, <4>1, <4>2, <4>3, FieldTypes
    <3>3. QED
      BY <3>1, <3>2
  <2>5. BindingsMove(d, n)
    BY <2>1, <2>3, <2>4 DEF BindingsMove, SignOnBound, Cleared
  <2>6. QED
    BY <2>3, <2>4, <2>5
<1>21. CASE o.kind = "erase"
  <2>1. o.who \in Users
    BY <1>21 DEF WellFormed
  <2>2. n = Erase(d, o)
    BY <1>21, <1>a, OperationOf
  <2>3. /\ n \in Tables /\ n.bound = Unbound(d, o.who)
        /\ n.members = [d.members EXCEPT ![o.who] = NoMember]
        /\ n.accounts = [d.accounts EXCEPT ![o.who] = GoneAccount]
        /\ n.groups = d.groups /\ n.dropped = d.dropped
        /\ n.live = d.live /\ n.revoked = d.revoked
    BY <1>21, <2>2, EraseDoes
  <2>4. GoneAccount \in Account /\ MovesTo(d.accounts[o.who], GoneAccount)
    BY DEF GoneAccount, Account, MovesTo
  <2>5. AccountsMove(d, n) /\ MembersMove(d, n)
    BY <1>3, <1>4, <2>1, <2>3, <2>4, NoMemberType
  <2>6. BindingsMove(d, n)
    BY <2>3 DEF BindingsMove, Unbound
  <2>7. QED
    BY <2>3, <2>5, <2>6
<1>22. CASE o.kind = "register"
  <2>1. o.who \in Users /\ o.email \in Emails /\ MayRegister(d, o)
    BY <1>22, <1>a, OperationOf DEF WellFormed
  <2>2. n = Register(d, o)
    BY <1>22, <1>a, OperationOf
  <2> DEFINE row == [source |-> "local", email |-> o.email]
  <2>3. row \in Account /\ MovesTo(d.accounts[o.who], row)
    BY <2>1 DEF Account, MovesTo, MayRegister, Fresh
  <2>4. n.accounts = [d.accounts EXCEPT ![o.who] = row]
    BY <1>22, <2>2, RegisterDoes
  <2> HIDE DEF row
  <2>5. AccountsMove(d, n)
    BY <1>4, <2>1, <2>3, <2>4
  <2>6. QED
    BY <1>1, <1>2, <1>22, <2>2, <2>5, RegisterDoes
<1>23. QED
  BY KindsOf, <1>5, <1>6, <1>7, <1>8, <1>9, <1>10, <1>11, <1>12, <1>13, <1>14, <1>15, <1>16,
     <1>17, <1>18, <1>19, <1>20, <1>21, <1>22
------------------------------------------------------------------------------
(* What a commit leaves: now is the committed tables, old what the session   *)
(* read, n what it wants.                                                    *)
Landing(now, old, n, o) ==
  /\ now \in Tables /\ old \in Tables /\ n \in Tables
  /\ RowsAreWhole(now) /\ RowsAreWhole(old)
  /\ AccountsMove(old, n) /\ BindingsMove(old, n) /\ MembersMove(old, n)
  /\ TokensMove(old, n, o) /\ GroupsMove(old, n)
  /\ Precedes(old, now)
  /\ ~Clashes(now, old, n)

LEMMA MergedMemberType ==
  ASSUME NEW now \in Member, NEW old \in Member, NEW new \in Member
  PROVE  MergedMember(now, old, new) \in Member
BY DEF MergedMember, Member, Written

LEMMA MergedType ==
  ASSUME NEW now \in Tables, NEW old \in Tables, NEW n \in Tables
  PROVE  Merged(now, old, n) \in Tables
<1> DEFINE e == now.exists \/ n.exists
           z == Written(now.settings, old.settings, n.settings)
           a == [u \in Users |-> Written(now.accounts[u], old.accounts[u], n.accounts[u])]
           r == [u \in Users |-> MergedMember(now.members[u], old.members[u], n.members[u])]
           g == Patched(now.groups, old.groups, n.groups)
           x == now.dropped \cup n.dropped
           j == {i \in Patched(now.joined, old.joined, n.joined) : i[1] \notin old.groups \ n.groups}
           b == [k \in Keys |-> Written(now.bound[k], old.bound[k], n.bound[k])]
           l == Patched(now.live, old.live, n.live)
           v == now.revoked \cup n.revoked
<1>1. e \in BOOLEAN /\ z \in Settings
  BY FieldTypes DEF Written
<1>2. a \in [Users -> Account]
  BY FieldTypes DEF Written
<1>3. r \in [Users -> Member]
  BY FieldTypes, MergedMemberType
<1>4. g \in SUBSET Groups /\ x \in SUBSET Groups
  BY FieldTypes DEF Patched
<1>5. j \in SUBSET (Groups \X Users)
  BY FieldTypes DEF Patched
<1>6. b \in [Keys -> Users \cup {Nothing}]
  BY FieldTypes DEF Written
<1>7. l \in SUBSET Tokens /\ v \in SUBSET Tokens
  BY FieldTypes DEF Patched
<1>8. Merged(now, old, n) =
        [exists |-> e, settings |-> z, accounts |-> a, members |-> r, groups |-> g, dropped |-> x,
         joined |-> j, bound |-> b, live |-> l, revoked |-> v]
  BY DEF Merged
<1> HIDE DEF e, z, a, r, g, x, j, b, l, v
<1>9. QED
  BY <1>1, <1>2, <1>3, <1>4, <1>5, <1>6, <1>7, <1>8 DEF Tables

(* An account is as it is by now, or gone, or as the session wants it, which *)
(* then found it as it is by now.                                            *)
LEMMA MergedAccount ==
  ASSUME NEW now, NEW old, NEW n, NEW o, Landing(now, old, n, o), NEW u \in Users
  PROVE  LET acc == Merged(now, old, n).accounts[u]
         IN  \/ acc = now.accounts[u] /\ n.accounts[u] = old.accounts[u]
             \/ acc = GoneAccount /\ n.accounts[u] = GoneAccount
             \/ /\ acc = n.accounts[u] /\ n.accounts[u] # old.accounts[u]
                /\ now.accounts[u].source = old.accounts[u].source
                /\ MovesTo(old.accounts[u], n.accounts[u])
<1>1. Merged(now, old, n).accounts[u] = Written(now.accounts[u], old.accounts[u], n.accounts[u])
  BY DEF Merged
<1>2. n.accounts[u] = old.accounts[u] \/ MovesTo(old.accounts[u], n.accounts[u])
  BY FieldTypes DEF Landing, AccountsMove
<1>3. /\ n.accounts[u] # old.accounts[u] /\ n.accounts[u] # GoneAccount
      => now.accounts[u].source = old.accounts[u].source
  BY DEF Landing, Clashes, RowClash
<1>4. QED
  BY <1>1, <1>2, <1>3 DEF Written

(* An account of the organisation, or one that is gone, stays one; so does   *)
(* what the session makes one.                                               *)
LEMMA OursStays ==
  ASSUME NEW now, NEW old, NEW n, NEW o, Landing(now, old, n, o), NEW u \in Users
  PROVE  Ours(now, u) \/ Ours(n, u) => Ours(Merged(now, old, n), u)
<1>1. Ours(old, u) => Ours(now, u)
  BY DEF Landing, Precedes
<1>2. GoneAccount.source = "gone"
  BY DEF GoneAccount
<1>3. QED
  BY <1>1, <1>2, MergedAccount DEF Ours, OrgOrGone, MovesTo

LEMMA BindingsStay ==
  ASSUME NEW now, NEW old, NEW n, NEW o, Landing(now, old, n, o), BindsItsOwn(now), BindsItsOwn(old)
  PROVE  BindsItsOwn(Merged(now, old, n))
<1> DEFINE m == Merged(now, old, n)
<1> SUFFICES ASSUME NEW k \in Keys, m.bound[k] # Nothing
             PROVE  Ours(m, m.bound[k])
  BY DEF BindsItsOwn, Ours, OrgOrGone
<1>1. m.bound[k] = Written(now.bound[k], old.bound[k], n.bound[k])
  BY DEF Merged
<1>2. CASE n.bound[k] = old.bound[k]
  <2>1. m.bound[k] = now.bound[k]
    BY <1>1, <1>2 DEF Written
  <2>2. now.bound[k] \in Users
    BY <2>1, FieldTypes DEF Landing
  <2>3. Ours(now, now.bound[k])
    BY <2>1 DEF BindsItsOwn, Ours, OrgOrGone
  <2>4. QED
    BY <2>1, <2>2, <2>3, OursStays
<1>3. CASE n.bound[k] # old.bound[k]
  <2>1. m.bound[k] = n.bound[k]
    BY <1>1, <1>3 DEF Written
  <2>2. n.bound[k] \in Users /\ Ours(n, n.bound[k])
    BY <1>3, <2>1 DEF Landing, BindingsMove, Ours, OrgOrGone
  <2>3. QED
    BY <2>1, <2>2, OursStays
<1>4. QED
  BY <1>2, <1>3

(* A member's row is as it is by now, or gone, or new, or the row as it is   *)
(* by now with what the session changed.                                     *)
LEMMA MergedRow ==
  ASSUME NEW now, NEW old, NEW n, NEW o, Landing(now, old, n, o), NEW u \in Users
  PROVE  LET row == Merged(now, old, n).members[u]
         IN  /\ row.role = "none" => row = NoMember
             /\ \/ row.ext = now.members[u].ext
                \/ row.ext = Nothing
                \/ row.ext = n.members[u].ext /\ n.members[u].ext # old.members[u].ext
             /\ n.members[u] = old.members[u] => row = now.members[u]
<1> DEFINE x == now.members[u]
           y == old.members[u]
           w == n.members[u]
           row == MergedMember(x, y, w)
<1>1. Merged(now, old, n).members[u] = row
  BY DEF Merged
<1>2. x \in Member /\ y \in Member /\ w \in Member
  BY FieldTypes DEF Landing
<1>3. (x.role = "none" => x = NoMember) /\ (y.role = "none" => y = NoMember)
  BY DEF Landing, RowsAreWhole, IsMember
<1>4. w = y \/ w = NoMember \/ w.role # "none"
  BY FieldTypes DEF Landing, MembersMove
<1>5. w # y /\ w # NoMember => (x.role # "none" <=> y.role # "none")
  BY DEF Landing, Clashes, RowClash, IsMember
<1> DEFINE Goal == /\ row.role = "none" => row = NoMember
                   /\ \/ row.ext = x.ext \/ row.ext = Nothing
                      \/ row.ext = w.ext /\ w.ext # y.ext
                   /\ w = y => row = x
<1> HIDE DEF x, y, w
<1>6. ASSUME w = y PROVE Goal
  BY <1>3, <1>6 DEF MergedMember
<1>7. ASSUME w # y /\ (w = NoMember \/ y = NoMember) PROVE Goal
  <2>1. row = w
    BY <1>7 DEF MergedMember
  <2>2. QED
    BY <1>4, <1>7, <2>1, NoMemberType
<1>8. ASSUME w # y /\ w # NoMember /\ y # NoMember PROVE Goal
  <2>1. /\ row.role = Written(x.role, y.role, w.role)
        /\ row.ext = Written(x.ext, y.ext, w.ext)
    BY <1>8 DEF MergedMember
  <2>2. x.role # "none" /\ w.role # "none"
    BY <1>3, <1>4, <1>5, <1>8
  <2>3. QED
    BY <1>8, <2>1, <2>2 DEF Written
<1>9. Goal
  BY <1>6, <1>7, <1>8
<1>10. QED
  BY <1>1, <1>9 DEF x, y, w

LEMMA RowsStayWhole ==
  ASSUME NEW now, NEW old, NEW n, NEW o, Landing(now, old, n, o),
         o.kind = "mint" => o.token \notin now.live \cup now.revoked
  PROVE  RowsAreWhole(Merged(now, old, n))
<1> DEFINE m == Merged(now, old, n)
<1>1. ASSUME NEW u \in Users PROVE ~IsMember(m, u) => m.members[u] = NoMember
  BY MergedRow DEF IsMember
<1>2. ASSUME NEW u \in Users PROVE HasAccount(m, u) <=> m.accounts[u].email # Nothing
  <2>1. HasAccount(now, u) <=> now.accounts[u].email # Nothing
    BY DEF Landing, RowsAreWhole
  <2>2. ~(GoneAccount.source \in {"local", "org"}) /\ GoneAccount.email = Nothing
    BY DEF GoneAccount
  <2>3. ASSUME MovesTo(old.accounts[u], n.accounts[u]), n.accounts[u] # GoneAccount
        PROVE  n.accounts[u].source \in {"local", "org"} /\ n.accounts[u].email # Nothing
    BY <2>3, NothingAssumption DEF MovesTo
  <2>4. QED
    BY <2>1, <2>2, <2>3, MergedAccount DEF HasAccount
<1>3. m.live \cap m.revoked = {}
  <2>1. /\ m.live = (now.live \ (old.live \ n.live)) \cup (n.live \ old.live)
        /\ m.revoked = now.revoked \cup n.revoked
    BY DEF Merged, Patched
  <2>2. /\ now.live \cap now.revoked = {}
        /\ old.revoked \subseteq now.revoked
    BY DEF Landing, RowsAreWhole, Precedes
  <2>3. CASE n.live = old.live /\ n.revoked = old.revoked
    BY <2>1, <2>2, <2>3
  <2>4. CASE n.live = {} /\ n.revoked = old.revoked \cup old.live
    BY <2>1, <2>2, <2>4
  <2>5. CASE o.kind = "mint" /\ n.live = {o.token} /\ n.revoked = old.revoked \cup old.live
    BY <2>1, <2>2, <2>5
  <2>6. QED
    BY <2>3, <2>4, <2>5 DEF Landing, TokensMove
<1>4. QED
  BY <1>1, <1>2, <1>3 DEF RowsAreWhole

(* Only one account and one member's row change in a request.                *)
LEMMA OneChanges ==
  ASSUME NEW now, NEW old, NEW n, NEW o, Landing(now, old, n, o),
         NEW u \in Users, NEW v \in Users, u # v
  PROVE  /\ n.accounts[u] = old.accounts[u] \/ n.accounts[v] = old.accounts[v]
         /\ n.members[u] = old.members[u] \/ n.members[v] = old.members[v]
<1>1. n.accounts[u] = old.accounts[u] \/ n.accounts[v] = old.accounts[v]
  <2>1. old.accounts \in [Users -> Account] /\ n.accounts \in [Users -> Account]
    BY FieldTypes DEF Landing
  <2>2. \/ n.accounts = old.accounts
        \/ \E w \in Users, row \in Account : n.accounts = [old.accounts EXCEPT ![w] = row]
    BY DEF Landing, AccountsMove
  <2>3. QED
    BY <2>1, <2>2
<1>2. n.members[u] = old.members[u] \/ n.members[v] = old.members[v]
  <2>1. old.members \in [Users -> Member] /\ n.members \in [Users -> Member]
    BY FieldTypes DEF Landing
  <2>2. \/ n.members = old.members
        \/ \E w \in Users, row \in Member : n.members = [old.members EXCEPT ![w] = row]
    BY DEF Landing, MembersMove
  <2>3. QED
    BY <2>1, <2>2
<1>3. QED
  BY <1>1, <1>2

(* The e-mail an account gets is nobody's by now, the external id a row gets *)
(* is nobody's.                                                              *)
LEMMA MergedEmail ==
  ASSUME NEW now, NEW old, NEW n, NEW o, Landing(now, old, n, o),
         NEW u \in Users, NEW v \in Users, u # v, n.accounts[v] = old.accounts[v],
         HasAccount(Merged(now, old, n), u), HasAccount(Merged(now, old, n), v), NamesOne(now)
  PROVE  Merged(now, old, n).accounts[u].email # Merged(now, old, n).accounts[v].email
<1> DEFINE m == Merged(now, old, n)
<1>1. m.accounts[v] = now.accounts[v]
  BY DEF Merged, Written
<1>2. ~(GoneAccount.source \in {"local", "org"})
  BY DEF GoneAccount
<1>3. CASE m.accounts[u] = now.accounts[u]
  BY <1>1, <1>3 DEF NamesOne, HasAccount
<1>4. CASE m.accounts[u] = n.accounts[u] /\ n.accounts[u] # old.accounts[u] /\ MovesTo(old.accounts[u], n.accounts[u])
  <2>1. n.accounts[u].email \in Emails /\ n.accounts[u].email # Nothing
    BY <1>2, <1>4, NothingAssumption DEF MovesTo, HasAccount
  <2>2. old.accounts[u] \in Account /\ n.accounts[u] \in Account
    BY FieldTypes DEF Landing
  <2>3. HasAccount(old, u) <=> old.accounts[u].email # Nothing
    BY DEF Landing, RowsAreWhole
  <2>4. n.accounts[u].email # old.accounts[u].email
    BY <1>2, <1>4, <2>1, <2>2, <2>3 DEF MovesTo, HasAccount, Account
  <2>5. now.accounts[v].email # n.accounts[u].email
    BY <2>1, <2>4 DEF Landing, Clashes, EmailClash
  <2>6. QED
    BY <1>1, <1>4, <2>5
<1>5. QED
  BY <1>2, <1>3, <1>4, MergedAccount DEF HasAccount

LEMMA MergedExt ==
  ASSUME NEW now, NEW old, NEW n, NEW o, Landing(now, old, n, o),
         NEW u \in Users, NEW v \in Users, u # v, n.members[v] = old.members[v],
         Merged(now, old, n).members[u].ext = Merged(now, old, n).members[v].ext, NamesOne(now)
  PROVE  Merged(now, old, n).members[u].ext = Nothing
<1> DEFINE m == Merged(now, old, n)
<1>1. m.members[v] = now.members[v]
  BY MergedRow
<1>2. CASE m.members[u].ext = now.members[u].ext
  BY <1>1, <1>2 DEF NamesOne
<1>3. CASE m.members[u].ext = n.members[u].ext /\ n.members[u].ext # old.members[u].ext
  BY <1>1, <1>3 DEF Landing, Clashes, ExtClash
<1>4. QED
  BY <1>2, <1>3, MergedRow

LEMMA NamesStayOne ==
  ASSUME NEW now, NEW old, NEW n, NEW o, Landing(now, old, n, o), NamesOne(now)
  PROVE  NamesOne(Merged(now, old, n))
<1> DEFINE m == Merged(now, old, n)
<1> SUFFICES ASSUME NEW u \in Users, NEW v \in Users, u # v
             PROVE  /\ HasAccount(m, u) /\ HasAccount(m, v)
                         => m.accounts[u].email # m.accounts[v].email
                    /\ m.members[u].ext = m.members[v].ext => m.members[u].ext = Nothing
  BY DEF NamesOne
<1>1. HasAccount(m, u) /\ HasAccount(m, v) => m.accounts[u].email # m.accounts[v].email
  BY OneChanges, MergedEmail
<1>2. m.members[u].ext = m.members[v].ext => m.members[u].ext = Nothing
  BY OneChanges, MergedExt
<1>3. QED
  BY <1>1, <1>2

(* What came before the tables comes before what a commit makes of them.     *)
LEMMA PrecedesMerged ==
  ASSUME NEW now, NEW old, NEW n, NEW o, Landing(now, old, n, o), NEW d, Precedes(d, now)
  PROVE  Precedes(d, Merged(now, old, n))
<1> DEFINE m == Merged(now, old, n)
<1>1. ASSUME NEW u \in Users, Ours(d, u) PROVE Ours(m, u)
  BY <1>1, OursStays DEF Precedes
<1>2. d.groups \subseteq m.groups \cup m.dropped
  BY DEF Precedes, Landing, GroupsMove, Merged, Patched
<1>3. d.live \subseteq m.live \cup m.revoked /\ d.revoked \subseteq m.revoked
  <2>1. old.live \ n.live \subseteq n.revoked
    BY DEF Landing, TokensMove
  <2>2. QED
    BY <2>1 DEF Precedes, Merged, Patched
<1>4. QED
  BY <1>1, <1>2, <1>3 DEF Precedes
------------------------------------------------------------------------------
(* The invariant, action by action.                                          *)
LEMMA NoTablesRead ==
  /\ NoTables \in Tables
  /\ RowsAreWhole(NoTables) /\ BindsItsOwn(NoTables)
  /\ \A d : Precedes(NoTables, d)
<1>1. NoTables \in Tables
  <2>1. NoAccount \in Account /\ NoMember \in Member
    BY NoMemberType DEF NoAccount, Account
  <2>2. QED
    BY <2>1 DEF NoTables, Tables, Settings
<1>2. RowsAreWhole(NoTables) /\ BindsItsOwn(NoTables)
  BY DEF NoTables, RowsAreWhole, BindsItsOwn, NoAccount, HasAccount
<1>3. ASSUME NEW d PROVE Precedes(NoTables, d)
  BY DEF NoTables, Precedes, NoAccount, Ours, OrgOrGone
<1>4. QED
  BY <1>1, <1>2, <1>3

LEMMA PrecedesItself == \A d : Precedes(d, d)
BY DEF Precedes

LEMMA NoRequestKind == NoRequest.kind = "none" /\ NoRequest.token = Nothing
BY DEF NoRequest

LEMMA Established == Init => Inv
<1> SUFFICES ASSUME Init PROVE Inv
  OBVIOUS
<1> USE DEF Init
<1>1. db \in Tables /\ RowsAreWhole(db) /\ BindsItsOwn(db) /\ NamesOne(db)
  BY OpeningsAssumption
<1>2. TypeOK
  BY <1>1, NoTablesRead, MaxOpsAssumption DEF TypeOK
<1>3. IdpReachesItsOwn /\ IdentitiesAreUnique
  BY <1>1 DEF IdpReachesItsOwn, IdentitiesAreUnique
<1>4. ASSUME NEW s \in Sessions PROVE Serving(s) /\ FreshToken(s)
  BY NoTablesRead, NoRequestKind DEF Serving, FreshToken
<1>5. QED
  BY <1>2, <1>3, <1>4 DEF Inv

(* A step that leaves the tables alone: a session it does not touch goes on, *)
(* one it closes is idle, and no new token is about to be minted.            *)
LEMMA Untouched ==
  ASSUME NEW t \in Sessions, Serving(t), db' = db,
         pc'[t] = pc[t], req'[t] = req[t], seen'[t] = seen[t]
  PROVE  Serving(t)'
BY DEF Serving

LEMMA Idle ==
  ASSUME NEW t \in Sessions, pc'[t] = "idle", req'[t] = NoRequest, seen'[t] = NoTables
  PROVE  Serving(t)'
BY NoTablesRead DEF Serving

LEMMA TokensUntouched ==
  ASSUME \A t \in Sessions : FreshToken(t), db' = db,
         \A t \in Sessions : req'[t] = req[t] \/ req'[t].kind # "mint"
  PROVE  \A t \in Sessions : FreshToken(t)'
BY DEF FreshToken

LEMMA TablesAlone ==
  ASSUME Inv, db' = db, TypeOK', \A u \in signed' \ astray' : Ours(db, u),
         \A s \in Sessions : Serving(s)', \A s \in Sessions : FreshToken(s)'
  PROVE  Inv'
<1>1. IdentitiesAreUnique'
  BY DEF Inv, IdentitiesAreUnique
<1>2. IdpReachesItsOwn'
  BY DEF Inv, IdpReachesItsOwn, Ours, OrgOrGone
<1>3. QED
  BY <1>1, <1>2 DEF Inv

LEMMA CloseKeeps ==
  ASSUME Inv, NEW s \in Sessions, Close(s), UNCHANGED <<db, budget>>,
         signed' \subseteq Users, astray' \subseteq Users,
         \A u \in signed' \ astray' : Ours(db, u)
  PROVE  Inv'
<1>1. /\ pc' \in [Sessions -> {"idle", "called", "open", "mint"}]
      /\ req' \in [Sessions -> Requests \cup {NoRequest}] /\ seen' \in [Sessions -> Tables]
      /\ address' \in [Sessions -> Emails \cup {Nothing}]
  BY NoTablesRead DEF Inv, TypeOK, Close
<1>2. TypeOK'
  BY <1>1 DEF Inv, TypeOK
<1>3. /\ pc'[s] = "idle" /\ req'[s] = NoRequest /\ seen'[s] = NoTables
      /\ \A t \in Sessions \ {s} : pc'[t] = pc[t] /\ req'[t] = req[t] /\ seen'[t] = seen[t]
  BY DEF Inv, TypeOK, Close
<1>4. ASSUME NEW t \in Sessions PROVE Serving(t)'
  BY <1>3, Untouched, Idle DEF Inv
<1>5. \A t \in Sessions : FreshToken(t)'
  BY <1>3, TokensUntouched, NoRequestKind DEF Inv
<1>6. QED
  BY <1>2, <1>4, <1>5, TablesAlone

LEMMA SignedOurs ==
  ASSUME Inv
  PROVE  signed \subseteq Users /\ astray \subseteq Users /\ \A u \in signed \ astray : Ours(db, u)
BY DEF Inv, TypeOK, IdpReachesItsOwn, Ours, OrgOrGone

LEMMA CallKeeps ==
  ASSUME Inv, NEW s \in Sessions, NEW o \in Requests, Call(s, o)
  PROVE  Inv'
<1>1. /\ pc' \in [Sessions -> {"idle", "called", "open", "mint"}]
      /\ req' \in [Sessions -> Requests \cup {NoRequest}] /\ seen' \in [Sessions -> Tables]
  BY DEF Inv, TypeOK, Call
<1>2. budget' \in Nat
  BY DEF Inv, TypeOK, Call
<1>3. TypeOK'
  BY <1>1, <1>2 DEF Inv, TypeOK, Call
<1>4. /\ pc'[s] = "called" /\ req'[s] = o /\ seen'[s] = seen[s] /\ db' = db
      /\ \A t \in Sessions \ {s} : pc'[t] = pc[t] /\ req'[t] = req[t] /\ seen'[t] = seen[t]
  BY DEF Inv, TypeOK, Call
<1>5. o.kind \in ScimKinds \cup {"signon"} /\ o.kind # "mint"
  BY DEF Call, ScimKinds
<1>6. Serving(s)'
  BY <1>4, <1>5 DEF Inv, Serving
<1>7. ASSUME NEW t \in Sessions PROVE Serving(t)'
  BY <1>4, <1>6, Untouched DEF Inv
<1>8. \A t \in Sessions : FreshToken(t)'
  BY <1>4, <1>5, TokensUntouched DEF Inv
<1>9. QED
  BY <1>3, <1>4, <1>7, <1>8, TablesAlone, SignedOurs DEF Call

LEMMA MintToken ==
  ASSUME NEW o \in Requests, o.kind = "mint", Allowed(db, o)
  PROVE  o.token \notin db.live \cup db.revoked
BY OperationOf DEF MayMint

(* A session that reads the tables: the request is let in on what it reads.  *)
LEMMA OpenKeeps ==
  ASSUME Inv, NEW s \in Sessions, NEW o \in Requests, Open(s, o), budget' \in Nat,
         o.kind = "mint" => \A t \in Sessions \ {s} : req[t].token # o.token
  PROVE  Inv'
<1>1. /\ pc' \in [Sessions -> {"idle", "called", "open", "mint"}]
      /\ req' \in [Sessions -> Requests \cup {NoRequest}] /\ seen' \in [Sessions -> Tables]
  BY DEF Inv, TypeOK, Open
<1>0. LinksBy(db, o) \in Emails \cup {Nothing}
  <2>1. o.kind = "signon" => o.email \in Emails
    BY RequestsAssumption DEF WellFormed
  <2>2. \A u \in Users : db.accounts[u].email \in Emails \cup {Nothing}
    BY FieldTypes DEF Inv, TypeOK, Account
  <2>3. o.kind = "signon" => o.who \in Users
    BY RequestsAssumption DEF WellFormed
  <2>4. QED
    BY <2>1, <2>2, <2>3 DEF LinksBy, EmailOf
<1>2. TypeOK'
  BY <1>0, <1>1 DEF Inv, TypeOK, Open
<1>3. /\ pc'[s] = "open" /\ req'[s] = o /\ seen'[s] = db /\ db' = db
      /\ \A t \in Sessions \ {s} : pc'[t] = pc[t] /\ req'[t] = req[t] /\ seen'[t] = seen[t]
  BY DEF Inv, TypeOK, Open
<1>4. Serving(s)'
  BY <1>3, PrecedesItself DEF Inv, TypeOK, IdpReachesItsOwn, Open, Serving
<1>5. ASSUME NEW t \in Sessions PROVE Serving(t)'
  BY <1>3, <1>4, Untouched DEF Inv
<1>6. ASSUME NEW t \in Sessions PROVE FreshToken(t)'
  BY <1>3, MintToken DEF Inv, FreshToken, Open
<1>7. QED
  BY <1>2, <1>3, <1>5, <1>6, TablesAlone, SignedOurs DEF Open

(* A commit: the tables become the merged ones, and every other session goes *)
(* on with what it read before them.                                         *)
LEMMA CommitLands ==
  ASSUME Inv, NEW s \in Sessions, Commit(s)
  PROVE  /\ Landing(db, seen[s], Result(seen[s], req[s]), req[s])
         /\ WellFormed(req[s]) /\ Allowed(seen[s], req[s])
         /\ RowsAreWhole(seen[s]) /\ BindsItsOwn(seen[s])
         /\ pc[s] = "open" /\ db' = Merged(db, seen[s], Result(seen[s], req[s]))
<1>1. /\ pc[s] = "open" /\ db' = Merged(db, seen[s], Result(seen[s], req[s]))
      /\ ~Clashes(db, seen[s], Result(seen[s], req[s]))
  BY DEF Commit
<1>2. /\ RowsAreWhole(seen[s]) /\ BindsItsOwn(seen[s]) /\ Precedes(seen[s], db)
      /\ req[s] \in Requests /\ Allowed(seen[s], req[s])
      /\ db \in Tables /\ seen[s] \in Tables /\ RowsAreWhole(db)
  BY <1>1 DEF Inv, TypeOK, Serving
<1>3. WellFormed(req[s])
  BY <1>2, RequestsAssumption
<1>4. QED
  BY <1>1, <1>2, <1>3, ResultMoves DEF Landing

(* The account a sign-on names is the organisation's when it commits.        *)
LEMMA SignOnIsOurs ==
  ASSUME NEW d \in Tables, NEW o, WellFormed(o), o.kind = "signon", Allowed(d, o)
  PROVE  o.who \in Users /\ Ours(Result(d, o), o.who)
<1>1. o.who \in Users /\ MaySignOn(d, o) /\ Result(d, o) = SignOn(d, o)
  BY OperationOf DEF WellFormed
<1>2. CASE HasAccount(d, o.who)
  <2>1. SignOn(d, o).accounts = d.accounts
    BY <1>2, SignOnDoes
  <2>2. QED
    BY <1>1, <1>2, <2>1 DEF MaySignOn, Owned, Fresh, HasAccount, Ours, OrgOrGone
<1>3. CASE ~HasAccount(d, o.who)
  <2>1. SignOn(d, o).accounts = [d.accounts EXCEPT ![o.who] = [source |-> "org", email |-> o.email]]
    BY <1>3, SignOnDoes
  <2>2. QED
    BY <1>1, <2>1, FieldTypes DEF Ours, OrgOrGone
<1>4. QED
  BY <1>2, <1>3

LEMMA CommitKeeps ==
  ASSUME Inv, NEW s \in Sessions, Commit(s)
  PROVE  Inv'
<1> DEFINE n == Result(seen[s], req[s])
<1>1. /\ Landing(db, seen[s], n, req[s]) /\ WellFormed(req[s]) /\ Allowed(seen[s], req[s])
      /\ BindsItsOwn(seen[s]) /\ pc[s] = "open" /\ db' = Merged(db, seen[s], n)
      /\ seen[s] \in Tables
  BY CommitLands DEF Landing
<1>2. /\ signed' = signed /\ astray' = astray /\ budget' = budget
      /\ address' \in [Sessions -> Emails \cup {Nothing}]
      /\ IF req[s].kind = "signon"
           THEN pc'[s] = "mint" /\ req'[s] = req[s] /\ seen'[s] = NoTables
           ELSE pc'[s] = "idle" /\ req'[s] = NoRequest /\ seen'[s] = NoTables
      /\ \A t \in Sessions \ {s} : pc'[t] = pc[t] /\ req'[t] = req[t] /\ seen'[t] = seen[t]
      /\ pc' \in [Sessions -> {"idle", "called", "open", "mint"}]
      /\ req' \in [Sessions -> Requests \cup {NoRequest}] /\ seen' \in [Sessions -> Tables]
  BY NoTablesRead DEF Inv, TypeOK, Commit, Close
<1>3. req[s].kind = "signon" => req[s].who \in Users /\ Ours(n, req[s].who)
  BY <1>1, SignOnIsOurs
<1> HIDE DEF n
<1>4. db' \in Tables /\ RowsAreWhole(db')
  <2>1. req[s].kind = "mint" => req[s].token \notin db.live \cup db.revoked
    BY DEF Inv, FreshToken
  <2>2. QED
    BY <1>1, <2>1, MergedType, RowsStayWhole DEF Landing
<1>5. BindsItsOwn(db') /\ NamesOne(db')
  BY <1>1, BindingsStay, NamesStayOne DEF Inv, IdpReachesItsOwn, IdentitiesAreUnique
<1>6. TypeOK'
  BY <1>2, <1>4 DEF Inv, TypeOK
<1>7. ASSUME NEW u \in Users, Ours(db, u) \/ Ours(n, u) PROVE Ours(db', u)
  BY <1>1, <1>7, OursStays
<1>8. IdpReachesItsOwn' /\ IdentitiesAreUnique'
  BY <1>2, <1>5, <1>7, SignedOurs DEF IdpReachesItsOwn, IdentitiesAreUnique, Ours, OrgOrGone
<1>9. ASSUME NEW t \in Sessions \ {s} PROVE Serving(t)'
  <2>1. Serving(t)
    BY DEF Inv
  <2>2. Precedes(seen[t], db')
    BY <1>1, <2>1, PrecedesMerged DEF Serving
  <2>3. pc[t] = "mint" => Ours(db', req[t].who)
    <3>1. SUFFICES ASSUME pc[t] = "mint" PROVE Ours(db', req[t].who)
      OBVIOUS
    <3>2. req[t] \in Requests /\ req[t].kind = "signon" /\ Ours(db, req[t].who)
      BY <2>1, <3>1 DEF Serving
    <3>3. req[t].who \in Users
      BY <3>2, RequestsAssumption DEF WellFormed
    <3>4. QED
      BY <1>7, <3>2, <3>3
  <2>4. QED
    BY <1>2, <2>1, <2>2, <2>3 DEF Serving
<1>10. Serving(s)'
  <2>1. CASE req[s].kind = "signon"
    <3>1. req[s] \in Requests
      BY <1>1 DEF Inv, Serving
    <3>2. QED
      BY <1>2, <1>3, <1>7, <2>1, <3>1, NoTablesRead DEF Serving
  <2>2. CASE req[s].kind # "signon"
    BY <1>2, <2>2, Idle
  <2>3. QED
    BY <2>1, <2>2
<1>11. ASSUME NEW t \in Sessions PROVE FreshToken(t)'
  <2>1. SUFFICES ASSUME req'[t].kind = "mint"
                 PROVE  /\ req'[t].token \notin db'.live \cup db'.revoked
                        /\ \A i \in Sessions \ {t} : req'[i].kind = "mint"
                                                       => req'[i].token # req'[t].token
    BY DEF FreshToken
  <2>2. t # s /\ req'[t] = req[t]
    BY <1>2, <2>1, NoRequestKind
  <2>3. /\ req[t].token \notin db.live \cup db.revoked
        /\ \A i \in Sessions \ {t} : req[i].kind = "mint" => req[i].token # req[t].token
    BY <2>1, <2>2 DEF Inv, FreshToken
  <2>4. \A i \in Sessions : req'[i].kind = "mint" => req'[i] = req[i]
    BY <1>2, NoRequestKind
  <2>5. req[t].token \notin n.live \cup n.revoked \cup seen[s].live \cup seen[s].revoked
    BY <1>1, <2>2, <2>3 DEF Landing, TokensMove, Precedes
  <2>6. QED
    BY <1>1, <2>2, <2>3, <2>4, <2>5 DEF Merged, Patched
<1>12. QED
  BY <1>6, <1>8, <1>9, <1>10, <1>11 DEF Inv

LEMMA InvNext ==
  ASSUME Inv, [Next]_vars
  PROVE  Inv'
<1>1. CASE UNCHANGED vars
  <2>1. TypeOK' /\ db' = db /\ signed' = signed /\ astray' = astray
    BY <1>1 DEF vars, Inv, TypeOK
  <2>2. \A t \in Sessions : Serving(t)'
    BY <1>1, Untouched DEF vars, Inv
  <2>3. \A t \in Sessions : FreshToken(t)'
    BY <1>1, TokensUntouched DEF vars, Inv
  <2>4. QED
    BY <2>1, <2>2, <2>3, TablesAlone, SignedOurs
<1>2. ASSUME NEW s \in Sessions, NEW o \in Requests, Call(s, o)
      PROVE  Inv'
  BY <1>2, CallKeeps
<1>3. ASSUME NEW s \in Sessions, NEW o \in Requests, Begin(s, o)
      PROVE  Inv'
  <2>1. budget' \in Nat
    BY <1>3 DEF Begin, Inv, TypeOK
  <2>2. QED
    BY <1>3, <2>1, OpenKeeps DEF Begin
<1>4. ASSUME NEW s \in Sessions, Serve(s)
      PROVE  Inv'
  <2>1. /\ req[s] \in Requests /\ req[s].kind # "mint" /\ budget' \in Nat
        /\ Open(s, req[s])
    BY <1>4 DEF Inv, TypeOK, Serving, Serve, ScimKinds
  <2>2. QED
    BY <2>1, OpenKeeps
<1>5. ASSUME NEW s \in Sessions, Refuse(s)
      PROVE  Inv'
  BY <1>5, CloseKeeps, SignedOurs DEF Refuse
<1>6. ASSUME NEW s \in Sessions, Commit(s)
      PROVE  Inv'
  BY <1>6, CommitKeeps
<1>7. ASSUME NEW s \in Sessions, Rollback(s)
      PROVE  Inv'
  BY <1>7, CloseKeeps, SignedOurs DEF Rollback
<1>8. ASSUME NEW s \in Sessions, MintSession(s)
      PROVE  Inv'
  <2>1. req[s].who \in Users /\ Ours(db, req[s].who)
    BY <1>8, RequestsAssumption DEF MintSession, Inv, Serving, WellFormed
  <2>2. /\ signed' \subseteq Users /\ astray' \subseteq Users
        /\ \A u \in signed' \ astray' : Ours(db, u)
    <3> DEFINE who == req[s].who
               reached == IF address[s] = Nothing THEN {who} ELSE {u \in Users : Holds(u, address[s])}
               kept == address[s] = Nothing \/ Holds(who, address[s])
    <3>1. /\ signed' = signed \cup reached
          /\ astray' = IF kept THEN astray ELSE astray \cup reached
      BY <1>8 DEF MintSession
    <3>2. reached \subseteq Users
      BY <2>1
    <3>3. ASSUME kept PROVE reached \subseteq {who}
      BY <2>1, <3>3 DEF Holds, Inv, IdentitiesAreUnique, NamesOne
    <3> HIDE DEF who, reached, kept
    <3>4. Ours(db, who)
      BY <2>1 DEF who
    <3>5. QED
      BY <3>1, <3>2, <3>3, <3>4, SignedOurs
  <2>3. QED
    BY <1>8, <2>2, CloseKeeps DEF MintSession
<1>9. QED
  BY <1>1, <1>2, <1>3, <1>4, <1>5, <1>6, <1>7, <1>8 DEF Next

LEMMA Inductive == Spec => []Inv
BY Established, InvNext, PTL DEF Spec

(* Every row keeps its shape, a member that is gone leaves a blank row, an   *)
(* account in use has an e-mail, and no SCIM token is both live and revoked, *)
(* whatever overlaps (orgs/models.py, scim/models.py, auth/models.py).       *)
THEOREM DirectoryTypes == Spec => []TypeOK
BY Inductive, PTL DEF Inv

(* No binding of an organisation's IdP names an account the organisation did *)
(* not provision, and no session of it does unless the account that signed   *)
(* on lost its e-mail before the session was made (saml/service.py, "Who is  *)
(* this?", _mint_session).                                                   *)
THEOREM IdpStaysInside == Spec => []IdpReachesItsOwn
BY Inductive, PTL DEF Inv

(* One e-mail names one account and one external id one member, although     *)
(* the code looks first and inserts later (_check_user_name,                 *)
(* _check_external_id).                                                      *)
THEOREM IdentitiesStayUnique == Spec => []IdentitiesAreUnique
BY Inductive, PTL DEF Inv
------------------------------------------------------------------------------
(* The action properties: what a request decided on current rows does.       *)
LEMMA CurrentMembers ==
  ASSUME NEW now, NEW old, NEW n, NEW o, Landing(now, old, n, o), old.members = now.members
  PROVE  Merged(now, old, n).members = n.members
<1>1. ASSUME NEW x \in Member, NEW w \in Member PROVE MergedMember(x, x, w) = w
  BY <1>1 DEF MergedMember, Written, Member
<1>2. now.members \in [Users -> Member] /\ n.members \in [Users -> Member]
  BY FieldTypes DEF Landing
<1>3. ASSUME NEW u \in Users PROVE MergedMember(now.members[u], old.members[u], n.members[u]) = n.members[u]
  BY <1>1, <1>2
<1>4. Merged(now, old, n).members
        = [u \in Users |-> MergedMember(now.members[u], old.members[u], n.members[u])]
  BY DEF Merged
<1>5. QED
  BY <1>2, <1>3, <1>4

ChangesNothingOwned(d, n) ==
  /\ \A u \in Users : n.members[u].role \in {"member", "none", d.members[u].role}
  /\ n.settings.saml = d.settings.saml
  /\ n.live = d.live

LEMMA OwnersDecideOn ==
  ASSUME NEW d \in Tables, NEW o, WellFormed(o), Allowed(d, o), o.kind # "create"
  PROVE  \/ o.kind \in OrgKinds /\ o.by \in ActiveOwners(d)
         \/ ChangesNothingOwned(d, Result(d, o))
<1> DEFINE n == Result(d, o)
           Owner == o.kind \in OrgKinds /\ o.by \in ActiveOwners(d)
           Plain == ChangesNothingOwned(d, n)
<1> SUFFICES Owner \/ Plain
  OBVIOUS
<1>a. n = Result(d, o)
  OBVIOUS
<1>b. ASSUME n.members = d.members, n.settings = d.settings, n.live = d.live
      PROVE  Plain
  BY <1>b DEF ChangesNothingOwned
<1>c. ASSUME NEW u \in Users, NEW row \in Member, row.role \in {"member", "none", d.members[u].role},
             n.members = [d.members EXCEPT ![u] = row], n.settings = d.settings, n.live = d.live
      PROVE  Plain
  BY <1>c, FieldTypes DEF ChangesNothingOwned
<1>d. o.kind \in OrgKinds => o.by \in Users
  BY DEF WellFormed
<1> HIDE DEF n
<1>1. CASE o.kind = "add"
  <2>1. o.who \in Users /\ o.role \in Roles /\ MayAddMember(d, o) /\ n = AddMember(d, o)
    BY <1>1, <1>a, OperationOf DEF WellFormed
  <2>2. /\ n.members = [d.members EXCEPT ![o.who] = NewMember(o.role)]
        /\ n.settings = d.settings /\ n.live = d.live
    BY <1>1, <2>1, AddMemberDoes
  <2>3. NewMember(o.role) \in Member /\ NewMember(o.role).role = o.role
    BY <2>1, NewMemberType DEF NewMember
  <2>4. CASE o.role = "member"
    BY <1>c, <2>1, <2>2, <2>3, <2>4
  <2>5. CASE o.role # "member"
    BY <1>1, <1>d, <2>1, <2>5 DEF MayAddMember, Manages, CanDeal, ActiveOwners, OrgKinds
  <2>6. QED
    BY <2>4, <2>5
<1>2. CASE o.kind = "role"
  <2>1. o.who \in Users /\ o.role \in Roles /\ MaySetRole(d, o) /\ n = SetRole(d, o)
    BY <1>2, <1>a, OperationOf DEF WellFormed
  <2> DEFINE row == [d.members[o.who] EXCEPT !.role = o.role]
  <2>2. /\ n.members = [d.members EXCEPT ![o.who] = row]
        /\ n.settings = d.settings /\ n.live = d.live
    BY <1>2, <2>1, SetRoleDoes, FieldTypes
  <2>3. row \in Member /\ row.role = o.role
    BY <2>1, FieldTypes DEF Member
  <2> HIDE DEF row
  <2>4. CASE o.role = "member"
    BY <1>c, <2>1, <2>2, <2>3, <2>4
  <2>5. CASE o.role # "member"
    BY <1>2, <1>d, <2>1, <2>5 DEF MaySetRole, Manages, CanDeal, ActiveOwners, OrgKinds
  <2>6. QED
    BY <2>4, <2>5
<1>3. CASE o.kind \in {"remove", "deprovision"}
  <2>1. o.who \in Users /\ n = Removed(d, o.who)
    BY <1>3, <1>a, OperationOf DEF WellFormed, RemoveMember, ScimDelete
  <2>2. /\ n.members = [d.members EXCEPT ![o.who] = NoMember]
        /\ n.settings = d.settings /\ n.live = d.live
    BY <2>1, RemovedDoes
  <2>3. QED
    BY <1>c, <2>1, <2>2, NoMemberType
<1>4. CASE o.kind \in {"sso", "mint", "revoke"}
  <2>1. Owns(d, o.by)
    BY <1>4, OperationOf DEF MayPatchSso, MayMint, MayRevoke
  <2>2. QED
    BY <1>4, <1>d, <2>1 DEF Owns, ActiveOwners, OrgKinds
<1>5. CASE o.kind = "mfa"
  <2>1. n = PatchMfa(d, o)
    BY <1>5, <1>a, OperationOf
  <2>2. n.members = d.members /\ n.live = d.live /\ n.settings = [d.settings EXCEPT !.mfa = ~@]
    BY <2>1, PatchMfaDoes
  <2>3. n.settings.saml = d.settings.saml
    BY <2>2, FieldTypes DEF Settings
  <2>4. QED
    BY <2>2, <2>3 DEF ChangesNothingOwned
<1>6. CASE o.kind = "group"
  BY <1>6, <1>a, <1>b, OperationOf, CreateGroupDoes
<1>7. CASE o.kind \in {"ungroup", "drop"}
  <2>1. n = DeleteGroup(d, o)
    BY <1>7, <1>a, OperationOf DEF ScimDropGroup
  <2>2. QED
    BY <1>b, <2>1, DeleteGroupDoes
<1>8. CASE o.kind \in {"join", "addto"}
  <2>1. n = Join(d, o)
    BY <1>8, <1>a, OperationOf
  <2>2. QED
    BY <1>b, <1>8, <2>1, JoinDoes
<1>9. CASE o.kind \in {"part", "takefrom"}
  <2>1. n = Part(d, o)
    BY <1>9, <1>a, OperationOf
  <2>2. QED
    BY <1>b, <2>1, PartDoes
<1>10. CASE o.kind \in {"post", "put"}
  <2>1. n = ScimPut(d, o)
    BY <1>10, <1>a, OperationOf
  <2>2. QED
    BY <1>b, <2>1, ScimPutDoes
<1>11. CASE o.kind = "provision"
  <2>1. o.who \in Users /\ n = ScimCreate(d, o)
    BY <1>11, <1>a, OperationOf DEF WellFormed
  <2>2. /\ n.members = [d.members EXCEPT ![o.who] = ProvisionedRow(o)]
        /\ n.settings = d.settings /\ n.live = d.live
    BY <1>11, <2>1, ScimCreateDoes
  <2>3. ProvisionedRow(o) \in Member /\ ProvisionedRow(o).role = "member"
    BY <1>11 DEF ProvisionedRow, Member, Roles, WellFormed, Request
  <2>4. QED
    BY <1>c, <2>1, <2>2, <2>3
<1>12. CASE o.kind = "write"
  <2>1. o.who \in Users /\ n = ScimWrite(d, o)
    BY <1>12, <1>a, OperationOf DEF WellFormed
  <2>2. /\ n \in Tables
        /\ n.members = [d.members EXCEPT ![o.who] = WrittenRow(d, o)]
        /\ WrittenRow(d, o).role = d.members[o.who].role
        /\ n.settings = d.settings /\ n.live = d.live
    BY <1>12, <2>1, ScimWriteDoes
  <2>3. WrittenRow(d, o) \in Member
    BY <2>1, <2>2, FieldTypes
  <2>4. QED
    BY <1>c, <2>1, <2>2, <2>3
<1>13. CASE o.kind = "signon"
  <2>1. o.who \in Users /\ n = SignOn(d, o)
    BY <1>13, <1>a, OperationOf DEF WellFormed
  <2>2. /\ \/ n.members = d.members
           \/ n.members = [d.members EXCEPT ![o.who] = NewMember("member")]
        /\ n.settings = d.settings /\ n.live = d.live
    BY <1>13, <2>1, SignOnDoes
  <2>3. NewMember("member") \in Member /\ NewMember("member").role = "member"
    BY NewMemberType DEF NewMember, Roles
  <2>4. QED
    BY <1>b, <1>c, <2>1, <2>2, <2>3
<1>14. CASE o.kind = "erase"
  <2>1. o.who \in Users /\ n = Erase(d, o)
    BY <1>14, <1>a, OperationOf DEF WellFormed
  <2>2. /\ n.members = [d.members EXCEPT ![o.who] = NoMember]
        /\ n.settings = d.settings /\ n.live = d.live
    BY <1>14, <2>1, EraseDoes
  <2>3. QED
    BY <1>c, <2>1, <2>2, NoMemberType
<1>15. CASE o.kind = "register"
  <2>1. n = Register(d, o)
    BY <1>15, <1>a, OperationOf
  <2>2. QED
    BY <1>b, <1>15, <2>1, RegisterDoes
<1>16. QED
  BY KindsOf, <1>1, <1>2, <1>3, <1>4, <1>5, <1>6, <1>7, <1>8, <1>9, <1>10, <1>11, <1>12, <1>13,
     <1>14, <1>15

(* Owners and admins are made by owners, and only owners change the SSO      *)
(* configuration or the SCIM token (orgs/service.py, 29).                    *)
THEOREM OnlyOwnersDecide == Spec => OwnersDecide
<1>1. ASSUME Inv, NEW s \in Sessions, Lands(s), MembersCurrent(s), req[s].kind # "create"
      PROVE  \/ req[s].kind \in OrgKinds /\ req[s].by \in ActiveOwners(db)
             \/ /\ \A u \in Users : db'.members[u].role \in {"member", "none", db.members[u].role}
                /\ seen[s].settings = db.settings => db'.settings.saml = db.settings.saml
                /\ db'.live = db.live
  <2> DEFINE n == Result(seen[s], req[s])
  <2>1. /\ Landing(db, seen[s], n, req[s]) /\ WellFormed(req[s]) /\ Allowed(seen[s], req[s])
        /\ db' = Merged(db, seen[s], n) /\ seen[s] \in Tables
    BY <1>1, CommitLands DEF Lands, Landing
  <2>2. \/ req[s].kind \in OrgKinds /\ req[s].by \in ActiveOwners(seen[s])
        \/ ChangesNothingOwned(seen[s], n)
    BY <1>1, <2>1, OwnersDecideOn
  <2> HIDE DEF n
  <2>3. seen[s].members = db.members /\ db'.members = n.members
    BY <1>1, <2>1, CurrentMembers DEF MembersCurrent
  <2>4. ActiveOwners(seen[s]) = ActiveOwners(db)
    BY <2>3 DEF ActiveOwners, IsActive, IsMember
  <2>5. ASSUME ChangesNothingOwned(seen[s], n)
        PROVE  /\ \A u \in Users : db'.members[u].role \in {"member", "none", db.members[u].role}
               /\ seen[s].settings = db.settings => db'.settings.saml = db.settings.saml
               /\ db'.live = db.live
    <3>1. db'.settings = Written(db.settings, seen[s].settings, n.settings)
      BY <2>1 DEF Merged
    <3>2. db'.live = Patched(db.live, seen[s].live, n.live)
      BY <2>1 DEF Merged
    <3>3. QED
      BY <2>3, <2>5, <3>1, <3>2 DEF ChangesNothingOwned, Written, Patched
  <2>6. QED
    BY <2>2, <2>4, <2>5
<1>2. Inv /\ [Next]_vars =>
        [\A s \in Sessions :
           Lands(s) /\ MembersCurrent(s) /\ req[s].kind # "create"
             => \/ req[s].kind \in OrgKinds /\ req[s].by \in ActiveOwners(db)
                \/ /\ \A u \in Users : db'.members[u].role \in {"member", "none", db.members[u].role}
                   /\ seen[s].settings = db.settings => db'.settings.saml = db.settings.saml
                   /\ db'.live = db.live]_vars
  BY <1>1
<1>3. QED
  BY <1>2, Inductive, PTL DEF Spec, OwnersDecide

(* Minting a token leaves it the only live one, unless another mint          *)
(* overlaps (scim/models.py, 21).                                            *)
THEOREM OneTokenLives == Spec => OneLiveToken
<1>1. ASSUME Inv, NEW s \in Sessions, Lands(s), seen[s].live = db.live, Cardinality(db.live) <= 1
      PROVE  Cardinality(db'.live) <= 1
  <2> DEFINE n == Result(seen[s], req[s])
  <2>1. TokensMove(seen[s], n, req[s]) /\ db' = Merged(db, seen[s], n)
    BY <1>1, CommitLands DEF Lands, Landing
  <2> HIDE DEF n
  <2>2. db'.live = Patched(db.live, seen[s].live, n.live)
    BY <2>1 DEF Merged
  <2>3. db'.live = n.live
    BY <1>1, <2>2 DEF Patched
  <2>4. CASE n.live = seen[s].live
    BY <1>1, <2>3, <2>4
  <2>5. CASE n.live = {}
    BY <2>3, <2>5, FS_EmptySet
  <2>6. CASE n.live = {req[s].token}
    <3>1. Cardinality({req[s].token}) = 1
      BY FS_Singleton
    <3>2. QED
      BY <2>3, <2>6, <3>1
  <2>7. QED
    BY <2>1, <2>4, <2>5, <2>6 DEF TokensMove
<1>2. Inv /\ [Next]_vars =>
        [\A s \in Sessions :
           Lands(s) /\ seen[s].live = db.live /\ Cardinality(db.live) <= 1
             => Cardinality(db'.live) <= 1]_vars
  BY <1>1
<1>3. QED
  BY <1>2, Inductive, PTL DEF Spec, OneLiveToken

(* More than one owner is another owner.                                     *)
LEMMA AnotherOwner ==
  ASSUME NEW d, NEW u, Cardinality(ActiveOwners(d)) > 1
  PROVE  \E w \in ActiveOwners(d) : w # u
<1> SUFFICES ASSUME \A w \in ActiveOwners(d) : w = u
             PROVE  FALSE
  OBVIOUS
<1>1. ActiveOwners(d) = {} \/ ActiveOwners(d) = {u}
  OBVIOUS
<1>2. Cardinality({}) = 0 /\ Cardinality({u}) = 1
  BY FS_EmptySet, FS_Singleton
<1>3. QED
  BY <1>1, <1>2

LEMMA OwnersStayOn ==
  ASSUME NEW d \in Tables, NEW o, WellFormed(o), Allowed(d, o), o.kind \in OrgKinds,
         ActiveOwners(d) # {}
  PROVE  ActiveOwners(Result(d, o)) # {}
<1> DEFINE n == Result(d, o)
<1> SUFFICES ActiveOwners(n) # {}
  OBVIOUS
<1>a. n = Result(d, o)
  OBVIOUS
<1>b. n.members = d.members => ActiveOwners(n) # {}
  BY DEF ActiveOwners, IsActive, IsMember
<1>c. ASSUME NEW u \in Users, NEW row, n.members = [d.members EXCEPT ![u] = row],
             \E w \in ActiveOwners(d) : w # u
      PROVE  ActiveOwners(n) # {}
  <2>1. PICK w \in ActiveOwners(d) : w # u
    BY <1>c
  <2>2. w \in Users /\ n.members[w] = d.members[w]
    BY <1>c, <2>1, FieldTypes DEF ActiveOwners
  <2>3. w \in ActiveOwners(n)
    BY <2>1, <2>2 DEF ActiveOwners, IsActive, IsMember
  <2>4. QED
    BY <2>3
<1>d. ASSUME NEW u, ~(\E w \in ActiveOwners(d) : w # u)
      PROVE  u \in ActiveOwners(d)
  BY <1>d
<1> HIDE DEF n
<1>1. CASE o.kind = "create"
  <2>1. o.by \in Users /\ n = CreateOrg(d, o)
    BY <1>1, <1>a, OperationOf DEF WellFormed, OrgKinds
  <2>2. n.members = [d.members EXCEPT ![o.by] = NewMember("owner")]
    BY <1>1, <2>1, CreateOrgDoes
  <2>3. n.members[o.by] = NewMember("owner")
    BY <2>1, <2>2, FieldTypes
  <2>4. o.by \in ActiveOwners(n)
    BY <2>1, <2>3 DEF ActiveOwners, IsActive, IsMember, NewMember
  <2>5. QED
    BY <2>4
<1>2. CASE o.kind = "add"
  <2>1. o.who \in Users /\ MayAddMember(d, o) /\ n = AddMember(d, o)
    BY <1>2, <1>a, OperationOf DEF WellFormed
  <2>2. n.members = [d.members EXCEPT ![o.who] = NewMember(o.role)]
    BY <1>2, <2>1, AddMemberDoes
  <2>3. o.who \notin ActiveOwners(d)
    BY <2>1 DEF MayAddMember, ActiveOwners, IsActive
  <2>4. QED
    BY <1>c, <1>d, <2>1, <2>2, <2>3
<1>3. CASE o.kind = "role"
  <2>1. o.who \in Users /\ o.role \in Roles /\ MaySetRole(d, o) /\ n = SetRole(d, o)
    BY <1>3, <1>a, OperationOf DEF WellFormed
  <2> DEFINE row == [d.members[o.who] EXCEPT !.role = o.role]
  <2>2. n.members = [d.members EXCEPT ![o.who] = row]
    BY <1>3, <2>1, SetRoleDoes, FieldTypes
  <2>3. row.role = o.role /\ row.active = d.members[o.who].active
    BY <2>1, FieldTypes DEF Member
  <2> HIDE DEF row
  <2>4. CASE o.role = "owner" /\ o.who \in ActiveOwners(d)
    <3>1. n.members[o.who] = row
      BY <2>1, <2>2, FieldTypes
    <3>2. o.who \in ActiveOwners(n)
      BY <2>1, <2>3, <2>4, <3>1 DEF ActiveOwners, IsActive, IsMember
    <3>3. QED
      BY <3>2
  <2>5. CASE o.role # "owner" /\ o.who \in ActiveOwners(d)
    <3>1. Cardinality(ActiveOwners(d)) > 1
      BY <2>1, <2>5 DEF MaySetRole, KeepsOwner, ActiveOwners
    <3>2. QED
      BY <1>c, <2>1, <2>2, <3>1, AnotherOwner
  <2>6. CASE o.who \notin ActiveOwners(d)
    BY <1>c, <1>d, <2>1, <2>2, <2>6
  <2>7. QED
    BY <2>4, <2>5, <2>6
<1>4. CASE o.kind = "remove"
  <2>1. o.who \in Users /\ MayRemove(d, o) /\ n = Removed(d, o.who)
    BY <1>4, <1>a, OperationOf DEF WellFormed, RemoveMember
  <2>2. n.members = [d.members EXCEPT ![o.who] = NoMember]
    BY <2>1, RemovedDoes
  <2>3. CASE o.who \in ActiveOwners(d)
    <3>1. Cardinality(ActiveOwners(d)) > 1
      BY <2>1, <2>3 DEF MayRemove, KeepsOwner, ActiveOwners
    <3>2. QED
      BY <1>c, <2>1, <2>2, <3>1, AnotherOwner
  <2>4. CASE o.who \notin ActiveOwners(d)
    BY <1>c, <1>d, <2>1, <2>2, <2>4
  <2>5. QED
    BY <2>3, <2>4
<1>5. CASE o.kind \in {"sso", "mfa", "group", "ungroup", "join", "part", "mint", "revoke"}
  <2>1. n.members = d.members
    <3>1. CASE o.kind = "sso"
      <4>1. n = PatchSso(d, o)
        BY <1>a, <3>1, OperationOf
      <4>2. QED
        BY <4>1, PatchSsoDoes
    <3>2. CASE o.kind = "mfa"
      <4>1. n = PatchMfa(d, o)
        BY <1>a, <3>2, OperationOf
      <4>2. QED
        BY <4>1, PatchMfaDoes
    <3>3. CASE o.kind = "group"
      BY <1>a, <3>3, OperationOf, CreateGroupDoes
    <3>4. CASE o.kind = "ungroup"
      BY <1>a, <3>4, OperationOf, DeleteGroupDoes
    <3>5. CASE o.kind = "join"
      BY <1>a, <3>5, OperationOf, JoinDoes
    <3>6. CASE o.kind = "part"
      <4>1. n = Part(d, o)
        BY <1>a, <3>6, OperationOf
      <4>2. QED
        BY <4>1, PartDoes
    <3>7. CASE o.kind = "mint"
      BY <1>a, <3>7, OperationOf, MintDoes
    <3>8. CASE o.kind = "revoke"
      BY <1>a, <3>8, OperationOf, RevokeDoes
    <3>9. QED
      BY <1>5, <3>1, <3>2, <3>3, <3>4, <3>5, <3>6, <3>7, <3>8
  <2>2. QED
    BY <1>b, <2>1
<1>6. QED
  BY <1>1, <1>2, <1>3, <1>4, <1>5 DEF OrgKinds

(* The last owner stays, as long as nobody changed a membership between the  *)
(* count of the owners and the commit (orgs/service.py, 33).                 *)
THEOREM LastOwnerStays == Spec => OwnersStay
<1>1. ASSUME Inv, NEW s \in Sessions, Lands(s), req[s].kind \in OrgKinds, MembersCurrent(s),
             ActiveOwners(db) # {}
      PROVE  ActiveOwners(db') # {}
  <2> DEFINE n == Result(seen[s], req[s])
  <2>1. /\ Landing(db, seen[s], n, req[s]) /\ WellFormed(req[s]) /\ Allowed(seen[s], req[s])
        /\ db' = Merged(db, seen[s], n) /\ seen[s] \in Tables
    BY <1>1, CommitLands DEF Lands, Landing
  <2>2. seen[s].members = db.members
    BY <1>1 DEF MembersCurrent
  <2>3. ActiveOwners(seen[s]) # {}
    BY <1>1, <2>2 DEF ActiveOwners, IsActive, IsMember
  <2>4. ActiveOwners(n) # {}
    BY <1>1, <2>1, <2>3, OwnersStayOn
  <2> HIDE DEF n
  <2>5. db'.members = n.members
    BY <2>1, <2>2, CurrentMembers
  <2>6. QED
    BY <2>4, <2>5 DEF ActiveOwners, IsActive, IsMember
<1>2. Inv /\ [Next]_vars =>
        [\A s \in Sessions :
           Lands(s) /\ req[s].kind \in OrgKinds /\ MembersCurrent(s) /\ ActiveOwners(db) # {}
             => ActiveOwners(db') # {}]_vars
  BY <1>1
<1>3. QED
  BY <1>2, Inductive, PTL DEF Spec, OwnersStay

(* Who joins a group in a request is a member after it, and who leaves the   *)
(* organisation leaves its groups.                                           *)
JoinedMove(d, n) ==
  /\ \A j \in n.joined \ d.joined : j[1] \in n.groups /\ IsMember(n, j[2])
  /\ \A j \in n.joined \cap d.joined : IsMember(d, j[2]) => IsMember(n, j[2])

LEMMA JoinedMoves ==
  ASSUME NEW d \in Tables, NEW o, WellFormed(o), Allowed(d, o)
  PROVE  JoinedMove(d, Result(d, o))
<1> DEFINE n == Result(d, o)
<1> SUFFICES JoinedMove(d, n)
  OBVIOUS
<1>a. n = Result(d, o)
  OBVIOUS
<1>b. ASSUME n.joined \subseteq d.joined, n.members = d.members
      PROVE  JoinedMove(d, n)
  BY <1>b DEF JoinedMove, IsMember
<1>c. ASSUME n.joined \subseteq d.joined, NEW u \in Users, NEW row \in Member, row.role # "none",
             n.members = [d.members EXCEPT ![u] = row]
      PROVE  JoinedMove(d, n)
  <2>1. \A v \in Users : IsMember(d, v) => IsMember(n, v)
    BY <1>c, FieldTypes DEF IsMember
  <2>2. \A j \in d.joined : j[2] \in Users
    BY FieldTypes
  <2>3. QED
    BY <1>c, <2>1, <2>2 DEF JoinedMove
<1>d. ASSUME NEW u \in Users, n.joined = {j \in d.joined : j[2] # u},
             n.members = [d.members EXCEPT ![u] = NoMember]
      PROVE  JoinedMove(d, n)
  <2>1. \A v \in Users \ {u} : IsMember(d, v) => IsMember(n, v)
    BY <1>d, FieldTypes DEF IsMember
  <2>2. \A j \in d.joined : j[2] \in Users
    BY FieldTypes
  <2>3. QED
    BY <1>d, <2>1, <2>2 DEF JoinedMove
<1> HIDE DEF n
<1>1. CASE o.kind = "create"
  <2>1. o.by \in Users /\ n = CreateOrg(d, o)
    BY <1>1, <1>a, OperationOf DEF WellFormed, OrgKinds
  <2>2. n.joined = d.joined /\ n.members = [d.members EXCEPT ![o.by] = NewMember("owner")]
    BY <1>1, <2>1, CreateOrgDoes
  <2>3. QED
    BY <1>c, <2>1, <2>2, NewMemberType DEF Roles
<1>2. CASE o.kind = "add"
  <2>1. o.who \in Users /\ o.role \in Roles /\ n = AddMember(d, o)
    BY <1>2, <1>a, OperationOf DEF WellFormed
  <2>2. n.joined = d.joined /\ n.members = [d.members EXCEPT ![o.who] = NewMember(o.role)]
    BY <1>2, <2>1, AddMemberDoes
  <2>3. QED
    BY <1>c, <2>1, <2>2, NewMemberType
<1>3. CASE o.kind = "role"
  <2>1. o.who \in Users /\ o.role \in Roles /\ n = SetRole(d, o)
    BY <1>3, <1>a, OperationOf DEF WellFormed
  <2> DEFINE row == [d.members[o.who] EXCEPT !.role = o.role]
  <2>2. n.joined = d.joined /\ n.members = [d.members EXCEPT ![o.who] = row]
    BY <1>3, <2>1, SetRoleDoes, FieldTypes
  <2>3. row \in Member /\ row.role # "none"
    BY <2>1, FieldTypes DEF Member, Roles
  <2> HIDE DEF row
  <2>4. QED
    BY <1>c, <2>1, <2>2, <2>3
<1>4. CASE o.kind \in {"remove", "deprovision"}
  <2>1. o.who \in Users /\ n = Removed(d, o.who)
    BY <1>4, <1>a, OperationOf DEF WellFormed, RemoveMember, ScimDelete
  <2>2. /\ n.members = [d.members EXCEPT ![o.who] = NoMember]
        /\ n.joined = {j \in d.joined : j[2] # o.who}
    BY <2>1, RemovedDoes
  <2>3. QED
    BY <1>d, <2>1, <2>2
<1>5. CASE o.kind \in {"sso", "mfa", "group", "mint", "revoke", "register"}
  <2>1. n.members = d.members /\ n.joined = d.joined
    <3>1. CASE o.kind = "sso"
      <4>1. n = PatchSso(d, o)
        BY <1>a, <3>1, OperationOf
      <4>2. QED
        BY <4>1, PatchSsoDoes
    <3>2. CASE o.kind = "mfa"
      <4>1. n = PatchMfa(d, o)
        BY <1>a, <3>2, OperationOf
      <4>2. QED
        BY <4>1, PatchMfaDoes
    <3>3. CASE o.kind = "group"
      BY <1>a, <3>3, OperationOf, CreateGroupDoes
    <3>4. CASE o.kind = "mint"
      BY <1>a, <3>4, OperationOf, MintDoes
    <3>5. CASE o.kind = "revoke"
      BY <1>a, <3>5, OperationOf, RevokeDoes
    <3>6. CASE o.kind = "register"
      <4>1. n = Register(d, o)
        BY <1>a, <3>6, OperationOf
      <4>2. QED
        BY <3>6, <4>1, RegisterDoes
    <3>7. QED
      BY <1>5, <3>1, <3>2, <3>3, <3>4, <3>5, <3>6
  <2>2. QED
    BY <1>b, <2>1
<1>6. CASE o.kind \in {"ungroup", "drop"}
  <2>1. n = DeleteGroup(d, o)
    BY <1>6, <1>a, OperationOf DEF ScimDropGroup
  <2>2. n.members = d.members /\ n.joined = {j \in d.joined : j[1] \notin o.groups}
    BY <2>1, DeleteGroupDoes
  <2>3. QED
    BY <1>b, <2>2
<1>7. CASE o.kind \in {"part", "takefrom"}
  <2>1. n = Part(d, o)
    BY <1>7, <1>a, OperationOf
  <2>2. n.members = d.members /\ n.joined = d.joined \ (o.groups \X {o.who})
    BY <2>1, PartDoes
  <2>3. QED
    BY <1>b, <2>2
<1>8. CASE o.kind \in {"join", "addto"}
  <2>1. n = Join(d, o) /\ o.groups \subseteq d.groups /\ IsMember(d, o.who)
    BY <1>8, <1>a, OperationOf DEF MayJoin, MayScimAdd, Joins, IsActive
  <2>2. /\ n.members = d.members /\ n.groups = d.groups
        /\ n.joined = d.joined \cup (o.groups \X {o.who})
    BY <1>8, <2>1, JoinDoes
  <2>3. QED
    BY <2>1, <2>2 DEF JoinedMove, IsMember
<1>9. CASE o.kind \in {"post", "put"}
  <2>1. n = ScimPut(d, o) /\ (o.who # Nothing => IsMember(d, o.who))
    BY <1>9, <1>a, OperationOf DEF MayScimPost, MayScimPut, Joins, IsActive
  <2>2. /\ n.members = d.members /\ n.groups = d.groups \cup o.groups
        /\ n.joined = {j \in d.joined : j[1] \notin o.groups} \cup (o.groups \X Given(o.who))
    BY <2>1, ScimPutDoes
  <2>3. QED
    BY <2>1, <2>2 DEF JoinedMove, IsMember, Given
<1>10. CASE o.kind = "provision"
  <2>1. o.who \in Users /\ n = ScimCreate(d, o)
    BY <1>10, <1>a, OperationOf DEF WellFormed
  <2>2. n.members = [d.members EXCEPT ![o.who] = ProvisionedRow(o)] /\ n.joined = d.joined
    BY <1>10, <2>1, ScimCreateDoes
  <2>3. ProvisionedRow(o) \in Member /\ ProvisionedRow(o).role # "none"
    BY <1>10 DEF ProvisionedRow, Member, Roles, WellFormed, Request
  <2>4. QED
    BY <1>c, <2>1, <2>2, <2>3
<1>11. CASE o.kind = "write"
  <2>1. o.who \in Users /\ n = ScimWrite(d, o) /\ d.members[o.who].role # "none"
    BY <1>11, <1>a, OperationOf DEF WellFormed, MayScimWrite, IsMember
  <2>2. /\ n \in Tables
        /\ n.members = [d.members EXCEPT ![o.who] = WrittenRow(d, o)]
        /\ WrittenRow(d, o).role = d.members[o.who].role
        /\ n.joined = d.joined
    BY <1>11, <2>1, ScimWriteDoes
  <2>3. WrittenRow(d, o) \in Member
    BY <2>1, <2>2, FieldTypes
  <2>4. QED
    BY <1>c, <2>1, <2>2, <2>3
<1>12. CASE o.kind = "signon"
  <2>1. o.who \in Users /\ n = SignOn(d, o) /\ MaySignOn(d, o)
    BY <1>12, <1>a, OperationOf DEF WellFormed
  <2>2. /\ n.groups = d.groups \cup o.groups
        /\ n.joined = {j \in d.joined : j[2] # o.who} \cup (o.groups \X {o.who})
        /\ n.members = IF HasAccount(d, o.who) THEN d.members
                       ELSE [d.members EXCEPT ![o.who] = NewMember("member")]
    BY <1>12, <2>1, SignOnDoes
  <2>3. IsMember(n, o.who)
    <3>1. CASE HasAccount(d, o.who)
      BY <2>1, <2>2, <3>1 DEF MaySignOn, Fresh, HasAccount, IsActive, IsMember
    <3>2. CASE ~HasAccount(d, o.who)
      BY <2>1, <2>2, <3>2, FieldTypes DEF IsMember, NewMember
    <3>3. QED
      BY <3>1, <3>2
  <2>4. \A v \in Users \ {o.who} : IsMember(d, v) => IsMember(n, v)
    <3>1. CASE HasAccount(d, o.who)
      BY <2>2, <3>1 DEF IsMember
    <3>2. CASE ~HasAccount(d, o.who)
      BY <2>1, <2>2, <3>2, FieldTypes DEF IsMember
    <3>3. QED
      BY <3>1, <3>2
  <2>5. \A j \in d.joined : j[2] \in Users
    BY FieldTypes
  <2>6. QED
    BY <2>2, <2>3, <2>4, <2>5 DEF JoinedMove
<1>13. CASE o.kind = "erase"
  <2>1. o.who \in Users /\ n = Erase(d, o)
    BY <1>13, <1>a, OperationOf DEF WellFormed
  <2>2. /\ n.members = [d.members EXCEPT ![o.who] = NoMember]
        /\ n.joined = {j \in d.joined : j[2] # o.who}
    BY <1>13, <2>1, EraseDoes
  <2>3. QED
    BY <1>d, <2>1, <2>2
<1>14. QED
  BY KindsOf, <1>1, <1>2, <1>3, <1>4, <1>5, <1>6, <1>7, <1>8, <1>9, <1>10, <1>11, <1>12, <1>13

(* Groups hold members of the organisation only, unless a removal overlaps   *)
(* with what puts the member into a group.                                   *)
THEOREM GroupsHoldMembersOnly == Spec => GroupsStayInside
<1>1. ASSUME Inv, NEW s \in Sessions, Lands(s), MembersCurrent(s), seen[s].joined = db.joined,
             GroupsHoldMembers(db)
      PROVE  GroupsHoldMembers(db')
  <2> DEFINE n == Result(seen[s], req[s])
             old == seen[s]
  <2>1. /\ Landing(db, old, n, req[s]) /\ WellFormed(req[s]) /\ Allowed(old, req[s])
        /\ db' = Merged(db, old, n) /\ old \in Tables
    BY <1>1, CommitLands DEF Lands, Landing
  <2>2. JoinedMove(old, n)
    BY <2>1, JoinedMoves
  <2> HIDE DEF n, old
  <2>3. old.members = db.members /\ old.joined = db.joined
    BY <1>1 DEF MembersCurrent, old
  <2>4. db'.members = n.members
    BY <2>1, <2>3, CurrentMembers
  <2>5. /\ db'.groups = (db.groups \ (old.groups \ n.groups)) \cup (n.groups \ old.groups)
        /\ db'.joined = {j \in (db.joined \ (old.joined \ n.joined)) \cup (n.joined \ old.joined) :
                           j[1] \notin old.groups \ n.groups}
    BY <2>1 DEF Merged, Patched
  <2>6. /\ old.groups \subseteq db.groups \cup db.dropped
        /\ \A j \in n.joined \ old.joined : j[1] \notin db.dropped
    BY <2>1 DEF Landing, Precedes, Clashes, RowClash
  <2> SUFFICES ASSUME NEW j \in db'.joined
               PROVE  j[1] \in db'.groups /\ IsMember(db', j[2])
    BY DEF GroupsHoldMembers
  <2>7. j \in n.joined /\ j[1] \notin old.groups \ n.groups
    BY <2>3, <2>5
  <2>8. CASE j \in old.joined
    <3>1. j[1] \in db.groups /\ IsMember(old, j[2])
      BY <1>1, <2>3, <2>8 DEF GroupsHoldMembers, IsMember
    <3>2. IsMember(n, j[2])
      BY <2>2, <2>7, <2>8, <3>1 DEF JoinedMove
    <3>3. QED
      BY <2>4, <2>5, <2>7, <3>1, <3>2 DEF IsMember
  <2>9. CASE j \notin old.joined
    <3>1. j[1] \in n.groups /\ IsMember(n, j[2]) /\ j[1] \notin db.dropped
      BY <2>2, <2>6, <2>7, <2>9 DEF JoinedMove
    <3>2. QED
      BY <2>4, <2>5, <2>6, <3>1 DEF IsMember
  <2>10. QED
    BY <2>8, <2>9
<1>2. Inv /\ [Next]_vars =>
        [\A s \in Sessions :
           Lands(s) /\ MembersCurrent(s) /\ seen[s].joined = db.joined /\ GroupsHoldMembers(db)
             => GroupsHoldMembers(db')]_vars
  BY <1>1
<1>3. QED
  BY <1>2, Inductive, PTL DEF Spec, GroupsStayInside
==============================================================================
