--------------------------- MODULE Accounts_proofs ---------------------------
(***************************************************************************)
(* For any number of users, browsers, invites, wallets and challenges:     *)
(* identities and wallets are never shared, and an external wallet is      *)
(* bound only by a proof.                                                  *)
(*                                                                         *)
(* AccountsExclusive is not inductive: what a handler still holds of a     *)
(* request when it comes back from an await must still be true of the rows *)
(* it read.  InHand says so, and the conjunction is inductive.             *)
(***************************************************************************)
EXTENDS Accounts, TLAPS

AnyName == Names \cup {NoName} \cup {Login[s] : s \in Subjects} \cup {Fallback[s] : s \in Subjects}
Account ==
    [status : {"absent", "active", "disabled"}, name : AnyName,
     subject : Subjects \cup {NoSubject}, invite : Invites \cup {NoInvite}]
Request ==
    [session : Users \cup {NoUser}, pc : {"idle", "create", "insert", "issue", "bind", "reject"},
     user : Users \cup {NoUser}, name : AnyName, subject : Subjects \cup {NoSubject},
     invite : Invites \cup {NoInvite}, challenge : {0} \cup Challenges]
ChallengeRow ==
    [status : {"absent", "open", "expired", "failed", "verified"},
     user : Users \cup {NoUser}, address : Addresses \cup {NoAddress}]

AccountsTypeOK ==
    /\ user \in [Users -> Account]
    /\ invite \in [Invites -> Users \cup {"open", "expired"}]
    /\ browser \in [Browsers -> Request]
    /\ platform \in [Users -> Inventory \cup {NoWallet}]
    /\ available \in SUBSET Inventory
    /\ challenge \in [Challenges -> ChallengeRow]
    /\ external \in [Users -> Addresses \cup {NoAddress}]

\* What the handler of a request relies on after an await.
InHand(r) ==
    /\ r.pc = "create" => r.subject = NoSubject
    /\ r.pc = "insert" => r.subject \in Subjects
    /\ r.pc = "issue" => /\ r.user \in Known
                         /\ user[r.user].subject = r.subject
                         /\ r.subject = NoSubject => user[r.user].name = r.name
    /\ r.pc \in {"bind", "reject"} => /\ r.challenge \in Challenges
                                      /\ r.user \in Users
                                      /\ challenge[r.challenge].user = r.user
                                      /\ challenge[r.challenge].status # "absent"
                                      /\ challenge[r.challenge].address \in Addresses

\* A challenge that was handed out names a user and an address.
ChallengesNamed ==
    \A k \in Challenges : challenge[k].status # "absent" =>
        challenge[k].user \in Users /\ challenge[k].address \in Addresses

CameBy == \A u \in Known : user[u].invite # NoInvite => invite[user[u].invite] = u
Distinct ==
    \A u, v \in Known :
        u # v => /\ user[u].name # user[v].name
                 /\ user[u].subject = user[v].subject => user[u].subject = NoSubject
WalletsApart ==
    /\ \A u, v \in Users : u # v /\ platform[u] = platform[v] => platform[u] = NoWallet
    /\ available = Inventory \ {platform[u] : u \in Users}
AddressesApart == \A u, v \in Users : u # v /\ external[u] = external[v] => external[u] = NoAddress

AccountsInv ==
    /\ AccountsTypeOK
    /\ \A b \in Browsers : InHand(browser[b])
    /\ ChallengesNamed
    /\ CameBy
    /\ Distinct
    /\ WalletsApart
    /\ AddressesApart

\* No step forgets a user, renames one, or gives a challenge to another.
RowsKept ==
    /\ \A u \in Known : /\ user'[u].status # "absent"
                        /\ user'[u].name = user[u].name
                        /\ user'[u].subject = user[u].subject
    /\ \A k \in Challenges : challenge[k].status # "absent" =>
          /\ challenge'[k].status # "absent"
          /\ challenge'[k].user = challenge[k].user
          /\ challenge'[k].address = challenge[k].address

-----------------------------------------------------------------------------

\* The record a handler leaves behind has the type of a request.
LEMMA HoldingTyped ==
    ASSUME NEW session \in Users \cup {NoUser},
           NEW pc \in {"idle", "create", "insert", "issue", "bind", "reject"},
           NEW u \in Users \cup {NoUser}, NEW n \in AnyName,
           NEW s \in Subjects \cup {NoSubject}, NEW i \in Invites \cup {NoInvite},
           NEW k \in {0} \cup Challenges
    PROVE  Holding(session, pc, u, n, s, i, k) \in Request
BY Zenon DEF Holding, Request

\* So does a browser whose request has ended.
LEMMA QuietTyped ==
    ASSUME NEW session \in Users \cup {NoUser}
    PROVE  Quiet(session) \in Request
BY HoldingTyped, Zenon DEF Quiet, AnyName

\* What the fields of a record built by Holding are.
LEMMA HoldingFields ==
    ASSUME NEW session, NEW pc, NEW u, NEW n, NEW s, NEW i, NEW k
    PROVE  LET r == Holding(session, pc, u, n, s, i, k) IN
           /\ r.session = session /\ r.pc = pc /\ r.user = u /\ r.name = n
           /\ r.subject = s /\ r.invite = i /\ r.challenge = k
BY Zenon DEF Holding

\* Every field of a request in flight has its type.
LEMMA RequestFields ==
    ASSUME AccountsTypeOK, NEW b \in Browsers
    PROVE  /\ browser[b].session \in Users \cup {NoUser}
           /\ browser[b].user \in Users \cup {NoUser}
           /\ browser[b].name \in AnyName
           /\ browser[b].subject \in Subjects \cup {NoSubject}
           /\ browser[b].invite \in Invites \cup {NoInvite}
           /\ browser[b].challenge \in {0} \cup Challenges
BY Zenon DEF AccountsTypeOK, Request

\* Login and fallback names are names a user can have.
LEMMA OAuthNames ==
    ASSUME NEW s \in Subjects
    PROVE  Login[s] \in AnyName /\ Fallback[s] \in AnyName /\ NoName \in AnyName
BY Zenon DEF AnyName

\* The initial state: nobody is registered and nothing is in flight.
LEMMA InitInv == AccountsInit => AccountsInv
<1> SUFFICES ASSUME AccountsInit PROVE AccountsInv
  BY Zenon
<1> USE AccountsAssumption
<1>1. AccountsTypeOK
  <2>1. NoAccount \in Account /\ NoChallenge \in ChallengeRow
    BY Zenon DEF NoAccount, Account, NoChallenge, ChallengeRow, AnyName
  <2>2. Quiet(NoUser) \in Request
    BY QuietTyped, Zenon
  <2> QED
    BY <2>1, <2>2, Zenon DEF AccountsInit, AccountsTypeOK
<1>2. \A b \in Browsers : InHand(browser[b])
  BY HoldingFields DEF AccountsInit, Quiet, InHand
<1>3. ChallengesNamed
  BY Zenon DEF AccountsInit, ChallengesNamed, NoChallenge
<1>4. Known = {}
  BY Zenon DEF AccountsInit, Known, NoAccount
<1>5. WalletsApart /\ AddressesApart
  BY Zenon DEF AccountsInit, WalletsApart, AddressesApart
<1> QED
  BY <1>1, <1>2, <1>3, <1>4, <1>5, Zenon DEF AccountsInv, CameBy, Distinct

\* A request of another browser is not disturbed.
LEMMA OthersInHand ==
    ASSUME AccountsTypeOK, RowsKept, NEW c \in Browsers, InHand(browser[c]),
           user' \in [Users -> Account], browser'[c] = browser[c]
    PROVE  InHand(browser[c])'
<1>1. browser[c].pc = "issue" =>
          /\ browser[c].user \in Known'
          /\ user'[browser[c].user].subject = browser[c].subject
          /\ browser[c].subject = NoSubject => user'[browser[c].user].name = browser[c].name
  BY Zenon DEF InHand, RowsKept, Known
<1>2. browser[c].pc \in {"bind", "reject"} =>
          /\ challenge'[browser[c].challenge].user = browser[c].user
          /\ challenge'[browser[c].challenge].status # "absent"
          /\ challenge'[browser[c].challenge].address \in Addresses
  BY Zenon DEF InHand, RowsKept
<1> QED
  BY <1>1, <1>2, Zenon DEF InHand, Challenges

\* A handler that only changes what its browser holds keeps the invariant,
\* when what the browser holds afterwards is true of the rows.
LEMMA BrowserOnly ==
    ASSUME AccountsInv, NEW b \in Browsers, NEW r \in Request,
           browser' = [browser EXCEPT ![b] = r], InHand(r),
           UNCHANGED <<user, invite, platform, available, challenge, external>>
    PROVE  AccountsInv'
<1>1. AccountsTypeOK'
  BY Zenon DEF AccountsInv, AccountsTypeOK, Challenges
<1>2. \A c \in Browsers : InHand(browser[c])'
  <2> SUFFICES ASSUME NEW c \in Browsers PROVE InHand(browser[c])'
    BY Zenon
  <2>1. CASE c = b
    <3>1. browser'[c] = r
      BY <2>1, Zenon DEF AccountsInv, AccountsTypeOK
    <3> QED
      BY <3>1, Zenon DEF InHand, Known, Challenges
  <2>2. CASE c # b
    <3>1. browser'[c] = browser[c]
      BY <2>2, Zenon DEF AccountsInv, AccountsTypeOK
    <3> QED
      BY <3>1 DEF AccountsInv, InHand, Known, Challenges
  <2> QED
    BY <2>1, <2>2, Zenon
<1>3. /\ (Known = Known') /\ (ChallengesNamed <=> ChallengesNamed') /\ (WalletsApart <=> WalletsApart')
      /\ (AddressesApart <=> AddressesApart')
  BY Zenon DEF Known, ChallengesNamed, WalletsApart, AddressesApart, Challenges
<1>4. CameBy' /\ Distinct'
  BY <1>3, Zenon DEF AccountsInv, CameBy, Distinct
<1> QED
  BY <1>1, <1>2, <1>3, <1>4, Zenon DEF AccountsInv

\* A new user shares neither name, GitHub account nor invite with another.
LEMMA AddUserInv ==
    ASSUME AccountsInv, NEW b \in Browsers, NEW u \in Users, NEW n \in AnyName,
           NEW s \in Subjects \cup {NoSubject}, NEW i \in Invites \cup {NoInvite},
           AddUser(b, u, n, s, i),
           Named(n) = {},
           s # NoSubject => OfSubject(s) = {},
           i = NoInvite => UNCHANGED invite,
           i # NoInvite => invite[i] = "open" /\ invite' = [invite EXCEPT ![i] = u],
           UNCHANGED <<platform, available, challenge, external>>
    PROVE  AccountsInv'
<1> DEFINE account == [status |-> "active", name |-> n, subject |-> s, invite |-> i]
           held == Holding(browser[b].session, "issue", u, n, s, NoInvite, 0)
<1>1. /\ user' = [user EXCEPT ![u] = account]
      /\ browser' = [browser EXCEPT ![b] = held]
      /\ u \notin Known
  BY Zenon DEF AddUser, Issue, AccountsInv, AccountsTypeOK
<1>2. account \in Account /\ held \in Request
  <2>1. account \in Account
    BY Zenon DEF Account
  <2>2. held \in Request
    BY RequestFields, HoldingTyped, Zenon DEF AccountsInv
  <2> QED
    BY <2>1, <2>2, Zenon
<1>3. /\ user \in [Users -> Account] /\ browser \in [Browsers -> Request]
      /\ invite \in [Invites -> Users \cup {"open", "expired"}]
  BY Zenon DEF AccountsInv, AccountsTypeOK
<1>4. user'[u] = account /\ \A v \in Users \ {u} : user'[v] = user[v]
  BY <1>1, <1>3, Zenon
<1>5. AccountsTypeOK'
  <2>1. user' \in [Users -> Account] /\ browser' \in [Browsers -> Request]
    BY <1>1, <1>2, <1>3, Zenon
  <2>2. invite' \in [Invites -> Users \cup {"open", "expired"}]
    BY <1>3, Zenon
  <2> QED
    BY <2>1, <2>2, Zenon DEF AccountsInv, AccountsTypeOK, Challenges
<1>6. Known' = Known \cup {u}
  BY <1>4 DEF Known
<1>7. RowsKept
  BY <1>1, <1>4, Zenon DEF RowsKept, Known
<1>8. \A c \in Browsers : InHand(browser[c])'
  <2> SUFFICES ASSUME NEW c \in Browsers PROVE InHand(browser[c])'
    BY Zenon
  <2>1. CASE c = b
    <3>1. browser'[c] = held
      BY <2>1, <1>1, <1>3, Zenon
    <3>2. held.pc = "issue" /\ held.user = u /\ held.name = n /\ held.subject = s
      BY HoldingFields
    <3> HIDE DEF held
    <3> QED
      BY <3>1, <3>2, <1>4, <1>6 DEF InHand
  <2>2. CASE c # b
    BY <2>2, <1>1, <1>3, <1>5, <1>7, OthersInHand, Zenon DEF AccountsInv, AccountsTypeOK
  <2> QED
    BY <2>1, <2>2, Zenon
<1>9. CameBy'
  <2> SUFFICES ASSUME NEW v \in Known', user'[v].invite # NoInvite
               PROVE  invite'[user'[v].invite] = v
    BY Zenon DEF CameBy
  <2>1. CASE v = u
    BY <2>1, <1>3, <1>4
  <2>2. CASE v # u
    <3>1. v \in Known /\ user'[v] = user[v] /\ invite[user[v].invite] = v
      BY <2>2, <1>4, <1>6, Zenon DEF AccountsInv, CameBy, Known
    <3>2. i # NoInvite => user[v].invite # i
      BY <3>1, AccountsAssumption, Zenon DEF Known
    <3>3. user[v].invite \in Invites
      BY <3>1, <1>3 DEF Account, Known
    <3> QED
      BY <3>1, <3>2, <3>3, <1>3, Zenon
  <2> QED
    BY <2>1, <2>2, Zenon
<1>10. Distinct'
  <2>1. \A v \in Known : user[v].name # n /\ (s # NoSubject => user[v].subject # s)
    BY Zenon DEF Named, OfSubject
  <2> QED
    BY <2>1, <1>1, <1>4, <1>6 DEF AccountsInv, Distinct, Known
<1>11. ChallengesNamed' /\ WalletsApart' /\ AddressesApart'
  BY Zenon DEF AccountsInv, ChallengesNamed, WalletsApart, AddressesApart, Challenges
<1> QED
  BY <1>5, <1>8, <1>9, <1>10, <1>11, Zenon DEF AccountsInv

-----------------------------------------------------------------------------
(* Registration and sign-in keep the invariant *)

\* The handlers that end in Refuse, or hand a request on.
LEMMA RefuseInv ==
    ASSUME AccountsInv, NEW b \in Browsers, Refuse(b),
           UNCHANGED <<platform, available, challenge, external>>
    PROVE  AccountsInv'
<1>1. Quiet(browser[b].session) \in Request
  BY RequestFields, QuietTyped, Zenon DEF AccountsInv
<1>2. InHand(Quiet(browser[b].session))
  BY HoldingFields DEF Quiet, InHand
<1>3. browser' = [browser EXCEPT ![b] = Quiet(browser[b].session)]
  BY Zenon DEF Refuse, Ends, AccountsInv, AccountsTypeOK
<1> QED
  BY <1>1, <1>2, <1>3, BrowserOnly, Zenon DEF Refuse

\* A known user who proved the name or the GitHub account is signed in.
LEMMA IssueInv ==
    ASSUME AccountsInv, NEW b \in Browsers, NEW u \in Known, NEW n \in AnyName,
           NEW s \in Subjects \cup {NoSubject},
           user[u].subject = s, s = NoSubject => user[u].name = n,
           Issue(b, u, n, s),
           UNCHANGED <<user, invite, platform, available, challenge, external>>
    PROVE  AccountsInv'
<1> DEFINE held == Holding(browser[b].session, "issue", u, n, s, NoInvite, 0)
<1>1. held \in Request
  BY RequestFields, HoldingTyped, Zenon DEF AccountsInv, Known
<1>2. InHand(held)
  <2>1. held.pc = "issue" /\ held.user = u /\ held.name = n /\ held.subject = s
    BY HoldingFields
  <2> HIDE DEF held
  <2> QED
    BY <2>1, Zenon DEF InHand
<1>3. browser' = [browser EXCEPT ![b] = held]
  BY Zenon DEF Issue, AccountsInv, AccountsTypeOK
<1> HIDE DEF held
<1> QED
  BY <1>1, <1>2, <1>3, BrowserOnly, Zenon

\* A request for a password user waits for its password to be hashed.
LEMMA RegisterInv ==
    ASSUME AccountsInv, NEW b \in Browsers, NEW i \in Invites \cup {NoInvite}, NEW n \in Names,
           register(b, i, n)
    PROVE  AccountsInv'
<1> DEFINE held == Holding(browser[b].session, "create", NoUser, n, NoSubject, i, 0)
<1>1. held \in Request
  <2>1. n \in AnyName
    BY Zenon DEF AnyName
  <2> QED
    BY <2>1, RequestFields, HoldingTyped, Zenon DEF AccountsInv
<1>2. InHand(held)
  BY HoldingFields DEF InHand
<1>3. browser' = [browser EXCEPT ![b] = held]
  BY Zenon DEF register, AccountsInv, AccountsTypeOK
<1> HIDE DEF held
<1> QED
  BY <1>1, <1>2, <1>3, BrowserOnly, Zenon DEF register

\* The password is hashed: both kinds of registration insert or refuse.
LEMMA PasswordHashedInv ==
    ASSUME AccountsInv, NEW b \in Browsers, PasswordHashed(b)
    PROVE  AccountsInv'
<1> DEFINE r == browser[b]
<1>1. r.name \in AnyName /\ r.invite \in Invites \cup {NoInvite}
  BY RequestFields, Zenon DEF AccountsInv
<1>2. UNCHANGED <<platform, available, challenge, external>>
  BY Zenon DEF PasswordHashed
<1>3. CASE Refuse(b)
  BY <1>2, <1>3, RefuseInv, Zenon
<1>4. CASE ~ Refuse(b) /\ consume_invite_and_create_user(b)
  <2>1. PICK u \in Users : /\ AddUser(b, u, r.name, NoSubject, r.invite)
                           /\ invite' = [invite EXCEPT ![r.invite] = u]
    BY <1>4, Zenon DEF consume_invite_and_create_user
  <2>2. r.invite # NoInvite /\ invite[r.invite] = "open" /\ Named(r.name) = {}
    BY <1>4, Zenon DEF consume_invite_and_create_user, is_invite_available
  <2> QED
    BY <2>1, <2>2, <1>1, <1>2, AddUserInv, Zenon
<1>5. CASE ~ Refuse(b) /\ create_password_user(b)
  <2>1. PICK u \in Users : AddUser(b, u, r.name, NoSubject, NoInvite) /\ UNCHANGED invite
    BY <1>5, Zenon DEF create_password_user
  <2>2. Named(r.name) = {}
    BY <1>5, Zenon DEF create_password_user
  <2> QED
    BY <2>1, <2>2, <1>1, <1>2, AddUserInv, Zenon
<1> QED
  BY <1>3, <1>4, <1>5, Zenon DEF PasswordHashed

\* Login by password.
LEMMA LoginInv ==
    ASSUME AccountsInv, NEW b \in Browsers, NEW n \in Names, login(b, n)
    PROVE  AccountsInv'
<1>1. PICK u \in Named(n) : user[u].subject = NoSubject /\ Issue(b, u, n, NoSubject)
  BY Zenon DEF login
<1>2. u \in Known /\ user[u].name = n /\ n \in AnyName
  BY <1>1, Zenon DEF Named, AnyName
<1> QED
  BY <1>1, <1>2, IssueInv, Zenon DEF login

\* A GitHub account on its way to a new user is held with a candidate name.
LEMMA CandidateInv ==
    ASSUME AccountsInv, NEW b \in Browsers, NEW s \in Subjects, NEW n \in AnyName,
           browser' = [browser EXCEPT ![b] =
                         Holding(@.session, "insert", NoUser, n, s, NoInvite, 0)],
           UNCHANGED <<user, invite, platform, available, challenge, external>>
    PROVE  AccountsInv'
<1> DEFINE held == Holding(browser[b].session, "insert", NoUser, n, s, NoInvite, 0)
<1>1. held \in Request
  BY RequestFields, HoldingTyped, Zenon DEF AccountsInv
<1>2. InHand(held)
  BY HoldingFields DEF InHand
<1>3. browser' = [browser EXCEPT ![b] = held]
  BY Zenon DEF AccountsInv, AccountsTypeOK
<1> HIDE DEF held
<1> QED
  BY <1>1, <1>2, <1>3, BrowserOnly, Zenon

\* The first SELECT of a sign-in through GitHub.
LEMMA SignInInv ==
    ASSUME AccountsInv, NEW b \in Browsers, NEW s \in Subjects, sign_in_with_github(b, s)
    PROVE  AccountsInv'
<1>1. CASE OfSubject(s) = {}
  BY <1>1, OAuthNames, CandidateInv, Zenon DEF sign_in_with_github
<1>2. CASE OfSubject(s) # {}
  <2>1. PICK u \in OfSubject(s) : Issue(b, u, NoName, s)
    BY <1>2, Zenon DEF sign_in_with_github
  <2>2. u \in Known /\ user[u].subject = s
    BY <2>1, Zenon DEF OfSubject
  <2> QED
    BY <2>1, <2>2, OAuthNames, AccountsAssumption, IssueInv, Zenon DEF sign_in_with_github
<1> QED
  BY <1>1, <1>2, Zenon

\* One turn of the loop over the candidate usernames.
LEMMA OAuthUserInv ==
    ASSUME AccountsInv, NEW b \in Browsers, get_or_create_oauth_user(b)
    PROVE  AccountsInv'
<1> DEFINE s == browser[b].subject
           n == browser[b].name
<1>1. s \in Subjects /\ n \in AnyName
  BY RequestFields, Zenon DEF AccountsInv, InHand, get_or_create_oauth_user
<1>2. UNCHANGED <<platform, available, challenge, external>>
  BY Zenon DEF get_or_create_oauth_user
<1>3. CASE Refuse(b)
  BY <1>2, <1>3, RefuseInv, Zenon
<1>4. CASE ~ Refuse(b) /\ Named(n) = {} /\ OfSubject(s) = {}
  <2>1. PICK u \in Users : AddUser(b, u, n, s, NoInvite) /\ UNCHANGED invite
    BY <1>4, Zenon DEF get_or_create_oauth_user
  <2> QED
    BY <2>1, <1>1, <1>2, <1>4, AddUserInv, Zenon
<1>5. CASE ~ Refuse(b) /\ ~ (Named(n) = {} /\ OfSubject(s) = {}) /\ OfSubject(s) # {}
  <2>1. PICK u \in OfSubject(s) : Issue(b, u, NoName, s)
    BY <1>5, Zenon DEF get_or_create_oauth_user, Conflicting
  <2>2. UNCHANGED <<user, invite>>
    BY <1>5, Zenon DEF get_or_create_oauth_user, Conflicting
  <2>3. u \in Known /\ user[u].subject = s
    BY <2>1, Zenon DEF OfSubject
  <2> QED
    BY <2>1, <2>2, <2>3, <1>1, <1>2, OAuthNames, AccountsAssumption, IssueInv, Zenon
<1>6. CASE ~ Refuse(b) /\ ~ (Named(n) = {} /\ OfSubject(s) = {}) /\ OfSubject(s) = {}
  <2>1. /\ browser' = [browser EXCEPT ![b] =
                         Holding(@.session, "insert", NoUser, Fallback[s], s, NoInvite, 0)]
        /\ UNCHANGED <<user, invite>>
    BY <1>6, Zenon DEF get_or_create_oauth_user, Conflicting
  <2> QED
    BY <2>1, <1>1, <1>2, OAuthNames, CandidateInv, Zenon
<1> QED
  BY <1>3, <1>4, <1>5, <1>6, Zenon

\* The session is issued, or ended.
LEMMA SessionInv ==
    ASSUME AccountsInv, NEW b \in Browsers, _issue_session(b) \/ logout(b)
    PROVE  AccountsInv'
<1>1. PICK session \in Users \cup {NoUser} :
        /\ browser' = [browser EXCEPT ![b] = Quiet(session)]
        /\ UNCHANGED <<user, invite, platform, available, challenge, external>>
  BY RequestFields, Zenon DEF _issue_session, logout, AccountsInv
<1>2. Quiet(session) \in Request
  BY QuietTyped, Zenon
<1>3. InHand(Quiet(session))
  BY HoldingFields DEF Quiet, InHand
<1> QED
  BY <1>1, <1>2, <1>3, BrowserOnly, Zenon

\* An invite that is open is nobody's yet.
LEMMA InviteExpiresInv ==
    ASSUME AccountsInv, NEW i \in Invites, InviteExpires(i)
    PROVE  AccountsInv'
<1>1. AccountsTypeOK'
  BY Zenon DEF InviteExpires, AccountsInv, AccountsTypeOK, Challenges
<1>2. Known' = Known
  BY Zenon DEF InviteExpires, Known
<1>3. CameBy'
  <2> SUFFICES ASSUME NEW v \in Known, user[v].invite # NoInvite
               PROVE  invite'[user[v].invite] = v
    BY <1>2, Zenon DEF CameBy, InviteExpires
  <2>1. invite[user[v].invite] = v /\ v \in Users /\ user[v].invite \in Invites
    BY DEF AccountsInv, CameBy, Known, AccountsTypeOK, Account
  <2>2. user[v].invite # i
    BY <2>1, AccountsAssumption, Zenon DEF InviteExpires
  <2> QED
    BY <2>1, <2>2, Zenon DEF InviteExpires, AccountsInv, AccountsTypeOK
<1>4. \A b \in Browsers : InHand(browser[b])'
  BY <1>2 DEF InviteExpires, AccountsInv, InHand, Challenges
<1>5. Distinct' /\ ChallengesNamed' /\ WalletsApart' /\ AddressesApart'
  BY <1>2 DEF InviteExpires, AccountsInv, Distinct, ChallengesNamed, WalletsApart, AddressesApart,
              Challenges
<1> QED
  BY <1>1, <1>3, <1>4, <1>5, Zenon DEF AccountsInv

\* A disabled user keeps name, GitHub account and invite.
LEMMA UserDisabledInv ==
    ASSUME AccountsInv, NEW u \in Users, UserDisabled(u)
    PROVE  AccountsInv'
<1>1. user \in [Users -> Account]
  BY Zenon DEF AccountsInv, AccountsTypeOK
<1>2. /\ user' \in [Users -> Account]
      /\ user'[u].status = "disabled"
      /\ \A v \in Users : /\ user'[v].name = user[v].name
                          /\ user'[v].subject = user[v].subject
                          /\ user'[v].invite = user[v].invite
                          /\ v # u => user'[v] = user[v]
  BY <1>1, Zenon DEF UserDisabled, Account
<1>3. Known' = Known
  BY <1>2, Zenon DEF UserDisabled, Known
<1>4. AccountsTypeOK'
  BY <1>2, Zenon DEF UserDisabled, AccountsInv, AccountsTypeOK, Challenges
<1>5. RowsKept
  BY <1>2, <1>3, Zenon DEF UserDisabled, RowsKept, Known
<1>6. \A b \in Browsers : InHand(browser[b])'
  BY <1>2, <1>5, OthersInHand, Zenon DEF UserDisabled, AccountsInv
<1>7. CameBy' /\ Distinct'
  BY <1>2, <1>3 DEF UserDisabled, AccountsInv, CameBy, Distinct, Known
<1>8. ChallengesNamed' /\ WalletsApart' /\ AddressesApart'
  BY Zenon DEF UserDisabled, AccountsInv, ChallengesNamed, WalletsApart, AddressesApart,
       Challenges
<1> QED
  BY <1>4, <1>6, <1>7, <1>8, Zenon DEF AccountsInv

-----------------------------------------------------------------------------
(* Wallets keep the invariant *)

\* A step that leaves users and invites alone keeps the identities apart.
LEMMA IdentityKept ==
    ASSUME AccountsInv, UNCHANGED <<user, invite>>
    PROVE  CameBy' /\ Distinct' /\ Known' = Known
<1>1. Known' = Known
  BY Zenon DEF Known
<1> QED
  BY <1>1 DEF AccountsInv, CameBy, Distinct

\* The users a request acts for are users.
LEMMA ActsForUser ==
    ASSUME NEW b \in Browsers
    PROVE  authenticate(b) \subseteq Users
BY Zenon DEF authenticate, Known

\* A platform wallet comes out of the inventory.
LEMMA BindPlatformInv ==
    ASSUME AccountsInv, NEW b \in Browsers, get_or_bind_wallet(b)
    PROVE  AccountsInv'
<1>1. PICK u \in Users, w \in available :
        /\ platform[u] = NoWallet
        /\ platform' = [platform EXCEPT ![u] = w]
        /\ available' = available \ {w}
  BY ActsForUser, Zenon DEF get_or_bind_wallet
<1>2. /\ platform \in [Users -> Inventory \cup {NoWallet}]
      /\ available = Inventory \ {platform[v] : v \in Users}
  BY Zenon DEF AccountsInv, AccountsTypeOK, WalletsApart
<1>3. platform'[u] = w /\ \A v \in Users \ {u} : platform'[v] = platform[v] /\ platform[v] # w
  BY <1>1, <1>2, Zenon
<1>4. AccountsTypeOK'
  BY <1>1, <1>2, Zenon DEF get_or_bind_wallet, AccountsInv, AccountsTypeOK, Challenges
<1>5. WalletsApart'
  <2>1. \A v1, v2 \in Users : v1 # v2 /\ platform'[v1] = platform'[v2] => platform'[v1] = NoWallet
    BY <1>3, Zenon DEF AccountsInv, WalletsApart
  <2>2. {platform'[v] : v \in Users} \ {NoWallet} = ({platform[v] : v \in Users} \cup {w}) \ {NoWallet}
    BY <1>1, <1>2, <1>3, Zenon
  <2>3. available' = Inventory \ {platform'[v] : v \in Users}
    BY <2>2, <1>1, <1>2, AccountsAssumption, Zenon
  <2> QED
    BY <2>1, <2>3, Zenon DEF WalletsApart
<1>6. CameBy' /\ Distinct' /\ Known' = Known
  BY IdentityKept, Zenon DEF get_or_bind_wallet
<1>7. \A c \in Browsers : InHand(browser[c])'
  BY <1>6, Zenon DEF get_or_bind_wallet, AccountsInv, InHand, Challenges
<1>8. ChallengesNamed' /\ AddressesApart'
  BY Zenon DEF get_or_bind_wallet, AccountsInv, ChallengesNamed, AddressesApart, Challenges
<1> QED
  BY <1>4, <1>5, <1>6, <1>7, <1>8, Zenon DEF AccountsInv

\* Steps on the challenges alone.
LEMMA ChallengeOnly ==
    ASSUME AccountsInv, challenge' \in [Challenges -> ChallengeRow], RowsKept, ChallengesNamed',
           UNCHANGED <<user, invite, browser, platform, available, external>>
    PROVE  AccountsInv'
<1>1. AccountsTypeOK'
  BY Zenon DEF AccountsInv, AccountsTypeOK, Challenges
<1>2. \A c \in Browsers : InHand(browser[c])'
  BY OthersInHand, Zenon DEF AccountsInv, AccountsTypeOK
<1>3. CameBy' /\ Distinct' /\ WalletsApart' /\ AddressesApart'
  BY IdentityKept, Zenon DEF AccountsInv, WalletsApart, AddressesApart
<1> QED
  BY <1>1, <1>2, <1>3, Zenon DEF AccountsInv

\* A challenge is handed out to the user who asks, for the address named.
LEMMA CreateChallengeInv ==
    ASSUME AccountsInv, NEW b \in Browsers, NEW k \in Challenges, NEW a \in Addresses,
           create_challenge(b, k, a)
    PROVE  AccountsInv'
<1>1. PICK u \in Users :
        challenge' = [challenge EXCEPT ![k] = [status |-> "open", user |-> u, address |-> a]]
  BY ActsForUser, Zenon DEF create_challenge
<1>2. challenge \in [Challenges -> ChallengeRow]
  BY Zenon DEF AccountsInv, AccountsTypeOK
<1>3. [status |-> "open", user |-> u, address |-> a] \in ChallengeRow
  BY Zenon DEF ChallengeRow
<1>4. challenge' \in [Challenges -> ChallengeRow]
  BY <1>1, <1>2, <1>3, Zenon
<1>5. RowsKept
  BY <1>1, <1>2, Zenon DEF create_challenge, RowsKept, Known
<1>6. ChallengesNamed'
  BY <1>1, <1>2, Zenon DEF AccountsInv, ChallengesNamed, Challenges
<1> QED
  BY <1>4, <1>5, <1>6, ChallengeOnly, Zenon DEF create_challenge

\* Time closes a challenge.
LEMMA ChallengeExpiresInv ==
    ASSUME AccountsInv, NEW k \in Challenges, ChallengeExpires(k)
    PROVE  AccountsInv'
<1>1. challenge \in [Challenges -> ChallengeRow]
  BY Zenon DEF AccountsInv, AccountsTypeOK
<1>2. /\ challenge' \in [Challenges -> ChallengeRow]
      /\ \A j \in Challenges : /\ challenge'[j].user = challenge[j].user
                               /\ challenge'[j].address = challenge[j].address
                               /\ challenge'[j].status = IF j = k THEN "expired" ELSE challenge[j].status
  BY <1>1, Zenon DEF ChallengeExpires, ChallengeRow
<1>3. RowsKept
  BY <1>2 DEF ChallengeExpires, RowsKept, Known
<1>4. ChallengesNamed'
  BY <1>2, Zenon DEF ChallengeExpires, AccountsInv, ChallengesNamed, Challenges
<1> QED
  BY <1>2, <1>3, <1>4, ChallengeOnly, Zenon DEF ChallengeExpires

\* The signature is judged on a row read without a lock.
LEMMA VerifyInv ==
    ASSUME AccountsInv, NEW b \in Browsers, NEW k \in Challenges, NEW found \in {"bind", "reject"},
           verify_challenge(b, k, found)
    PROVE  AccountsInv'
<1>1. PICK u \in Users :
        /\ challenge[k].user = u /\ challenge[k].status = "open"
        /\ browser' = [browser EXCEPT ![b] =
                         Holding(@.session, found, u, NoName, NoSubject, NoInvite, k)]
  BY ActsForUser, Zenon DEF verify_challenge
<1> DEFINE held == Holding(browser[b].session, found, u, NoName, NoSubject, NoInvite, k)
<1>2. held \in Request
  BY RequestFields, HoldingTyped, Zenon DEF AccountsInv, AnyName
<1>3. InHand(held)
  <2>1. held.pc = found /\ held.user = u /\ held.challenge = k
    BY HoldingFields
  <2>2. challenge[k].address \in Addresses
    BY <1>1, Zenon DEF AccountsInv, ChallengesNamed
  <2> HIDE DEF held
  <2> QED
    BY <2>1, <2>2, <1>1, Zenon DEF InHand
<1>4. browser' = [browser EXCEPT ![b] = held]
  BY <1>1, Zenon DEF AccountsInv, AccountsTypeOK
<1> HIDE DEF held
<1> QED
  BY <1>2, <1>3, <1>4, BrowserOnly, Zenon DEF verify_challenge

\* A verification ends: its browser is quiet, the challenge keeps user and
\* address, and no address is shared.
LEMMA VerificationEnds ==
    ASSUME AccountsInv, NEW b \in Browsers, NEW k \in Challenges,
           NEW status \in {"open", "expired", "failed", "verified"},
           challenge[k].status # "absent",
           challenge' = [challenge EXCEPT ![k].status = status] \/ UNCHANGED challenge,
           external' \in [Users -> Addresses \cup {NoAddress}], AddressesApart',
           Ends(b), UNCHANGED <<user, invite, platform, available>>
    PROVE  AccountsInv'
<1>1. challenge \in [Challenges -> ChallengeRow] /\ browser \in [Browsers -> Request]
  BY Zenon DEF AccountsInv, AccountsTypeOK
<1>2. /\ challenge' \in [Challenges -> ChallengeRow]
      /\ \A j \in Challenges : /\ challenge'[j].user = challenge[j].user
                               /\ challenge'[j].address = challenge[j].address
                               /\ challenge[j].status # "absent" => challenge'[j].status # "absent"
                               /\ challenge[j].status = "absent" => challenge'[j].status = "absent"
  BY <1>1 DEF ChallengeRow
<1>3. RowsKept
  BY <1>2, Zenon DEF RowsKept, Known
<1>4. Quiet(browser[b].session) \in Request
  BY RequestFields, QuietTyped, Zenon DEF AccountsInv
<1>5. browser' = [browser EXCEPT ![b] = Quiet(browser[b].session)]
  BY <1>1, Zenon DEF Ends
<1>6. AccountsTypeOK'
  BY <1>1, <1>2, <1>4, <1>5, Zenon DEF AccountsInv, AccountsTypeOK, Challenges
<1>7. \A c \in Browsers : InHand(browser[c])'
  <2> SUFFICES ASSUME NEW c \in Browsers PROVE InHand(browser[c])'
    BY Zenon
  <2>1. CASE c = b
    <3>1. browser'[c].pc = "idle"
      BY <2>1, <1>1, <1>5, HoldingFields DEF Quiet
    <3> QED
      BY <3>1, Zenon DEF InHand
  <2>2. CASE c # b
    BY <2>2, <1>1, <1>3, <1>5, <1>6, OthersInHand, Zenon DEF AccountsInv, AccountsTypeOK
  <2> QED
    BY <2>1, <2>2, Zenon
<1>8. ChallengesNamed'
  BY <1>2, Zenon DEF AccountsInv, ChallengesNamed, Challenges
<1>9. CameBy' /\ Distinct' /\ WalletsApart'
  BY IdentityKept, Zenon DEF AccountsInv, WalletsApart
<1> QED
  BY <1>6, <1>7, <1>8, <1>9, Zenon DEF AccountsInv

\* A wrong signature.
LEMMA FailedVerificationInv ==
    ASSUME AccountsInv, NEW b \in Browsers, record_failed_verification(b)
    PROVE  AccountsInv'
<1> DEFINE k == browser[b].challenge
<1>1. k \in Challenges /\ challenge[k].status # "absent"
  BY Zenon DEF record_failed_verification, AccountsInv, InHand
<1>2. challenge \in [Challenges -> ChallengeRow]
  BY Zenon DEF AccountsInv, AccountsTypeOK
<1>3. PICK status \in {"open", "expired", "failed", "verified"} :
        challenge' = [challenge EXCEPT ![k].status = status]
  BY <1>1, <1>2, Zenon DEF record_failed_verification, ChallengeRow
<1>4. external' \in [Users -> Addresses \cup {NoAddress}] /\ AddressesApart'
  BY Zenon DEF record_failed_verification, AccountsInv, AccountsTypeOK, AddressesApart
<1> HIDE DEF k
<1> QED
  BY <1>1, <1>3, <1>4, VerificationEnds, Zenon DEF record_failed_verification

\* A right signature: the address is bound, or nothing is.
LEMMA BindInv ==
    ASSUME AccountsInv, NEW b \in Browsers, consume_and_bind(b)
    PROVE  AccountsInv'
<1> DEFINE k == browser[b].challenge
           u == browser[b].user
           a == challenge[k].address
           granted == /\ StillOpen(k)
                      /\ external[u] \in {a, NoAddress}
                      /\ \A v \in Users \ {u} : external[v] # a
<1>1. k \in Challenges /\ u \in Users /\ a \in Addresses /\ challenge[k].status # "absent"
  BY Zenon DEF consume_and_bind, AccountsInv, InHand
<1>2. /\ challenge' = [challenge EXCEPT ![k].status = "verified"] \/ UNCHANGED challenge
      /\ external' = IF granted THEN [external EXCEPT ![u] = a] ELSE external
      /\ Ends(b) /\ UNCHANGED <<user, invite, platform, available>>
  BY Zenon DEF consume_and_bind
<1>3. external \in [Users -> Addresses \cup {NoAddress}] /\ AddressesApart
  BY Zenon DEF AccountsInv, AccountsTypeOK
<1>4. external' \in [Users -> Addresses \cup {NoAddress}] /\ AddressesApart'
  BY <1>1, <1>2, <1>3, Zenon DEF AddressesApart
<1> HIDE DEF k, u, a, granted
<1> QED
  BY <1>1, <1>2, <1>4, VerificationEnds, Zenon

\* The user removes the binding.
LEMMA UnbindInv ==
    ASSUME AccountsInv, NEW b \in Browsers, unbind_wallet(b)
    PROVE  AccountsInv'
<1>1. PICK u \in Users : external' = [external EXCEPT ![u] = NoAddress]
  BY ActsForUser, Zenon DEF unbind_wallet
<1>2. AccountsTypeOK' /\ AddressesApart'
  BY <1>1, Zenon DEF unbind_wallet, AccountsInv, AccountsTypeOK, AddressesApart, Challenges
<1>3. CameBy' /\ Distinct' /\ Known' = Known
  BY IdentityKept, Zenon DEF unbind_wallet
<1>4. \A c \in Browsers : InHand(browser[c])'
  BY <1>3, Zenon DEF unbind_wallet, AccountsInv, InHand, Challenges
<1>5. ChallengesNamed' /\ WalletsApart'
  BY Zenon DEF unbind_wallet, AccountsInv, ChallengesNamed, WalletsApart, Challenges
<1> QED
  BY <1>2, <1>3, <1>4, <1>5, Zenon DEF AccountsInv

-----------------------------------------------------------------------------
(* The theorems *)

\* Every step keeps the invariant: one case per action.
LEMMA NextInv == AccountsInv /\ [AccountsNext]_accountVars => AccountsInv'
<1> SUFFICES ASSUME AccountsInv, [AccountsNext]_accountVars PROVE AccountsInv'
  BY Zenon
<1>1. CASE UNCHANGED accountVars
  <2>1. AccountsTypeOK' /\ Known' = Known
    BY <1>1, Zenon DEF accountVars, AccountsInv, AccountsTypeOK, Challenges, Known
  <2>2. \A b \in Browsers : InHand(browser[b])'
    BY <2>1, <1>1, Zenon DEF accountVars, AccountsInv, InHand, Challenges
  <2>3. ChallengesNamed' /\ CameBy' /\ Distinct' /\ WalletsApart' /\ AddressesApart'
    BY <2>1, <1>1 DEF accountVars, AccountsInv, ChallengesNamed, CameBy, Distinct, WalletsApart,
                      AddressesApart, Challenges
  <2> QED
    BY <2>1, <2>2, <2>3, Zenon DEF AccountsInv
<1>2. CASE \E i \in Invites : InviteExpires(i)
  BY <1>2, InviteExpiresInv, Zenon
<1>3. CASE \E u \in Users : UserDisabled(u)
  BY <1>3, UserDisabledInv, Zenon
<1>4. CASE \E k \in Challenges : ChallengeExpires(k)
  BY <1>4, ChallengeExpiresInv, Zenon
<1>5. ASSUME NEW b \in Browsers,
             \/ \E i \in Invites \cup {NoInvite}, n \in Names : register(b, i, n)
             \/ PasswordHashed(b)
             \/ \E n \in Names : login(b, n)
             \/ \E s \in Subjects : sign_in_with_github(b, s)
             \/ get_or_create_oauth_user(b)
             \/ _issue_session(b)
             \/ logout(b)
      PROVE  AccountsInv'
  BY <1>5, RegisterInv, PasswordHashedInv, LoginInv, SignInInv, OAuthUserInv, SessionInv, Zenon
<1>6. ASSUME NEW b \in Browsers,
             \/ get_or_bind_wallet(b)
             \/ \E k \in Challenges, a \in Addresses : create_challenge(b, k, a)
             \/ \E k \in Challenges, found \in {"bind", "reject"} : verify_challenge(b, k, found)
             \/ record_failed_verification(b)
             \/ consume_and_bind(b)
             \/ unbind_wallet(b)
      PROVE  AccountsInv'
  BY <1>6, BindPlatformInv, CreateChallengeInv, VerifyInv, FailedVerificationInv, BindInv,
       UnbindInv, Zenon
<1> QED
  BY <1>1, <1>2, <1>3, <1>4, <1>5, <1>6, Zenon DEF AccountsNext

\* The invariant says what AccountsExclusive says.
LEMMA InvExclusive == AccountsInv => AccountsExclusive
<1> SUFFICES ASSUME AccountsInv PROVE AccountsExclusive
  BY Zenon
<1>1. \A u, v \in Known :
        u # v => /\ platform[u] = platform[v] => platform[u] = NoWallet
                 /\ external[u] = external[v] => external[u] = NoAddress
  BY Zenon DEF AccountsInv, WalletsApart, AddressesApart, Known
<1>2. \A b \in Browsers : browser[b].pc = "issue" =>
        /\ user[browser[b].user].subject = browser[b].subject
        /\ browser[b].subject = NoSubject => user[browser[b].user].name = browser[b].name
  BY Zenon DEF AccountsInv, InHand
<1> QED
  BY <1>1, <1>2, Zenon DEF AccountsInv, AccountsExclusive, CameBy, Distinct, WalletsApart

\* Invites, usernames, GitHub accounts and wallets are never shared and a
\* browser is signed in only as the user it proved to be, whatever requests of
\* ConnectorAuth and of the wallet repositories overlap.
THEOREM ExclusiveAccounts == AccountsSpec => []AccountsExclusive
<1>1. AccountsSpec => []AccountsInv
  BY InitInv, NextInv, PTL DEF AccountsSpec
<1> QED
  BY <1>1, InvExclusive, PTL

\* Only consume_and_bind gives a user an address, and it spends an open
\* challenge of that user for it.
LEMMA BindsByProof ==
    ASSUME AccountsInv, [AccountsNext]_accountVars, NEW u \in Users,
           external'[u] \notin {external[u], NoAddress}
    PROVE  \E k \in Challenges :
              /\ challenge[k] = [status |-> "open", user |-> u, address |-> external'[u]]
              /\ challenge'[k].status = "verified"
<1>1. external \in [Users -> Addresses \cup {NoAddress}] /\ challenge \in [Challenges -> ChallengeRow]
  BY Zenon DEF AccountsInv, AccountsTypeOK
<1>2. \A b \in Browsers : ~ unbind_wallet(b)
  BY <1>1, ActsForUser, Zenon DEF unbind_wallet
<1>3. PICK b \in Browsers : consume_and_bind(b)
  <2>1. external' # external
    BY Zenon
  <2>2. \A c \in Browsers : PasswordHashed(c) \/ get_or_create_oauth_user(c) => UNCHANGED external
    BY Zenon DEF PasswordHashed, get_or_create_oauth_user
  <2>3. \A c \in Browsers :
          /\ \A i \in Invites \cup {NoInvite}, n \in Names : register(c, i, n) => UNCHANGED external
          /\ \A n \in Names : login(c, n) => UNCHANGED external
          /\ \A s \in Subjects : sign_in_with_github(c, s) => UNCHANGED external
          /\ _issue_session(c) \/ logout(c) => UNCHANGED external
    BY Zenon DEF register, login, sign_in_with_github, _issue_session, logout
  <2>4. \A c \in Browsers :
          /\ get_or_bind_wallet(c) \/ record_failed_verification(c) => UNCHANGED external
          /\ \A k \in Challenges, a \in Addresses : create_challenge(c, k, a) => UNCHANGED external
          /\ \A k \in Challenges, found \in {"bind", "reject"} :
                verify_challenge(c, k, found) => UNCHANGED external
    BY Zenon DEF get_or_bind_wallet, record_failed_verification, create_challenge,
         verify_challenge
  <2>5. /\ \A i \in Invites : InviteExpires(i) => UNCHANGED external
        /\ \A v \in Users : UserDisabled(v) => UNCHANGED external
        /\ \A k \in Challenges : ChallengeExpires(k) => UNCHANGED external
    BY Zenon DEF InviteExpires, UserDisabled, ChallengeExpires
  <2> QED
    BY <1>2, <2>1, <2>2, <2>3, <2>4, <2>5, Zenon DEF AccountsNext, accountVars
<1> DEFINE k == browser[b].challenge
           w == browser[b].user
           a == challenge[k].address
<1>4. k \in Challenges /\ w \in Users /\ challenge[k].user = w
  BY <1>3, Zenon DEF consume_and_bind, AccountsInv, InHand
<1>5. /\ StillOpen(k)
      /\ challenge' = [challenge EXCEPT ![k].status = "verified"]
      /\ external' = [external EXCEPT ![w] = a]
  BY <1>3, Zenon DEF consume_and_bind
<1>6. u = w /\ external'[u] = a
  BY <1>1, <1>4, <1>5, Zenon
<1>7. challenge[k] = [status |-> "open", user |-> u, address |-> a]
  BY <1>1, <1>4, <1>5, <1>6, Zenon DEF StillOpen, ChallengeRow
<1>8. challenge'[k].status = "verified"
  BY <1>1, <1>4, <1>5, Zenon DEF ChallengeRow
<1> QED
  BY <1>4, <1>6, <1>7, <1>8, Zenon

\* An external wallet is bound only by a proof that is still fresh when
\* consume_and_bind takes the challenge's lock.
THEOREM ProofBeforeBinding == AccountsSpec => BoundByProof
<1> DEFINE Proved ==
        \A u \in Users :
          external'[u] \notin {external[u], NoAddress} =>
             \E k \in Challenges :
                /\ challenge[k] = [status |-> "open", user |-> u, address |-> external'[u]]
                /\ challenge'[k].status = "verified"
<1>1. AccountsInv /\ [AccountsNext]_accountVars => [Proved]_accountVars
  BY BindsByProof, Zenon
<1>2. AccountsSpec => []AccountsInv
  BY InitInv, NextInv, PTL DEF AccountsSpec
<1>3. AccountsSpec => [][Proved]_accountVars
  BY <1>1, <1>2, PTL DEF AccountsSpec
<1> QED
  BY <1>3, Zenon DEF BoundByProof

=============================================================================
