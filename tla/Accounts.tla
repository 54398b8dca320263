------------------------------ MODULE Accounts ------------------------------
(***************************************************************************)
(* The people behind the participants: the users a browser registers by    *)
(* invite, by password or through GitHub and the sessions it is given      *)
(* (ConnectorAuth), the platform wallet a user gets from the inventory     *)
(* (PostgresPaymentRepository.get_or_bind_wallet) and the external wallet  *)
(* a user links by signing a challenge (PostgresWalletRepository and       *)
(* web/wallet_api).                                                        *)
(*                                                                         *)
(* A step is one transaction, or the part of a request up to its next      *)
(* await that lets another in.  A browser has one request in flight; two   *)
(* browsers may act for one user.  Whether a password, a signature or an   *)
(* OAuth exchange is right is a choice; requests refused before any row is *)
(* written (a bad cookie, CSRF token or rate limit) are left out.          *)
(***************************************************************************)
EXTENDS Naturals, FiniteSets

CONSTANTS
    Users,          \* user_id
    NoUser,
    Browsers,       \* clients of the API
    Invites,        \* invite codes that were handed out
    NoInvite,       \* public registration asks for none
    Names,          \* usernames that people choose
    NoName,
    Subjects,       \* GitHub accounts
    NoSubject,      \* the provider_subject of a password user
    Login,          \* Login[s]: the login name of GitHub account s
    Fallback,       \* Fallback[s]: the username github-<subject>
    Inventory,      \* wallet_inventory
    NoWallet,
    Addresses,      \* wallets that people own
    NoAddress,
    MaxChallenges   \* bound of the challenges handed out

ASSUME AccountsAssumption ==
    /\ NoUser \notin Users
    /\ {"open", "expired"} \cap Users = {}
    /\ NoInvite \notin Invites
    /\ NoSubject \notin Subjects
    /\ NoWallet \notin Inventory
    /\ NoAddress \notin Addresses
    /\ MaxChallenges \in Nat

VARIABLES
    user,           \* connector_users, with the invite a user came by
    invite,         \* connector_invites: "open", "expired" or consumed_by
    browser,        \* a browser's session and its request in flight
    platform,       \* user_wallets: user -> wallet
    available,      \* wallet_inventory rows with status 'available'
    challenge,      \* wallet_binding_challenges
    external        \* external_wallet_bindings: user -> address

accountVars == <<user, invite, browser, platform, available, challenge, external>>

Challenges == 1..MaxChallenges

NoAccount == [status |-> "absent", name |-> NoName, subject |-> NoSubject, invite |-> NoInvite]
NoChallenge == [status |-> "absent", user |-> NoUser, address |-> NoAddress]

\* What a browser holds: its session, and of its request in flight the user,
\* name, GitHub account, invite and challenge the handler has in hand.
Holding(session, pc, u, n, s, i, k) ==
    [session |-> session, pc |-> pc, user |-> u, name |-> n,
     subject |-> s, invite |-> i, challenge |-> k]
Quiet(session) == Holding(session, "idle", NoUser, NoName, NoSubject, NoInvite, 0)

AccountsInit ==
    /\ user = [u \in Users |-> NoAccount]
    /\ invite = [i \in Invites |-> "open"]
    /\ browser = [b \in Browsers |-> Quiet(NoUser)]
    /\ platform = [u \in Users |-> NoWallet]
    /\ available = Inventory
    /\ challenge = [k \in Challenges |-> NoChallenge]
    /\ external = [u \in Users |-> NoAddress]

Known == {u \in Users : user[u].status # "absent"}
Named(n) == {u \in Known : user[u].name = n}
OfSubject(s) == {u \in Known : user[u].subject = s}

-----------------------------------------------------------------------------
(* Registration *)

is_invite_available(i) == i # NoInvite => invite[i] = "open"

\* A request without an invite, or one whose invite and name are still free;
\* it then waits for a slot in which its password is hashed.
register(b, i, n) ==
    /\ browser[b].pc = "idle"
    /\ is_invite_available(i)
    /\ Named(n) = {}
    /\ browser' = [browser EXCEPT ![b] =
                     Holding(@.session, "create", NoUser, n, NoSubject, i, 0)]
    /\ UNCHANGED <<user, invite, platform, available, challenge, external>>

\* The request ends; the browser keeps the session it had.
Ends(b) == browser' = [browser EXCEPT ![b] = Quiet(@.session)]
Refuse(b) == Ends(b) /\ UNCHANGED <<user, invite>>

\* The request is about to be given a session as u, for having proved to be
\* the user named n, or the GitHub account s.
Issue(b, u, n, s) ==
    browser' = [browser EXCEPT ![b] = Holding(@.session, "issue", u, n, s, NoInvite, 0)]

\* The INSERT of user u, who presented invite i (NoInvite: none).
AddUser(b, u, n, s, i) ==
    /\ u \in Users \ Known
    /\ user' = [user EXCEPT ![u] =
                  [status |-> "active", name |-> n, subject |-> s, invite |-> i]]
    /\ Issue(b, u, n, s)

\* The invite row is locked and must still be open; the username is UNIQUE.
consume_invite_and_create_user(b) ==
    LET r == browser[b] IN
    /\ r.invite # NoInvite
    /\ IF is_invite_available(r.invite) /\ Named(r.name) = {}
       THEN \E u \in Users : /\ AddUser(b, u, r.name, NoSubject, r.invite)
                             /\ invite' = [invite EXCEPT ![r.invite] = u]
       ELSE Refuse(b)

create_password_user(b) ==
    LET r == browser[b] IN
    /\ r.invite = NoInvite
    /\ IF Named(r.name) = {}
       THEN \E u \in Users : AddUser(b, u, r.name, NoSubject, NoInvite) /\ UNCHANGED invite
       ELSE Refuse(b)

\* accept_invite and register once the password is hashed.
PasswordHashed(b) ==
    /\ browser[b].pc = "create"
    /\ consume_invite_and_create_user(b) \/ create_password_user(b)
    /\ UNCHANGED <<platform, available, challenge, external>>

\* seed_invite gives an invite an expiry; the code never reopens one.
InviteExpires(i) ==
    /\ invite[i] = "open"
    /\ invite' = [invite EXCEPT ![i] = "expired"]
    /\ UNCHANGED <<user, browser, platform, available, challenge, external>>

-----------------------------------------------------------------------------
(* Sign-in *)

\* The row is read before the password is verified; a GitHub user has no
\* password, and a disabled one is refused on the row that was read.
login(b, n) ==
    /\ browser[b].pc = "idle"
    /\ \E u \in Named(n) :
          /\ user[u].status = "active"
          /\ user[u].subject = NoSubject
          /\ Issue(b, u, n, NoSubject)
    /\ UNCHANGED <<user, invite, platform, available, challenge, external>>

\* sign_in_with_github up to the first SELECT of get_or_create_oauth_user.
sign_in_with_github(b, s) ==
    /\ browser[b].pc = "idle"
    /\ IF OfSubject(s) = {}
       THEN browser' = [browser EXCEPT ![b] =
                          Holding(@.session, "insert", NoUser, Login[s], s, NoInvite, 0)]
       ELSE \E u \in OfSubject(s) : user[u].status = "active" /\ Issue(b, u, NoName, s)
    /\ UNCHANGED <<user, invite, platform, available, challenge, external>>

\* Whom the SELECT after a conflicting INSERT returns.
\* Mutant: it looks for the username that was taken.
Conflicting_ByName(s, n) == Named(n)
Conflicting(s, n) == OfSubject(s)

\* One turn of the loop over the candidate usernames: INSERT ... ON CONFLICT
\* DO NOTHING, then the SELECT of the user that another request inserted.
get_or_create_oauth_user(b) ==
    LET s == browser[b].subject
        n == browser[b].name
    IN
    /\ browser[b].pc = "insert"
    /\ IF Named(n) = {} /\ OfSubject(s) = {}
       THEN \E u \in Users : AddUser(b, u, n, s, NoInvite) /\ UNCHANGED invite
       ELSE IF Conflicting(s, n) # {}
       THEN /\ \E u \in Conflicting(s, n) :
                  IF user[u].status = "active" THEN Issue(b, u, NoName, s) ELSE Refuse(b)
            /\ UNCHANGED <<user, invite>>
       ELSE IF n # Fallback[s]
       THEN /\ browser' = [browser EXCEPT ![b] =
                             Holding(@.session, "insert", NoUser, Fallback[s], s, NoInvite, 0)]
            /\ UNCHANGED <<user, invite>>
       ELSE Refuse(b)
    /\ UNCHANGED <<platform, available, challenge, external>>

_issue_session(b) ==
    /\ browser[b].pc = "issue"
    /\ browser' = [browser EXCEPT ![b] = Quiet(browser[b].user)]
    /\ UNCHANGED <<user, invite, platform, available, challenge, external>>

\* The user a request acts for: the session is neither revoked nor expired
\* and the user is not disabled.
authenticate(b) == {u \in Known : u = browser[b].session /\ user[u].status = "active"}

\* Logout, or the end of the session's time.
logout(b) ==
    /\ browser[b].pc = "idle"
    /\ browser[b].session # NoUser
    /\ browser' = [browser EXCEPT ![b] = Quiet(NoUser)]
    /\ UNCHANGED <<user, invite, platform, available, challenge, external>>

\* An operator sets disabled_at.
UserDisabled(u) ==
    /\ user[u].status = "active"
    /\ user' = [user EXCEPT ![u].status = "disabled"]
    /\ UNCHANGED <<invite, browser, platform, available, challenge, external>>

-----------------------------------------------------------------------------
(* Wallets *)

\* The user row is locked; a user who has a wallet is answered with it, and a
\* new one takes any available row that no other transaction holds locked.
get_or_bind_wallet(b) ==
    /\ browser[b].pc = "idle"
    /\ \E u \in authenticate(b), w \in available :
          /\ platform[u] = NoWallet
          /\ platform' = [platform EXCEPT ![u] = w]
          /\ available' = available \ {w}
    /\ UNCHANGED <<user, invite, browser, challenge, external>>

create_challenge(b, k, a) ==
    /\ browser[b].pc = "idle"
    /\ challenge[k].status = "absent"
    /\ \A j \in 1..(k - 1) : challenge[j].status # "absent"
    /\ \E u \in authenticate(b) :
          challenge' = [challenge EXCEPT ![k] = [status |-> "open", user |-> u, address |-> a]]
    /\ UNCHANGED <<user, invite, browser, platform, available, external>>

\* The challenge is read without a lock; the message and the signature are
\* then found right ("bind") or wrong ("reject").
verify_challenge(b, k, found) ==
    /\ browser[b].pc = "idle"
    /\ \E u \in authenticate(b) :
          /\ challenge[k].user = u
          /\ challenge[k].status = "open"
          /\ browser' = [browser EXCEPT ![b] =
                           Holding(@.session, found, u, NoName, NoSubject, NoInvite, k)]
    /\ UNCHANGED <<user, invite, platform, available, challenge, external>>

record_failed_verification(b) ==
    LET k == browser[b].challenge IN
    /\ browser[b].pc = "reject"
    /\ challenge' = [challenge EXCEPT ![k].status = IF @ \in {"open", "expired"} THEN "failed" ELSE @]
    /\ Ends(b)
    /\ UNCHANGED <<user, invite, platform, available, external>>

\* What consume_and_bind asks of the challenge it has locked.
\* Mutant: the row that verify_challenge read is trusted.
StillOpen_Trusted(k) == TRUE
StillOpen(k) == challenge[k].status = "open"

\* A refusal rolls the consumption of the challenge back too.  A user bound
\* to this address already is answered with that binding, and the challenge
\* is spent.
consume_and_bind(b) ==
    LET k == browser[b].challenge
        u == browser[b].user
        a == challenge[k].address
        granted == /\ StillOpen(k)
                   /\ external[u] \in {a, NoAddress}
                   /\ \A v \in Users \ {u} : external[v] # a
    IN
    /\ browser[b].pc = "bind"
    /\ challenge' = IF granted THEN [challenge EXCEPT ![k].status = "verified"] ELSE challenge
    /\ external' = IF granted THEN [external EXCEPT ![u] = a] ELSE external
    /\ Ends(b)
    /\ UNCHANGED <<user, invite, platform, available>>

unbind_wallet(b) ==
    /\ browser[b].pc = "idle"
    /\ \E u \in authenticate(b) :
          /\ external[u] # NoAddress
          /\ external' = [external EXCEPT ![u] = NoAddress]
    /\ UNCHANGED <<user, invite, browser, platform, available, challenge>>

\* Five minutes pass.
ChallengeExpires(k) ==
    /\ challenge[k].status = "open"
    /\ challenge' = [challenge EXCEPT ![k].status = "expired"]
    /\ UNCHANGED <<user, invite, browser, platform, available, external>>

AccountsNext ==
    \/ \E i \in Invites : InviteExpires(i)
    \/ \E u \in Users : UserDisabled(u)
    \/ \E k \in Challenges : ChallengeExpires(k)
    \/ \E b \in Browsers :
          \/ \E i \in Invites \cup {NoInvite}, n \in Names : register(b, i, n)
          \/ PasswordHashed(b)
          \/ \E n \in Names : login(b, n)
          \/ \E s \in Subjects : sign_in_with_github(b, s)
          \/ get_or_create_oauth_user(b)
          \/ _issue_session(b)
          \/ logout(b)
          \/ get_or_bind_wallet(b)
          \/ \E k \in Challenges, a \in Addresses : create_challenge(b, k, a)
          \/ \E k \in Challenges, found \in {"bind", "reject"} : verify_challenge(b, k, found)
          \/ record_failed_verification(b)
          \/ consume_and_bind(b)
          \/ unbind_wallet(b)

AccountsSpec == AccountsInit /\ [][AccountsNext]_accountVars

-----------------------------------------------------------------------------
(* Properties *)

\* Requests that overlap never share an identity: an invite is consumed by
\* the one user who came by it, a GitHub account and a username are one user's,
\* a platform wallet is out of the inventory exactly when one user holds it,
\* an external address is bound to one user, and a browser is about to be
\* signed in only as the user whose GitHub account or username it proved,
\* however GitHub logins and chosen usernames collide.
AccountsExclusive ==
    /\ \A u \in Known : user[u].invite # NoInvite => invite[user[u].invite] = u
    /\ \A u, v \in Known :
          u # v => /\ user[u].name # user[v].name
                   /\ user[u].subject = user[v].subject => user[u].subject = NoSubject
                   /\ platform[u] = platform[v] => platform[u] = NoWallet
                   /\ external[u] = external[v] => external[u] = NoAddress
    /\ available = Inventory \ {platform[u] : u \in Users}
    /\ \A b \in Browsers :
          LET r == browser[b] IN
          r.pc = "issue" => /\ user[r.user].subject = r.subject
                            /\ r.subject = NoSubject => user[r.user].name = r.name

\* An address is bound to a user only in the step that spends an open
\* challenge of that user for that address: no late or repeated verification
\* brings back a binding that the user has removed.
BoundByProof ==
    [][\A u \in Users :
          external'[u] \notin {external[u], NoAddress} =>
             \E k \in Challenges :
                /\ challenge[k] = [status |-> "open", user |-> u, address |-> external'[u]]
                /\ challenge'[k].status = "verified"]_accountVars
=============================================================================
