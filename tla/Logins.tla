------------------------------- MODULE Logins -------------------------------
(***************************************************************************)
(* Logging in with Vipps, Google or a mailed link, linking and unlinking   *)
(* providers, refreshing, logging out and deleting the account.            *)
(*                                                                         *)
(* A browser holds the oauth session (link intent, parked link, the state  *)
(* of flows under way) and the session cookies.  It has at most one        *)
(* request under way, each step of which is one statement.  Browsers are   *)
(* shared: people come and go, and leave sessions and cookies behind.      *)
(***************************************************************************)
EXTENDS Integers, FiniteSets

CONSTANTS People, Browsers, Mailers,
          Seating,       \* who may sit where at first
          EmailOf,       \* <<provider, person>> -> e-mail
          PhoneOf,       \* person -> phone, which only Vipps tells
          NoPhone,
          MaxAccounts, MaxToken, MaxLinks, \* bounds on rows, logouts, links
          Budget         \* bound on what people and clocks start

Providers == {"VIPPS", "GOOGLE"}
Accounts == 1 .. MaxAccounts

ASSUME LoginsAssumption ==
    /\ MaxAccounts \in Nat \ {0} /\ MaxToken \in Nat \ {0}
    /\ MaxLinks \in Nat /\ Budget \in Nat
    /\ People # {}
    /\ DOMAIN EmailOf = Providers \X People
    /\ DOMAIN PhoneOf = People
    /\ Seating \subseteq [Browsers -> People]

(* An e-mail is one person's: both strategies refuse one that the provider *)
(* has not verified.                                                       *)
ASSUME EmailsAssumption ==
    \A k, l \in Providers \X People : EmailOf[k] = EmailOf[l] => k[2] = l[2]

VARIABLES account,  \* the users rows; state "free" before, "gone" after
          linked,   \* provider_users: account -> provider -> sub
          keys,     \* how often Vipps has changed the subs (0 or 1)
          links,    \* login_links
          mailed,   \* how many links were made
          opened,   \* history: links that let somebody in
          locked,   \* users rows held FOR UPDATE
          mailer,   \* requestLinkInBackground
          at,       \* who sits at the browser
          tab,      \* flows waiting at a provider, by the door they came through
          session,  \* the oauth session
          cookie,   \* account and refreshTokenId; live: the access token too
          request,
          out,      \* history: browsers logged out, that have not logged in since
          budget

people == <<keys, at, budget>>
database == <<account, linked, links, mailed, locked>>
browsers == <<tab, session, cookie>>
vars == <<account, linked, keys, links, mailed, opened, locked, mailer, at, tab,
          session, cookie, request, out, budget>>

NoSub == <<>>
Sub(provider, p) == <<p, IF provider = "VIPPS" THEN keys ELSE 0>>
NoPending == [provider |-> "VIPPS", sub |-> NoSub, matched |-> 0, phone |-> NoPhone, late |-> FALSE]
NoSession == [states |-> {}, intent |-> 0, pending |-> NoPending]
NoMail == [account |-> 0, deleted |-> FALSE]
NoCookie == [account |-> 0, id |-> 0, live |-> FALSE]
Idle == [phase |-> "idle", account |-> 0, provider |-> "VIPPS", person |-> CHOOSE p \in People : TRUE,
         sub |-> NoSub, phone |-> NoPhone, id |-> 0, login |-> FALSE]
Phases == {"idle", "intent", "link", "confirm", "match", "owned", "rekey", "phone",
           "create", "ensure", "read", "issue", "unlink", "delete", "logout", "remove"}

Live(a) == a \in Accounts /\ account[a].state = "live"
ProvidersOf(a) == {v \in Providers : linked[a][v] # NoSub}
OwnersOf(provider, sub) == {a \in Accounts : linked[a][provider] = sub}
Unlocked(a) == locked[a] = "free"
Used(phone) == phone # NoPhone /\ \E a \in Accounts : Live(a) /\ account[a].phone = phone

(* AccessSessionService and RefreshStrategy: the cookie's id is the one of *)
(* the row.                                                                *)
Valid(b) ==
    /\ Live(cookie[b].account)
    /\ account[cookie[b].account].token # 0
    /\ account[cookie[b].account].token = cookie[b].id
LoggedIn(b) == Valid(b) /\ cookie[b].live

Subs == (People \X {0, 1}) \union {NoSub}
Phones == {PhoneOf[p] : p \in People} \union {NoPhone}
TypeOK ==
    /\ account \in [Accounts -> [state : {"free", "live", "gone"}, person : People,
                                 email : {EmailOf[k] : k \in DOMAIN EmailOf},
                                 phone : Phones, token : 0 .. MaxToken]]
    /\ linked \in [Accounts -> [Providers -> Subs]]
    /\ keys \in {0, 1} /\ mailed \in 0 .. MaxLinks
    /\ links \subseteq [no : 1 .. mailed, account : Accounts, recent : BOOLEAN, valid : BOOLEAN]
    /\ \A a \in Accounts : ~Live(a) => ProvidersOf(a) = {} /\ \A l \in links : l.account # a
    /\ opened \subseteq 1 .. mailed
    /\ mailer \in [Mailers -> [account : {0} \union Accounts, deleted : BOOLEAN]]
    /\ tab \in [Browsers -> [Providers -> {"none", "login", "confirm", "link"}]]
    /\ \A b \in Browsers : /\ session[b].states \subseteq Providers
                           /\ session[b].intent \in {0} \union Accounts
                           /\ session[b].pending.matched \in {0} \union Accounts
                           /\ cookie[b].id \in 0 .. MaxToken
                           /\ request[b].phase \in Phases
    /\ out \subseteq Browsers
    /\ budget \in 0 .. Budget

NoAccount == [state |-> "free", person |-> Idle.person, email |-> EmailOf[<<"VIPPS", Idle.person>>],
              phone |-> NoPhone, token |-> 0]

(* One person may have an account already, with one provider or both, and  *)
(* be logged in at any browsers; another may have one with Google.         *)
Init ==
    /\ keys = 0 /\ links = {} /\ mailed = 0 /\ opened = {}
    /\ locked = [a \in Accounts |-> "free"]
    /\ mailer = [m \in Mailers |-> NoMail]
    /\ at \in Seating
    /\ tab = [b \in Browsers |-> [v \in Providers |-> "none"]]
    /\ session = [b \in Browsers |-> NoSession]
    /\ request = [b \in Browsers |-> Idle]
    /\ out = {}
    /\ budget = Budget
    /\ \E with \in SUBSET Providers, on \in SUBSET Browsers, others \in SUBSET (People \ {Idle.person}) :
          LET Of(a) == CASE a = 1 -> with
                         [] a = 2 /\ with # {} /\ others # {} -> {"GOOGLE"}
                         [] OTHER -> {}
              p(a) == IF a = 1 THEN Idle.person ELSE CHOOSE q \in others : TRUE
          IN
          /\ with = {} => on = {} /\ others = {}
          /\ account = [a \in Accounts |-> IF Of(a) = {} THEN NoAccount ELSE
                [state |-> "live", person |-> p(a),
                 email |-> EmailOf[<<IF "VIPPS" \in Of(a) THEN "VIPPS" ELSE "GOOGLE", p(a)>>],
                 phone |-> IF "VIPPS" \in Of(a) THEN PhoneOf[p(a)] ELSE NoPhone,
                 token |-> IF a = 1 /\ on # {} THEN 1 ELSE 0]]
          /\ linked = [a \in Accounts |-> [v \in Providers |->
                IF v \in Of(a) THEN <<p(a), 0>> ELSE NoSub]]
          /\ cookie = [b \in Browsers |-> IF b \in on
                THEN [account |-> 1, id |-> 1, live |-> TRUE] ELSE NoCookie]

Spend == budget > 0 /\ budget' = budget - 1
Asks(b) == request[b].phase = "idle" /\ Spend
To(b, phase) == request' = [request EXCEPT ![b].phase = phase]
Done(b) == request' = [request EXCEPT ![b] = Idle]

-----------------------------------------------------------------------------
(* The doors.  A plain login regenerates the session; a confirmation does  *)
(* and keeps the parked link; a link writes its intent into the session    *)
(* that is there.  Then the browser is sent to the provider.               *)

Leave(b, provider, door, s) ==
    /\ session' = [session EXCEPT ![b] = [s EXCEPT !.states = @ \union {provider}]]
    /\ tab' = [tab EXCEPT ![b][provider] = door]
    /\ UNCHANGED <<database, keys, at, opened, mailer, cookie, request, out>>

FreshSession(b) == NoSession
StartLogin(b, provider) ==
    /\ Asks(b)
    /\ Leave(b, provider, "login", FreshSession(b))

(* ConfirmLinkGuard: the modal is shown where a link is parked.            *)
StartConfirm(b, provider) ==
    /\ session[b].pending.matched # 0
    /\ Asks(b)
    /\ Leave(b, provider, "confirm", [NoSession EXCEPT !.pending = session[b].pending])

(* LinkIntentGuard: people link only what is theirs.                       *)
StartLink(b, provider) ==
    /\ LoggedIn(b)
    /\ account[cookie[b].account].person = at[b]
    /\ Asks(b)
    /\ Leave(b, provider, "link", [session[b] EXCEPT !.intent = cookie[b].account,
                                                     !.pending = NoPending])

(* The strategy finds the subject's user; without the state of the flow in *)
(* the session the provider's answer is refused.  takeLinkUserId.          *)
Callback(b, provider) ==
    /\ request[b].phase = "idle"
    /\ tab[b][provider] # "none"
    /\ tab' = [tab EXCEPT ![b][provider] = "none"]
    /\ LET p == at[b]
           sub == Sub(provider, p)
           owner == OwnersOf(provider, sub)
           new == [Idle EXCEPT !.provider = provider, !.person = p, !.sub = sub,
                               !.phone = IF provider = "VIPPS" THEN PhoneOf[p] ELSE NoPhone]
           resolved == IF owner = {} THEN new
                       ELSE [new EXCEPT !.account = CHOOSE a \in owner : TRUE]
       IN IF provider \notin session[b].states
          THEN UNCHANGED <<request, session>>
          ELSE /\ session' = [session EXCEPT ![b].states = @ \ {provider}, ![b].intent = 0]
               /\ request' = [request EXCEPT ![b] =
                    IF session[b].intent # 0
                    THEN [resolved EXCEPT !.phase = "intent", !.id = session[b].intent]
                    ELSE [resolved EXCEPT !.phase = IF owner = {} THEN "match" ELSE "confirm"]]
    /\ UNCHANGED <<database, people, opened, mailer, cookie, out>>

DestroySession(b) == session' = [session EXCEPT ![b] = NoSession]

(* linkIntentOutcome: the access cookie has to be the intent's (req.id),   *)
(* and the identity new.                                                   *)
LinkIntentOutcome(b) ==
    LET r == request[b] IN
    /\ r.phase = "intent"
    /\ IF LoggedIn(b) /\ cookie[b].account = r.id /\ r.account = 0
       THEN request' = [request EXCEPT ![b] = [r EXCEPT !.phase = "link", !.account = r.id]]
       ELSE Done(b)
    /\ DestroySession(b)
    /\ UNCHANGED <<database, people, opened, mailer, tab, cookie, out>>

(* confirmPendingLink.  The parked identity is linked when the one who     *)
(* logs in is the one it waits for; the login goes on in every case.       *)
ConfirmPendingLink(b) ==
    LET r == request[b]
        pending == session[b].pending
    IN
    /\ r.phase = "confirm"
    /\ request' = [request EXCEPT ![b] =
         IF pending.matched = r.account /\ ~pending.late
         THEN [r EXCEPT !.phase = "link", !.login = TRUE, !.provider = pending.provider,
                        !.sub = pending.sub, !.phone = pending.phone]
         ELSE [r EXCEPT !.phase = "ensure", !.login = TRUE]]
    /\ DestroySession(b)
    /\ UNCHANGED <<database, people, opened, mailer, tab, cookie, out>>

(* linkProvider: the row, if the unique indexes allow, then the phone of a *)
(* Vipps profile onto an account that has none, unless it is somebody's.   *)
(* A user that is gone is an error, and no login.                          *)
LinkProvider(b) ==
    LET r == request[b]
        a == r.account
        free == linked[a][r.provider] = NoSub /\ OwnersOf(r.provider, r.sub) = {}
    IN
    /\ r.phase = "link"
    /\ Unlocked(a)
    /\ IF Live(a)
       THEN /\ linked' = IF free THEN [linked EXCEPT ![a][r.provider] = r.sub] ELSE linked
            /\ account' = IF free /\ account[a].phone = NoPhone /\ ~Used(r.phone)
                          THEN [account EXCEPT ![a].phone = r.phone] ELSE account
            /\ IF r.login THEN To(b, "ensure") ELSE Done(b)
       ELSE Done(b) /\ UNCHANGED <<account, linked>>
    /\ UNCHANGED <<links, mailed, locked, people, opened, mailer, browsers, out>>

-----------------------------------------------------------------------------
(* loginNewIdentity.                                                       *)

FindByEmail(b) ==
    LET r == request[b]
        owner == {a \in Accounts : Live(a) /\ account[a].email = EmailOf[<<r.provider, r.person>>]}
    IN
    /\ r.phase = "match"
    /\ request' = [request EXCEPT ![b] =
         IF owner = {} THEN [r EXCEPT !.phase = "phone"]
         ELSE [r EXCEPT !.phase = "owned", !.account = CHOOSE a \in owner : TRUE]]
    /\ UNCHANGED <<database, people, opened, mailer, browsers, out>>

(* getLinkedProviders: new keys at Vipps, a dead end, or a link to park.   *)
GetLinkedProviders(b) ==
    LET r == request[b]
        providers == ProvidersOf(r.account)
    IN
    /\ r.phase = "owned"
    /\ CASE r.provider = "VIPPS" /\ "VIPPS" \in providers ->
              To(b, "rekey") /\ UNCHANGED session
         [] (r.provider = "GOOGLE" /\ "GOOGLE" \in providers) \/ providers = {} ->
              Done(b) /\ DestroySession(b)
         [] OTHER ->
              /\ session' = [session EXCEPT ![b].pending =
                    [provider |-> r.provider, sub |-> r.sub, matched |-> r.account,
                     phone |-> r.phone, late |-> FALSE]]
              /\ Done(b)
    /\ UNCHANGED <<database, people, opened, mailer, tab, cookie, out>>

(* updateProviderSub fails when the row is gone or the sub is taken.       *)
UpdateProviderSub(b) ==
    LET r == request[b] IN
    /\ r.phase = "rekey"
    /\ IF linked[r.account]["VIPPS"] # NoSub /\ OwnersOf("VIPPS", r.sub) \subseteq {r.account}
       THEN /\ linked' = [linked EXCEPT ![r.account]["VIPPS"] = r.sub]
            /\ request' = [request EXCEPT ![b].phase = "ensure", ![b].login = TRUE]
            /\ DestroySession(b)
       ELSE Done(b) /\ UNCHANGED <<linked, session>>
    /\ UNCHANGED <<account, links, mailed, locked, people, opened, mailer, tab, cookie, out>>

FindByPhone(b) ==
    LET r == request[b] IN
    /\ r.phase = "phone"
    /\ IF Used(r.phone) THEN Done(b) /\ DestroySession(b)
                        ELSE To(b, "create") /\ UNCHANGED session
    /\ UNCHANGED <<database, people, opened, mailer, tab, cookie, out>>

(* UsersService.create: its own checks, and the unique indexes for what    *)
(* came since.                                                             *)
Create(b) ==
    LET r == request[b]
        email == EmailOf[<<r.provider, r.person>>]
        taken == \/ \E a \in Accounts : Live(a) /\ account[a].email = email
                 \/ Used(r.phone)
                 \/ OwnersOf(r.provider, r.sub) # {}
        next == {a \in Accounts : account[a].state = "free"}
        a == CHOOSE i \in next : TRUE
    IN
    /\ r.phase = "create"
    /\ IF taken \/ next = {}     \* bound: MaxAccounts
       THEN Done(b) /\ UNCHANGED <<account, linked, session>>
       ELSE /\ account' = [account EXCEPT ![a] = [state |-> "live", person |-> r.person,
                                email |-> email, phone |-> r.phone, token |-> 0]]
            /\ linked' = [linked EXCEPT ![a][r.provider] = r.sub]
            /\ request' = [request EXCEPT ![b].phase = "ensure", ![b].account = a, ![b].login = TRUE]
            /\ DestroySession(b)
    /\ UNCHANGED <<links, mailed, locked, people, opened, mailer, tab, cookie, out>>

-----------------------------------------------------------------------------
(* ensureRefreshTokenId: a conditional update, then the row, from which    *)
(* the cookies are made.                                                   *)

(* Mutant: an id is made for every login.                                  *)
EnsureFresh(b) ==
    LET a == request[b].account IN
    /\ request[b].phase = "ensure"
    /\ Unlocked(a)
    /\ account' = IF Live(a) /\ account[a].token < MaxToken
                  THEN [account EXCEPT ![a].token = @ + 1] ELSE account
    /\ To(b, "read")
    /\ UNCHANGED <<linked, links, mailed, locked, people, opened, mailer, browsers, out>>
EnsureRefreshTokenId(b) ==
    LET a == request[b].account IN
    /\ request[b].phase = "ensure"
    /\ Unlocked(a)
    /\ account' = IF Live(a) /\ account[a].token = 0
                  THEN [account EXCEPT ![a].token = 1] ELSE account
    /\ To(b, "read")
    /\ UNCHANGED <<linked, links, mailed, locked, people, opened, mailer, browsers, out>>

ReadUser(b) ==
    LET a == request[b].account IN
    /\ request[b].phase = "read"
    /\ IF Live(a) THEN request' = [request EXCEPT ![b].phase = "issue", ![b].id = account[a].token]
                  ELSE Done(b)
    /\ UNCHANGED <<database, people, opened, mailer, browsers, out>>

(* Mutant: the cookies are made from the row as it is by then.             *)
IssueCurrent(b) ==
    LET r == request[b] IN
    /\ r.phase = "issue"
    /\ cookie' = [cookie EXCEPT ![b] = [account |-> r.account,
                     id |-> account[r.account].token, live |-> TRUE]]
    /\ out' = IF r.login THEN out \ {b} ELSE out
    /\ Done(b)
    /\ UNCHANGED <<database, people, opened, mailer, tab, session>>
IssueSessionCookies(b) ==
    LET r == request[b] IN
    /\ r.phase = "issue"
    /\ cookie' = [cookie EXCEPT ![b] = [account |-> r.account, id |-> r.id, live |-> TRUE]]
    /\ out' = IF r.login THEN out \ {b} ELSE out
    /\ Done(b)
    /\ UNCHANGED <<database, people, opened, mailer, tab, session>>

(* RefreshStrategy.validate.                                               *)
Refresh(b) ==
    /\ Valid(b)
    /\ Asks(b)
    /\ request' = [request EXCEPT ![b] = [Idle EXCEPT !.phase = "issue",
                      !.account = cookie[b].account, !.id = cookie[b].id]]
    /\ UNCHANGED <<database, keys, at, opened, mailer, browsers, out>>

-----------------------------------------------------------------------------
(* What a session may ask for.                                             *)

Ask(b, phase, provider) ==
    /\ LoggedIn(b)
    /\ Asks(b)
    /\ request' = [request EXCEPT ![b] = [Idle EXCEPT !.phase = phase, !.provider = provider,
                      !.account = cookie[b].account]]
    /\ UNCHANGED <<database, keys, at, opened, mailer, browsers, out>>

(* unlinkProvider: lock the user, count, then delete.                      *)
Release(a) == locked' = [locked EXCEPT ![a] = "free"]

(* Mutant: without the row lock.                                           *)
UnlinkUnlocked(b) ==
    LET a == request[b].account IN
    /\ request[b].phase = "unlink"
    /\ IF Cardinality(ProvidersOf(a)) > 1 THEN To(b, "delete") ELSE Done(b)
    /\ UNCHANGED <<database, people, opened, mailer, browsers, out>>
(* Mutant: the refusal does not end the transaction.                       *)
UnlinkHeld(b) ==
    LET a == request[b].account IN
    /\ request[b].phase = "unlink"
    /\ Unlocked(a)
    /\ locked' = [locked EXCEPT ![a] = "held"]
    /\ IF Cardinality(ProvidersOf(a)) > 1 THEN To(b, "delete") ELSE Done(b)
    /\ UNCHANGED <<account, linked, links, mailed, people, opened, mailer, browsers, out>>
UnlinkCount(b) ==
    LET a == request[b].account IN
    /\ request[b].phase = "unlink"
    /\ Unlocked(a)
    /\ IF Cardinality(ProvidersOf(a)) > 1
       THEN locked' = [locked EXCEPT ![a] = "held"] /\ To(b, "delete")
       ELSE Done(b) /\ UNCHANGED locked
    /\ UNCHANGED <<account, linked, links, mailed, people, opened, mailer, browsers, out>>

UnlinkDelete(b) ==
    LET r == request[b] IN
    /\ r.phase = "delete"
    /\ linked' = [linked EXCEPT ![r.account][r.provider] = NoSub]
    /\ Release(r.account)
    /\ Done(b)
    /\ UNCHANGED <<account, links, mailed, people, opened, mailer, browsers, out>>

(* logout: rotateRefreshTokenId, then this browser's cookies.  A user that *)
(* is gone is an error, and the cookies stay.                              *)
Logout(b) ==
    LET a == request[b].account
        here == {c \in Browsers : \/ cookie[c].account = a
                                  \/ /\ request[c].phase = "issue" /\ ~request[c].login
                                     /\ request[c].account = a}
    IN
    /\ request[b].phase = "logout"
    /\ Unlocked(a)
    /\ IF Live(a) /\ account[a].token < MaxToken    \* bound: MaxToken
       THEN /\ account' = [account EXCEPT ![a].token = @ + 1]
            /\ cookie' = [cookie EXCEPT ![b] = NoCookie]
            /\ out' = out \union here
       ELSE UNCHANGED <<account, cookie, out>>
    /\ Done(b)
    /\ UNCHANGED <<linked, links, mailed, locked, people, opened, mailer, tab, session>>

(* remove: the arranger, and by cascade the user, its providers and links. *)
DeleteUser(b) ==
    LET a == request[b].account IN
    /\ request[b].phase = "remove"
    /\ Unlocked(a)
    /\ IF Live(a)
       THEN /\ account' = [account EXCEPT ![a].state = "gone"]
            /\ linked' = [linked EXCEPT ![a] = [v \in Providers |-> NoSub]]
            /\ links' = {l \in links : l.account # a}
            /\ cookie' = [cookie EXCEPT ![b] = NoCookie]
       ELSE UNCHANGED <<account, linked, links, cookie>>
    /\ Done(b)
    /\ UNCHANGED <<mailed, locked, people, opened, mailer, tab, session, out>>

-----------------------------------------------------------------------------
(* EmailLoginService.                                                      *)

(* requestLink: the user is locked and a recent link looked for.           *)
LookForRecent(m, a) ==
    /\ mailer[m].account = 0
    /\ Live(a) /\ Unlocked(a)
    /\ mailed < MaxLinks
    /\ Spend
    /\ IF \E l \in links : l.account = a /\ l.recent
       THEN UNCHANGED <<mailer, locked>>
       ELSE /\ mailer' = [mailer EXCEPT ![m].account = a]
            /\ locked' = [locked EXCEPT ![a] = "held"]
    /\ UNCHANGED <<account, linked, links, mailed, keys, at, opened, browsers, request, out>>

(* Older links are deleted, the new one is written and mailed.  Nothing    *)
(* undoes the transaction, so its first statement shows at once.           *)
DeleteOlder(m) ==
    /\ mailer[m].account # 0 /\ ~mailer[m].deleted
    /\ links' = {l \in links : l.account # mailer[m].account}
    /\ mailer' = [mailer EXCEPT ![m].deleted = TRUE]
    /\ UNCHANGED <<account, linked, mailed, locked, people, opened, browsers, request, out>>

CreateLink(m) ==
    LET a == mailer[m].account IN
    /\ mailer[m].deleted
    /\ IF mailed < MaxLinks      \* bound: MaxLinks
       THEN /\ mailed' = mailed + 1
            /\ links' = links \union
                 {[no |-> mailed + 1, account |-> a, recent |-> TRUE, valid |-> TRUE]}
       ELSE UNCHANGED <<mailed, links>>
    /\ Release(a)
    /\ mailer' = [mailer EXCEPT ![m] = NoMail]
    /\ UNCHANGED <<account, linked, people, opened, browsers, request, out>>

(* consume: one statement deletes the link, whether or not it still works. *)
Verify(b, no) ==
    /\ Asks(b)
    /\ no <= mailed
    /\ \E l \in links :
          /\ l.no = no
          /\ account[l.account].person = at[b]
          /\ links' = links \ {l}
          /\ IF l.valid
             THEN /\ request' = [request EXCEPT ![b] = [Idle EXCEPT !.phase = "ensure",
                                    !.account = l.account, !.login = TRUE]]
                  /\ opened' = opened \union {no}
             ELSE UNCHANGED <<request, opened>>
    /\ UNCHANGED <<account, linked, mailed, locked, keys, at, mailer, browsers, out>>

LinkAges(l) ==
    /\ l.recent \/ l.valid
    /\ Spend
    /\ links' = (links \ {l}) \union
                   {IF l.recent THEN [l EXCEPT !.recent = FALSE] ELSE [l EXCEPT !.valid = FALSE]}
    /\ UNCHANGED <<account, linked, mailed, locked, keys, at, opened, mailer, browsers, request, out>>

-----------------------------------------------------------------------------
(* The world.                                                              *)

(* The next person sits down, and finds no tab of the one before.          *)
SwitchPerson(b, p) ==
    /\ Asks(b) /\ p # at[b]
    /\ at' = [at EXCEPT ![b] = p]
    /\ tab' = [tab EXCEPT ![b] = [v \in Providers |-> "none"]]
    /\ UNCHANGED <<database, keys, opened, mailer, session, cookie, request, out>>

RotateKeys ==
    /\ keys = 0 /\ Spend
    /\ keys' = 1
    /\ UNCHANGED <<database, at, opened, mailer, browsers, request, out>>

AccessExpires(b) ==
    /\ cookie[b].live /\ Asks(b)
    /\ cookie' = [cookie EXCEPT ![b].live = FALSE]
    /\ UNCHANGED <<database, keys, at, opened, mailer, tab, session, request, out>>

(* Ten minutes: the session, or only the parked link in a rolling one.     *)
SessionExpires(b) ==
    /\ session[b] # NoSession /\ Asks(b)
    /\ \/ DestroySession(b)
       \/ /\ session[b].pending.matched # 0 /\ ~session[b].pending.late
          /\ session' = [session EXCEPT ![b].pending.late = TRUE]
    /\ UNCHANGED <<database, keys, at, opened, mailer, tab, cookie, request, out>>

Flow(b) ==
    \/ \E v \in Providers : Callback(b, v)
    \/ LinkIntentOutcome(b) \/ ConfirmPendingLink(b) \/ LinkProvider(b)
    \/ FindByEmail(b) \/ GetLinkedProviders(b) \/ UpdateProviderSub(b)
    \/ FindByPhone(b) \/ Create(b)
    \/ EnsureRefreshTokenId(b) \/ ReadUser(b) \/ IssueSessionCookies(b)
    \/ UnlinkCount(b) \/ UnlinkDelete(b) \/ Logout(b) \/ DeleteUser(b)

Start(b) ==
    \/ \E v \in Providers : \/ StartLogin(b, v) \/ StartConfirm(b, v) \/ StartLink(b, v)
                            \/ Ask(b, "unlink", v)
    \/ Refresh(b) \/ Ask(b, "logout", "VIPPS") \/ Ask(b, "remove", "VIPPS")
    \/ \E no \in 1 .. MaxLinks : Verify(b, no)
    \/ \E p \in People : SwitchPerson(b, p)
    \/ AccessExpires(b) \/ SessionExpires(b)

(* What the server does by itself once it was asked.                       *)
Work == \/ \E b \in Browsers : request[b].phase # "idle" /\ Flow(b)
        \/ \E m \in Mailers : DeleteOlder(m) \/ CreateLink(m)

Next ==
    \/ \E b \in Browsers : Flow(b) \/ Start(b)
    \/ \E m \in Mailers : \/ DeleteOlder(m) \/ CreateLink(m)
                          \/ \E a \in Accounts : LookForRecent(m, a)
    \/ \E l \in links : LinkAges(l)
    \/ RotateKeys

Spec == Init /\ [][Next]_vars
FairSpec == Spec /\ WF_vars(Work)

-----------------------------------------------------------------------------
(* There is no password: the provider rows are the way into an account, so *)
(* one always stays, whatever unlinks, links and new keys meet.            *)
AlwaysALogin == \A a \in Accounts : Live(a) => ProvidersOf(a) # {}

(* Linking happens to those who asked for it.  On a browser that people    *)
(* share, nobody's login ends up as a provider of somebody else's account, *)
(* although intents, parked links and cookies are left behind.             *)
OwnIdentities ==
    \A a \in Accounts, v \in Providers :
       linked[a][v] # NoSub => linked[a][v][1] = account[a].person

(* Logging out ends every session of the account at once, a refresh that   *)
(* is under way included; only a login lets such a browser in again.       *)
RevokedStaysOut == \A b \in out : ~Valid(b)

(* Of the links mailed to somebody only one works, and only once.          *)
LoginLinksWorkOnce ==
    /\ \A k, l \in links : k.account = l.account => k = l
    /\ \A l \in links : l.no \notin opened

(* A login on one device does not end the session on another: a session    *)
(* ends by a logout, with its account, or by what its own browser asks.    *)
SessionsSurviveLogins ==
    [][\A b \in Browsers : Valid(b) /\ cookie'[b] = cookie[b] /\ ~Valid(b)' =>
          \E c \in Browsers : request[c].phase \in {"logout", "remove"} /\ request'[c] = Idle]_vars

(* Accounts can be logged in to, by the person they belong to and by no    *)
(* other, and nothing is left of the ones that are deleted.                *)
AccountsInv == TypeOK /\ AlwaysALogin /\ OwnIdentities

(* What was revoked or used lets nobody in: cookies after a logout, links  *)
(* that were opened or replaced.                                           *)
RevokedInv == RevokedStaysOut /\ LoginLinksWorkOnce

(* Every request is answered and every lock on a user given back, as long  *)
(* as the server goes on with what it was asked.                           *)
RequestsEnd ==
    []<>((\A b \in Browsers : request[b].phase = "idle") /\ (\A a \in Accounts : Unlocked(a)))
=============================================================================
