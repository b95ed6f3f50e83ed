---------------------------- MODULE LoginProofs ----------------------------
(***************************************************************************)
(* Accounts keep a login and belong to their person, and what was revoked  *)
(* or used lets nobody in, for any people, browsers and accounts.          *)
(***************************************************************************)
EXTENDS Logins, FiniteSetTheorems, TLAPS

OneSubs == People \X {0, 1}
Account == [state : {"free", "live", "gone"}, person : People,
            email : {EmailOf[k] : k \in DOMAIN EmailOf}, phone : Phones, token : 0 .. MaxToken]
RequestRecord == [phase : Phases, account : {0} \union Accounts, provider : Providers,
                  person : People, sub : Subs, phone : Phones, id : Nat, login : BOOLEAN]
Pending == [provider : Providers, sub : Subs, matched : {0} \union Accounts, phone : Phones,
            late : BOOLEAN]
Session == [states : SUBSET Providers, intent : {0} \union Accounts, pending : Pending]
Cookie == [account : {0} \union Accounts, id : 0 .. MaxToken, live : BOOLEAN]
Doors == {"none", "login", "confirm", "link"}

BrowsersTyped ==
    /\ tab \in [Browsers -> [Providers -> Doors]]
    /\ at \in [Browsers -> People]
    /\ session \in [Browsers -> Session]
    /\ cookie \in [Browsers -> Cookie]
    /\ request \in [Browsers -> RequestRecord]
    /\ out \subseteq Browsers
    /\ keys \in {0, 1} /\ budget \in 0 .. Budget

DatabaseTyped ==
    /\ account \in [Accounts -> Account]
    /\ linked \in [Accounts -> [Providers -> Subs]]
    /\ links \subseteq [no : 1 .. mailed, account : Accounts, recent : BOOLEAN, valid : BOOLEAN]
    /\ \A a \in Accounts : ~Live(a) => ProvidersOf(a) = {} /\ \A l \in links : l.account # a
    /\ mailed \in 0 .. MaxLinks /\ opened \subseteq 1 .. mailed
    /\ mailer \in [Mailers -> [account : {0} \union Accounts, deleted : BOOLEAN]]
    /\ locked \in [Accounts -> {"free", "held"}]

(* An account that was made, and one that a subject's person has.          *)
Taken(a) == a \in Accounts /\ account[a].state # "free"
Belongs(sub, a) == Taken(a) /\ sub \in OneSubs /\ sub[1] = account[a].person

EmailsTheirs ==
    \A a \in Accounts :
        Live(a) => \E v \in Providers : account[a].email = EmailOf[<<v, account[a].person>>]

AccountsOK == AlwaysALogin /\ OwnIdentities /\ EmailsTheirs

LinksOK == LoginLinksWorkOnce /\ \A k, l \in links : k.no = l.no => k = l

(* Who waits at a provider is the person whose account the link is for.    *)
Intended(b) ==
    session[b].intent # 0 =>
        /\ Taken(session[b].intent)
        /\ (\E v \in Providers : tab[b][v] # "none") => account[session[b].intent].person = at[b]

(* An identity is parked for an account of its own person.                 *)
Parked(b) ==
    session[b].pending.matched # 0 => Belongs(session[b].pending.sub, session[b].pending.matched)

(* What a request knows at each step, and of which cookie it is.           *)
Knows(r, k) ==
    /\ r.phase \in {"intent", "confirm", "match", "owned", "rekey", "phone", "create"} =>
          r.sub \in OneSubs /\ r.sub[1] = r.person
    /\ r.phase = "intent" => Belongs(r.sub, r.id)
    /\ r.phase \in {"link", "owned", "rekey"} => Belongs(r.sub, r.account)
    /\ r.phase \in {"confirm", "unlink", "delete", "logout", "remove"} => r.account \in Accounts
    /\ r.phase \in {"ensure", "read"} => r.login
    /\ r.phase = "issue" => Taken(r.account) /\ r.id \in 0 .. account[r.account].token
    /\ r.phase = "issue" /\ ~r.login => k.account = r.account /\ k.id = r.id
Asked(b) == Knows(request[b], cookie[b])

(* A cookie is no younger than the token of its account.                   *)
Kept(b) ==
    cookie[b].account # 0 =>
        Taken(cookie[b].account) /\ cookie[b].id <= account[cookie[b].account].token

BrowserOK(b) == Intended(b) /\ Parked(b) /\ Asked(b) /\ Kept(b) /\ (b \in out => ~Valid(b))

(* A row that is locked has one holder, whose count or whose look for      *)
(* older links still holds.                                                *)
Deleting(b) == request[b].phase = "delete"
HoldersOK ==
    /\ \A b \in Browsers : Deleting(b) =>
          /\ locked[request[b].account] = "held"
          /\ \A v \in Providers : linked[request[b].account][v] # NoSub
    /\ \A b, c \in Browsers :
          Deleting(b) /\ Deleting(c) /\ request[b].account = request[c].account => b = c
    /\ \A m \in Mailers : mailer[m].account # 0 =>
          /\ Live(mailer[m].account) /\ locked[mailer[m].account] = "held"
          /\ \A b \in Browsers : Deleting(b) => request[b].account # mailer[m].account
          /\ \A n \in Mailers : mailer[n].account = mailer[m].account => n = m
    /\ \A m \in Mailers : mailer[m].deleted =>
          mailer[m].account # 0 /\ \A l \in links : l.account # mailer[m].account

LoginsInv ==
    /\ BrowsersTyped /\ DatabaseTyped /\ AccountsOK /\ LinksOK /\ HoldersOK
    /\ \A b \in Browsers : BrowserOK(b)

LEMMA NumbersOfAccounts == 0 \notin Accounts /\ Accounts \subseteq Nat
BY LoginsAssumption DEF Accounts

LEMMA InvTells ==
    ASSUME LoginsInv
    PROVE  AccountsInv /\ RevokedInv
<1>1. TypeOK
  BY DEF LoginsInv, BrowsersTyped, DatabaseTyped, TypeOK, Account, Session, Pending, Cookie,
         RequestRecord, Doors
<1>2. AccountsInv
  BY <1>1 DEF LoginsInv, AccountsOK, AccountsInv
<1>3. RevokedStaysOut
  BY DEF LoginsInv, BrowsersTyped, BrowserOK, RevokedStaysOut
<1>4. LoginLinksWorkOnce
  BY DEF LoginsInv, LinksOK
<1> QED
  BY <1>2, <1>3, <1>4 DEF RevokedInv

(* Accounts are not made twice, change hands or get older tokens.          *)
Grows ==
    \A a \in Accounts : Taken(a) =>
        /\ Taken(a)' /\ account'[a].person = account[a].person
        /\ account'[a].email = account[a].email
        /\ account[a].token <= account'[a].token
        /\ Live(a)' => Live(a)

(* What a browser has stays in order, whatever others do and if it loses   *)
(* its session or its cookies.                                             *)
LEMMA BrowserStays ==
    ASSUME LoginsInv, Grows, DatabaseTyped', BrowsersTyped', NEW c \in Browsers,
           session'[c] \in {session[c], NoSession}, tab'[c] = tab[c],
           at'[c] = at[c], cookie'[c] \in {cookie[c], NoCookie}, c \in out' => c \in out \/ ~Valid(c)'
    PROVE  Intended(c)' /\ Parked(c)' /\ Kept(c)' /\ (c \in out' => ~Valid(c)')
<1>0. BrowserOK(c) /\ request[c] \in RequestRecord /\ cookie[c] \in Cookie /\ session[c] \in Session
      /\ \A a \in Accounts : account[a].token \in Nat /\ account'[a].token \in Nat
  BY LoginsAssumption DEF LoginsInv, BrowsersTyped, DatabaseTyped, Account
<1>1. Intended(c)' /\ Parked(c)'
  <2>1. CASE session'[c] = session[c]
    BY <2>1, <1>0 DEF BrowserOK, Intended, Parked, Belongs, Grows, Taken
  <2>2. CASE session'[c] = NoSession
    BY <2>2 DEF Intended, Parked, NoSession, NoPending
  <2> QED
    BY <2>1, <2>2
<1>3. Kept(c)'
  <2>1. CASE cookie'[c] = cookie[c]
    BY <2>1, <1>0, LoginsAssumption DEF BrowserOK, Kept, Grows, Taken, Cookie
  <2>2. CASE cookie'[c] = NoCookie
    BY <2>2 DEF Kept, NoCookie
  <2> QED
    BY <2>1, <2>2
<1>5. c \in out' => ~Valid(c)'
  <2> SUFFICES ASSUME c \in out, ~Valid(c), Valid(c)' PROVE FALSE
    BY <1>0 DEF BrowserOK
  <2>0. cookie'[c] = cookie[c]
    BY NumbersOfAccounts DEF Valid, Live, NoCookie
  <2>a. PICK a \in Accounts : a = cookie[c].account
    BY <2>0 DEF Valid, Live
  <2>1. Live(a)' /\ account'[a].token # 0 /\ account'[a].token = cookie[c].id
    BY <2>0, <2>a DEF Valid, Live
  <2>2. Taken(a) /\ cookie[c].id <= account[a].token
    BY <2>a, <1>0, NumbersOfAccounts DEF BrowserOK, Kept
  <2>3. account[a].token <= account'[a].token /\ Live(a)
    BY <2>1, <2>2 DEF Grows, Live
  <2>4. account[a].token = cookie[c].id /\ account[a].token # 0
    BY <2>1, <2>2, <2>3, <1>0, LoginsAssumption DEF Cookie
  <2> QED
    BY <2>a, <2>3, <2>4 DEF Valid
<1> QED
  BY <1>1, <1>3, <1>5

LEMMA OthersKept ==
    ASSUME LoginsInv, Grows, DatabaseTyped', BrowsersTyped', NEW c \in Browsers,
           request'[c] = request[c], session'[c] = session[c], tab'[c] = tab[c],
           at'[c] = at[c], cookie'[c] = cookie[c], c \in out' => c \in out \/ ~Valid(c)'
    PROVE  BrowserOK(c)'
<1>0. BrowserOK(c) /\ request[c] \in RequestRecord
      /\ \A a \in Accounts : account[a].token \in Nat /\ account'[a].token \in Nat
  BY LoginsAssumption DEF LoginsInv, BrowsersTyped, DatabaseTyped, Account
<1>1. Intended(c)' /\ Parked(c)' /\ Kept(c)' /\ (c \in out' => ~Valid(c)')
  BY BrowserStays
<1>4. Asked(c)'
  <2>1. Asked(c)
    BY <1>0 DEF BrowserOK
  <2>2. \A sub, a : Belongs(sub, a) => Belongs(sub, a)'
    BY DEF Belongs, Grows, Taken
  <2> QED
    BY <2>1, <2>2, <1>0 DEF Asked, Knows, Belongs, Grows, Taken, RequestRecord
<1> QED
  BY <1>1, <1>4 DEF BrowserOK

-----------------------------------------------------------------------------
(* Steps of one browser.                                                   *)

OthersStand(b) ==
    \A c \in Browsers \ {b} :
        /\ request'[c] = request[c] /\ session'[c] = session[c] /\ tab'[c] = tab[c]
        /\ at'[c] = at[c] /\ cookie'[c] = cookie[c]
        /\ c \in out' => c \in out \/ ~Valid(c)'

Moves(b) ==
    /\ UNCHANGED <<database, opened, mailer>>
    /\ OthersStand(b)
    /\ BrowsersTyped'
    /\ ~Deleting(b)'
    /\ BrowserOK(b)'

LEMMA MoveKeeps ==
    ASSUME LoginsInv, NEW b \in Browsers, Moves(b)
    PROVE  LoginsInv'
<1>1. DatabaseTyped' /\ AccountsOK' /\ LinksOK'
  BY DEF LoginsInv, Moves, database, DatabaseTyped, AccountsOK, AlwaysALogin, OwnIdentities,
         EmailsTheirs, LinksOK, LoginLinksWorkOnce, Live, ProvidersOf
<1>2. HoldersOK'
  BY DEF LoginsInv, Moves, OthersStand, database, HoldersOK, Deleting, Live
<1>3. Grows
  <2>1. \A a \in Accounts : account[a].token \in Nat
    BY LoginsAssumption DEF LoginsInv, DatabaseTyped, Account
  <2> QED
    BY <2>1 DEF Moves, database, Grows, Taken, Live
<1>4. ASSUME NEW c \in Browsers PROVE BrowserOK(c)'
  BY <1>1, <1>3, OthersKept DEF Moves, OthersStand
<1> QED
  BY <1>1, <1>2, <1>4 DEF LoginsInv, Moves

(* A step of the database keeps the same of the browsers that stand by.    *)
Writes ==
    /\ Grows /\ DatabaseTyped' /\ AccountsOK' /\ LinksOK' /\ HoldersOK'

LEMMA WriteKeeps ==
    ASSUME LoginsInv, NEW b \in Browsers, Writes, BrowsersTyped', OthersStand(b), BrowserOK(b)'
    PROVE  LoginsInv'
<1>1. ASSUME NEW c \in Browsers PROVE BrowserOK(c)'
  BY OthersKept DEF Writes, OthersStand
<1> QED
  BY <1>1 DEF LoginsInv, Writes

LEMMA QuietWriteKeeps ==
    ASSUME LoginsInv, Writes, keys' \in {0, 1}, budget' \in 0 .. Budget,
           UNCHANGED <<browsers, at, request, out>>
    PROVE  LoginsInv'
<1>0. BrowsersTyped'
  BY DEF LoginsInv, BrowsersTyped, browsers
<1>1. ASSUME NEW c \in Browsers PROVE BrowserOK(c)'
  BY <1>0, OthersKept DEF Writes, browsers
<1> QED
  BY <1>0, <1>1 DEF LoginsInv, Writes

(* What the browser has whose request writes: it may lose its session or   *)
(* its cookies, and may log others out.                                    *)
WroteBy(b, q) ==
    /\ request' = [request EXCEPT ![b] = q] /\ q \in RequestRecord
    /\ \/ q.phase = "idle"
       \/ q.phase \in {"ensure", "read"} /\ q.login
       \/ q.phase = "delete" /\ q.account \in Accounts
    /\ session' = session \/ session' = [session EXCEPT ![b] = NoSession]
    /\ cookie' = cookie \/ cookie' = [cookie EXCEPT ![b] = NoCookie]
    /\ UNCHANGED <<keys, at, tab>> /\ budget' \in 0 .. Budget
    /\ out' \subseteq Browsers /\ \A c \in out' : c \in out \/ ~Valid(c)'

LEMMA WroteKeeps ==
    ASSUME LoginsInv, NEW b \in Browsers, NEW q, WroteBy(b, q), Writes
    PROVE  LoginsInv'
<1>0. NoSession \in Session /\ NoCookie \in Cookie
  BY LoginsAssumption DEF NoSession, NoPending, Session, Pending, Providers, Subs, Phones, NoCookie, Cookie
<1>1. BrowsersTyped'
  BY <1>0 DEF WroteBy, LoginsInv, BrowsersTyped
<1>2. OthersStand(b)
  BY DEF WroteBy, LoginsInv, BrowsersTyped, OthersStand
<1>3. request'[b] = q /\ session'[b] \in {session[b], NoSession} /\ cookie'[b] \in {cookie[b], NoCookie}
      /\ tab'[b] = tab[b] /\ at'[b] = at[b] /\ (b \in out' => b \in out \/ ~Valid(b)')
  BY DEF WroteBy, LoginsInv, BrowsersTyped
<1>4. Intended(b)' /\ Parked(b)' /\ Kept(b)' /\ (b \in out' => ~Valid(b)')
  BY <1>1, <1>3, BrowserStays DEF Writes
<1>5. Asked(b)'
  BY <1>3 DEF WroteBy, Asked, Knows
<1> QED
  BY <1>1, <1>2, <1>4, <1>5, WriteKeeps DEF BrowserOK

-----------------------------------------------------------------------------
(* What the browsers' records become.                                      *)

LEMMA IdleTyped ==
    /\ Idle \in RequestRecord /\ Idle.phase = "idle" /\ Idle.account = 0 /\ Idle.login = FALSE
    /\ Idle.person \in People /\ Idle.sub = NoSub /\ Idle.phone = NoPhone /\ Idle.id = 0
    /\ Idle.provider = "VIPPS"
<1>1. (CHOOSE p \in People : TRUE) \in People
  BY LoginsAssumption
<1> QED
  BY <1>1 DEF Idle, RequestRecord, Phases, Providers, Subs, Phones

LEMMA NothingParked ==
    /\ NoSession \in Session /\ NoPending \in Pending
    /\ NoSession.intent = 0 /\ NoSession.pending = NoPending /\ NoSession.states = {}
    /\ NoPending.matched = 0
BY DEF NoSession, NoPending, Session, Pending, Providers, Subs, Phones

LEMMA NoCookieTyped == NoCookie \in Cookie /\ NoCookie.account = 0 /\ NoCookie.id = 0
BY LoginsAssumption DEF NoCookie, Cookie

LEMMA SessionLeaves ==
    ASSUME NEW s \in Session, NEW v \in Providers
    PROVE  /\ [s EXCEPT !.states = @ \union {v}] \in Session
           /\ [s EXCEPT !.states = @ \union {v}].intent = s.intent
           /\ [s EXCEPT !.states = @ \union {v}].pending = s.pending
BY DEF Session

LEMMA SessionPending ==
    ASSUME NEW s \in Session, NEW q \in Pending
    PROVE  /\ [s EXCEPT !.pending = q] \in Session
           /\ [s EXCEPT !.pending = q].intent = s.intent
           /\ [s EXCEPT !.pending = q].pending = q
BY DEF Session

LEMMA PhaseChanged ==
    ASSUME NEW r \in RequestRecord, NEW f \in Phases
    PROVE  LET n == [r EXCEPT !.phase = f]
           IN /\ n \in RequestRecord /\ n.phase = f /\ n.account = r.account
              /\ n.sub = r.sub /\ n.person = r.person /\ n.id = r.id /\ n.login = r.login
              /\ n.provider = r.provider /\ n.phone = r.phone
BY DEF RequestRecord

-----------------------------------------------------------------------------
(* Steps that leave the cookies alone.                                     *)

LEMMA CookieStands ==
    ASSUME LoginsInv, NEW b \in Browsers, UNCHANGED account, cookie'[b] = cookie[b],
           b \in out' => b \in out
    PROVE  Kept(b)' /\ (b \in out' => ~Valid(b)')
BY DEF LoginsInv, BrowserOK, Kept, Taken, Valid, Live

Answers(b, q, s) ==
    /\ request' = [request EXCEPT ![b] = q] /\ session' = [session EXCEPT ![b] = s]
    /\ q \in RequestRecord /\ s \in Session
    /\ tab' \in [Browsers -> [Providers -> Doors]]
    /\ \A c \in Browsers \ {b} : tab'[c] = tab[c]
    /\ budget' \in 0 .. Budget
    /\ UNCHANGED <<database, keys, at, opened, mailer, cookie, out>>

MayKeep(b, s) ==
    /\ s.intent # 0 =>
          /\ Taken(s.intent)
          /\ (\E v \in Providers : tab'[b][v] # "none") => account[s.intent].person = at[b]
    /\ s.pending.matched # 0 => Belongs(s.pending.sub, s.pending.matched)

LEMMA AnswerKeeps ==
    ASSUME LoginsInv, NEW b \in Browsers, NEW q, NEW s, Answers(b, q, s),
           q.phase # "delete", Knows(q, cookie[b]), MayKeep(b, s)
    PROVE  LoginsInv'
<1>1. request'[b] = q /\ session'[b] = s /\ UNCHANGED <<account, cookie, out, at>>
  BY DEF Answers, LoginsInv, BrowsersTyped, database
<1>2. BrowsersTyped'
  BY DEF Answers, LoginsInv, BrowsersTyped
<1>3. OthersStand(b)
  BY DEF Answers, LoginsInv, BrowsersTyped, OthersStand
<1>4. Intended(b)' /\ Parked(b)'
  BY <1>1 DEF MayKeep, Intended, Parked, Belongs, Taken
<1>5. Asked(b)'
  BY <1>1 DEF Asked, Knows, Belongs, Taken
<1>6. Kept(b)' /\ (b \in out' => ~Valid(b)')
  BY <1>1, CookieStands
<1>7. ~Deleting(b)'
  BY <1>1 DEF Deleting
<1> QED
  BY <1>2, <1>3, <1>4, <1>5, <1>6, <1>7, MoveKeeps DEF Moves, BrowserOK, Answers

(* The session stays as it was, or nothing is left of it.                  *)
LEMMA SessionMayStay ==
    ASSUME LoginsInv, NEW b \in Browsers, UNCHANGED tab
    PROVE  MayKeep(b, session[b]) /\ MayKeep(b, NoSession)
BY NothingParked DEF LoginsInv, BrowserOK, Intended, Parked, MayKeep

LEMMA IdleKnows == \A k : Knows(Idle, k)
BY IdleTyped DEF Knows

LEMMA AskedNow ==
    ASSUME LoginsInv, NEW b \in Browsers
    PROVE  Knows(request[b], cookie[b]) /\ request[b] \in RequestRecord /\ session[b] \in Session
           /\ cookie[b] \in Cookie /\ BrowserOK(b) /\ at[b] \in People
BY DEF LoginsInv, BrowserOK, Asked, BrowsersTyped

LEMMA SpendTyped ==
    ASSUME LoginsInv, Spend PROVE budget' \in 0 .. Budget
BY LoginsAssumption DEF LoginsInv, BrowsersTyped, Spend

LEMMA Same ==
    ASSUME LoginsInv, NEW b \in Browsers
    PROVE  /\ request = [request EXCEPT ![b] = request[b]]
           /\ session = [session EXCEPT ![b] = session[b]]
BY DEF LoginsInv, BrowsersTyped

(* A request that changes nothing but itself, and may end the session.     *)
LEMMA AnswerOnly ==
    ASSUME LoginsInv, NEW b \in Browsers, NEW q \in RequestRecord,
           request' = [request EXCEPT ![b] = q],
           UNCHANGED session \/ DestroySession(b), budget' \in 0 .. Budget,
           UNCHANGED <<database, keys, at, opened, mailer, tab, cookie, out>>,
           q.phase # "delete", Knows(q, cookie[b])
    PROVE  LoginsInv'
<1>1. UNCHANGED tab /\ MayKeep(b, session[b]) /\ MayKeep(b, NoSession)
  BY SessionMayStay
<1>2. tab' \in [Browsers -> [Providers -> Doors]]
  BY <1>1 DEF LoginsInv, BrowsersTyped
<1>3. CASE UNCHANGED session
  <2>1. Answers(b, q, session[b])
    BY <1>1, <1>2, <1>3, Same, AskedNow DEF Answers
  <2> QED
    BY <2>1, <1>1, AnswerKeeps
<1>4. CASE DestroySession(b)
  <2>1. Answers(b, q, NoSession)
    BY <1>1, <1>2, <1>4, NothingParked DEF Answers, DestroySession
  <2> QED
    BY <2>1, <1>1, AnswerKeeps
<1> QED
  BY <1>3, <1>4

LEMMA LeaveKeeps ==
    ASSUME LoginsInv, NEW b \in Browsers, NEW v \in Providers, NEW d \in Doors, NEW s \in Session,
           Asks(b), Leave(b, v, d, s),
           s.intent # 0 => Taken(s.intent) /\ account[s.intent].person = at[b],
           s.pending.matched # 0 => Belongs(s.pending.sub, s.pending.matched)
    PROVE  LoginsInv'
<1> DEFINE n == [s EXCEPT !.states = @ \union {v}]
<1>1. n \in Session /\ n.intent = s.intent /\ n.pending = s.pending
  BY SessionLeaves
<1>2. session' = [session EXCEPT ![b] = n] /\ tab' = [tab EXCEPT ![b][v] = d]
      /\ UNCHANGED <<database, keys, at, opened, mailer, cookie, request, out>>
  BY DEF Leave
<1> HIDE DEF n
<1>3. budget' \in 0 .. Budget
  BY SpendTyped DEF Asks
<1>4. tab' \in [Browsers -> [Providers -> Doors]] /\ \A c \in Browsers \ {b} : tab'[c] = tab[c]
  BY <1>2 DEF LoginsInv, BrowsersTyped
<1>5. Answers(b, request[b], n)
  BY <1>1, <1>2, <1>3, <1>4, Same, AskedNow DEF Answers
<1>6. MayKeep(b, n)
  BY <1>1 DEF MayKeep
<1> QED
  BY <1>5, <1>6, AnswerKeeps, AskedNow DEF Asks

LEMMA StartLoginKeeps ==
    ASSUME LoginsInv, NEW b \in Browsers, NEW v \in Providers, StartLogin(b, v)
    PROVE  LoginsInv'
BY NothingParked, LeaveKeeps DEF StartLogin, FreshSession, Doors

LEMMA StartConfirmKeeps ==
    ASSUME LoginsInv, NEW b \in Browsers, NEW v \in Providers, StartConfirm(b, v)
    PROVE  LoginsInv'
<1> DEFINE s == [NoSession EXCEPT !.pending = session[b].pending]
<1>1. session[b].pending \in Pending /\ Parked(b)
  BY AskedNow DEF Session, BrowserOK
<1>2. s \in Session /\ s.intent = 0 /\ s.pending = session[b].pending
  BY <1>1, NothingParked, SessionPending
<1>3. Asks(b) /\ Leave(b, v, "confirm", s)
  BY DEF StartConfirm
<1> HIDE DEF s
<1> QED
  BY <1>1, <1>2, <1>3, LeaveKeeps DEF Parked, Doors

LEMMA StartLinkKeeps ==
    ASSUME LoginsInv, NEW b \in Browsers, NEW v \in Providers, StartLink(b, v)
    PROVE  LoginsInv'
<1> DEFINE a == cookie[b].account
           s == [session[b] EXCEPT !.intent = a, !.pending = NoPending]
<1>1. Asks(b) /\ Leave(b, v, "link", s) /\ account[a].person = at[b] /\ Live(a)
  BY DEF StartLink, LoggedIn, Valid
<1>2. a \in Accounts /\ Taken(a)
  BY <1>1 DEF Live, Taken
<1>3. s \in Session /\ s.intent = a /\ s.pending = NoPending
  BY <1>2, AskedNow, NothingParked DEF Session
<1> HIDE DEF s, a
<1> QED
  BY <1>1, <1>2, <1>3, NothingParked, LeaveKeeps DEF Doors

(* Who answers for a subject is its person, and so is the account's owner. *)
LEMMA OwnersTheirs ==
    ASSUME LoginsInv, NEW v \in Providers, NEW sub \in OneSubs, NEW a \in OwnersOf(v, sub)
    PROVE  Belongs(sub, a) /\ Live(a)
<1>1. a \in Accounts /\ linked[a][v] = sub /\ sub # NoSub
  BY DEF OwnersOf, OneSubs, NoSub
<1>2. Live(a)
  BY <1>1 DEF LoginsInv, DatabaseTyped, ProvidersOf
<1>3. sub[1] = account[a].person
  BY <1>1 DEF LoginsInv, AccountsOK, OwnIdentities
<1> QED
  BY <1>1, <1>2, <1>3 DEF Belongs, Taken, Live

LEMMA SubTyped ==
    ASSUME LoginsInv, NEW v, NEW p \in People
    PROVE  Sub(v, p) \in OneSubs /\ Sub(v, p)[1] = p
BY DEF Sub, OneSubs, LoginsInv, BrowsersTyped

NewAt(v, p) == [Idle EXCEPT !.provider = v, !.person = p, !.sub = Sub(v, p),
                            !.phone = IF v = "VIPPS" THEN PhoneOf[p] ELSE NoPhone]

LEMMA NewFields ==
    ASSUME LoginsInv, NEW v \in Providers, NEW p \in People
    PROVE  /\ NewAt(v, p) \in RequestRecord /\ NewAt(v, p).provider = v /\ NewAt(v, p).person = p
           /\ NewAt(v, p).sub = Sub(v, p) /\ NewAt(v, p).account = 0
<1> DEFINE sub == Sub(v, p)
           phone == IF v = "VIPPS" THEN PhoneOf[p] ELSE NoPhone
           n == [Idle EXCEPT !.provider = v, !.person = p, !.sub = sub, !.phone = phone]
<1>1. sub \in Subs /\ phone \in Phones
  BY SubTyped, LoginsAssumption DEF Subs, OneSubs, Phones
<1>2. NewAt(v, p) = n
  BY DEF NewAt
<1> HIDE DEF sub, phone
<1>3. n \in RequestRecord /\ n.provider = v /\ n.person = p /\ n.sub = sub /\ n.account = 0
  BY <1>1, IdleTyped DEF RequestRecord
<1> HIDE DEF n
<1> QED
  BY <1>2, <1>3 DEF sub

LEMMA AccountChanged ==
    ASSUME NEW r \in RequestRecord, NEW a \in {0} \union Accounts
    PROVE  LET n == [r EXCEPT !.account = a]
           IN n \in RequestRecord /\ n.account = a /\ n.sub = r.sub /\ n.person = r.person
BY DEF RequestRecord

LEMMA CallbackKeeps ==
    ASSUME LoginsInv, NEW b \in Browsers, NEW v \in Providers, Callback(b, v)
    PROVE  LoginsInv'
<1> DEFINE p == at[b]
           owner == OwnersOf(v, Sub(v, p))
           resolved == IF owner = {} THEN NewAt(v, p)
                       ELSE [NewAt(v, p) EXCEPT !.account = CHOOSE a \in owner : TRUE]
           q == IF session[b].intent # 0
                THEN [resolved EXCEPT !.phase = "intent", !.id = session[b].intent]
                ELSE [resolved EXCEPT !.phase = IF owner = {} THEN "match" ELSE "confirm"]
           s == [session[b] EXCEPT !.states = @ \ {v}, !.intent = 0]
<1>0. p \in People /\ BrowserOK(b) /\ session[b] \in Session
  BY AskedNow
<1>1. Sub(v, p) \in OneSubs /\ Sub(v, p)[1] = p
  BY <1>0, SubTyped
<1>2. tab' = [tab EXCEPT ![b][v] = "none"] /\ tab[b][v] # "none" /\ request[b].phase = "idle"
      /\ UNCHANGED <<database, people, opened, mailer, cookie, out>>
  BY DEF Callback
<1>3. /\ tab' \in [Browsers -> [Providers -> Doors]]
      /\ \A c \in Browsers \ {b} : tab'[c] = tab[c]
      /\ \A w \in Providers : tab'[b][w] # "none" => tab[b][w] # "none"
  BY <1>2 DEF LoginsInv, BrowsersTyped, Doors
<1>4. budget' \in 0 .. Budget /\ UNCHANGED <<database, keys, at, opened, mailer, cookie, out>>
  BY <1>2 DEF people, LoginsInv, BrowsersTyped
<1>5. CASE UNCHANGED <<request, session>>
  <2>1. Answers(b, request[b], session[b])
    BY <1>3, <1>4, <1>5, Same, AskedNow DEF Answers
  <2>2. MayKeep(b, session[b])
    BY <1>0, <1>3 DEF MayKeep, BrowserOK, Intended, Parked
  <2> QED
    BY <2>1, <2>2, <1>2, AskedNow, AnswerKeeps
<1>6. CASE session' = [session EXCEPT ![b] = s] /\ request' = [request EXCEPT ![b] = q]
  <2>1. s \in Session /\ s.intent = 0 /\ s.pending = session[b].pending
    BY <1>0 DEF Session
  <2>2. resolved \in RequestRecord /\ resolved.sub = Sub(v, p) /\ resolved.person = p
        /\ (owner # {} => resolved.account \in Accounts)
    <3>1. CASE owner = {}
      BY <3>1, <1>0, NewFields
    <3>2. CASE owner # {}
      <4> DEFINE a == CHOOSE a \in owner : TRUE
      <4>1. a \in Accounts
        BY <3>2 DEF OwnersOf
      <4>2. resolved = [NewAt(v, p) EXCEPT !.account = a]
        BY <3>2
      <4> DEFINE m == NewAt(v, p)
      <4>3. m \in RequestRecord /\ m.sub = Sub(v, p) /\ m.person = p
        BY <1>0, NewFields
      <4> HIDE DEF a, resolved, owner, m
      <4>4. LET n == [m EXCEPT !.account = a]
            IN n \in RequestRecord /\ n.account = a /\ n.sub = m.sub /\ n.person = m.person
        BY <4>1, <4>3, AccountChanged
      <4>5. resolved = [m EXCEPT !.account = a]
        BY <4>2 DEF m
      <4> QED
        BY <4>1, <4>3, <4>4, <4>5
    <3> QED
      BY <3>1, <3>2
  <2>3. session[b].intent # 0 => Belongs(Sub(v, p), session[b].intent)
    BY <1>0, <1>1, <1>2 DEF BrowserOK, Intended, Belongs
  <2>4. session[b].intent \in {0} \union Accounts /\ session[b].intent \in Nat
    <3>1. session[b].intent \in {0} \union Accounts
      BY <1>0 DEF Session
    <3>2. session[b].intent \in Nat
      BY <3>1, LoginsAssumption DEF Accounts
    <3> QED
      BY <3>1, <3>2
  <2> HIDE DEF resolved, owner, s
  <2>5. q \in RequestRecord /\ q.phase # "delete" /\ Knows(q, cookie[b])
    <3>1. CASE session[b].intent # 0
      <4> DEFINE i == session[b].intent
                 n == [resolved EXCEPT !.phase = "intent", !.id = i]
      <4>0. q = n
        BY <3>1
      <4> HIDE DEF i, q
      <4>1. n \in RequestRecord /\ n.phase = "intent" /\ n.id = i /\ n.sub = resolved.sub
            /\ n.person = resolved.person
        BY <2>2, <2>4 DEF RequestRecord, Phases, i
      <4> HIDE DEF n
      <4> QED
        BY <4>0, <4>1, <2>2, <2>3, <1>1, <3>1 DEF Knows, i
    <3>2. CASE session[b].intent = 0
      <4> DEFINE f == IF owner = {} THEN "match" ELSE "confirm"
                 n == [resolved EXCEPT !.phase = f]
      <4>0. q = n /\ f \in {"match", "confirm"} /\ (f = "confirm" => owner # {})
        BY <3>2
      <4> HIDE DEF f, q
      <4>1. n \in RequestRecord /\ n.phase = f /\ n.account = resolved.account
            /\ n.sub = resolved.sub /\ n.person = resolved.person
        BY <2>2, <4>0 DEF RequestRecord, Phases
      <4> HIDE DEF n
      <4> QED
        BY <4>0, <4>1, <2>2, <1>1, <3>2 DEF Knows
    <3> QED
      BY <3>1, <3>2
  <2> HIDE DEF q
  <2>6. Answers(b, q, s)
    BY <1>3, <1>4, <1>6, <2>1, <2>5 DEF Answers
  <2>7. MayKeep(b, s)
    BY <1>0, <2>1 DEF MayKeep, BrowserOK, Parked
  <2> QED
    BY <2>5, <2>6, <2>7, AnswerKeeps
<1> QED
  <2>1. v \notin session[b].states => UNCHANGED <<request, session>>
    BY DEF Callback
  <2>2. v \in session[b].states =>
           session' = [session EXCEPT ![b] = s] /\ request' = [request EXCEPT ![b] = q]
    BY DEF Callback, NewAt
  <2> QED
    BY <2>1, <2>2, <1>5, <1>6

-----------------------------------------------------------------------------
(* The requests that only read.                                            *)

LEMMA BudgetStands ==
    ASSUME LoginsInv, UNCHANGED budget PROVE budget' \in 0 .. Budget
BY DEF LoginsInv, BrowsersTyped

LEMMA Ended ==
    ASSUME LoginsInv, NEW b \in Browsers, Done(b), UNCHANGED session \/ DestroySession(b),
           UNCHANGED <<database, people, opened, mailer, tab, cookie, out>>
    PROVE  LoginsInv'
<1>1. request' = [request EXCEPT ![b] = Idle] /\ UNCHANGED <<keys, at, budget>>
  BY DEF Done, people
<1> QED
  BY <1>1, BudgetStands, IdleTyped, IdleKnows, AnswerOnly

LEMMA LinkIntentOutcomeKeeps ==
    ASSUME LoginsInv, NEW b \in Browsers, LinkIntentOutcome(b)
    PROVE  LoginsInv'
<1> DEFINE r == request[b]
           i == r.id
           q == [r EXCEPT !.phase = "link", !.account = i]
<1>1. r \in RequestRecord /\ Belongs(r.sub, i)
  BY AskedNow DEF LinkIntentOutcome, Knows
<1>2. DestroySession(b) /\ UNCHANGED <<database, keys, at, budget, opened, mailer, tab, cookie, out>>
  BY DEF LinkIntentOutcome, people
<1>3. Done(b) \/ request' = [request EXCEPT ![b] = q]
  BY DEF LinkIntentOutcome
<1>4. i \in Accounts
  BY <1>1 DEF Belongs, Taken
<1>5. CASE request' = [request EXCEPT ![b] = q]
  <2> HIDE DEF r, i
  <2>1. q \in RequestRecord /\ q.phase = "link" /\ q.account = i /\ q.sub = r.sub
    BY <1>1, <1>4 DEF RequestRecord, Phases
  <2> HIDE DEF q
  <2>2. Knows(q, cookie[b])
    BY <2>1, <1>1 DEF Knows
  <2> QED
    BY <1>2, <1>5, <2>1, <2>2, BudgetStands, AnswerOnly
<1>6. CASE Done(b)
  BY <1>2, <1>6, Ended DEF people
<1> QED
  BY <1>3, <1>5, <1>6

LEMMA ConfirmPendingLinkKeeps ==
    ASSUME LoginsInv, NEW b \in Browsers, ConfirmPendingLink(b)
    PROVE  LoginsInv'
<1> DEFINE r == request[b]
           d == session[b].pending
           u == TRUE
           linking == [r EXCEPT !.phase = "link", !.login = u, !.provider = d.provider,
                                !.sub = d.sub, !.phone = d.phone]
           going == [r EXCEPT !.phase = "ensure", !.login = u]
<1>1. r \in RequestRecord /\ r.account \in Accounts /\ d \in Pending /\ Parked(b)
  BY AskedNow DEF ConfirmPendingLink, Knows, Session, BrowserOK
<1>2. DestroySession(b) /\ UNCHANGED <<database, keys, at, budget, opened, mailer, tab, cookie, out>>
  BY DEF ConfirmPendingLink, people
<1>3. \/ request' = [request EXCEPT ![b] = linking] /\ d.matched = r.account
      \/ request' = [request EXCEPT ![b] = going]
  BY DEF ConfirmPendingLink
<1>4. u \in BOOLEAN /\ u /\ d.provider \in Providers /\ d.sub \in Subs /\ d.phone \in Phones
  BY <1>1 DEF Pending
<1>5. r.account # 0
  BY <1>1, NumbersOfAccounts
<1>6. CASE request' = [request EXCEPT ![b] = linking] /\ d.matched = r.account
  <2>1. Belongs(d.sub, r.account)
    BY <1>1, <1>5, <1>6 DEF Parked
  <2> HIDE DEF r, d, u
  <2>2. linking \in RequestRecord /\ linking.phase = "link" /\ linking.sub = d.sub
        /\ linking.account = r.account
    BY <1>1, <1>4 DEF RequestRecord, Phases
  <2> HIDE DEF linking
  <2>3. Knows(linking, cookie[b])
    BY <2>1, <2>2 DEF Knows
  <2> QED
    BY <1>2, <1>6, <2>2, <2>3, BudgetStands, AnswerOnly
<1>7. CASE request' = [request EXCEPT ![b] = going]
  <2> HIDE DEF r, d, u
  <2>2. going \in RequestRecord /\ going.phase = "ensure" /\ going.login = u
    BY <1>1, <1>4 DEF RequestRecord, Phases
  <2> HIDE DEF going
  <2>3. Knows(going, cookie[b])
    BY <2>2, <1>4 DEF Knows
  <2> QED
    BY <1>2, <1>7, <2>2, <2>3, BudgetStands, AnswerOnly
<1> QED
  BY <1>3, <1>6, <1>7

(* An e-mail finds the account of the one who has it.                      *)
LEMMA EmailFinds ==
    ASSUME LoginsInv, NEW v \in Providers, NEW p \in People, NEW a \in Accounts, Live(a),
           account[a].email = EmailOf[<<v, p>>]
    PROVE  account[a].person = p
<1> DEFINE o == account[a].person
<1>1. o \in People
  BY DEF LoginsInv, DatabaseTyped, Account
<1>2. PICK w \in Providers : account[a].email = EmailOf[<<w, o>>]
  BY DEF LoginsInv, AccountsOK, EmailsTheirs
<1>3. <<w, o>> \in Providers \X People /\ <<v, p>> \in Providers \X People
  BY <1>1
<1>4. <<w, o>>[2] = <<v, p>>[2]
  BY <1>2, <1>3, EmailsAssumption
<1> QED
  BY <1>4

LEMMA FindByEmailKeeps ==
    ASSUME LoginsInv, NEW b \in Browsers, FindByEmail(b)
    PROVE  LoginsInv'
<1> DEFINE r == request[b]
           owner == {a \in Accounts : Live(a) /\ account[a].email = EmailOf[<<r.provider, r.person>>]}
           a == CHOOSE a \in owner : TRUE
           on == [r EXCEPT !.phase = "phone"]
           found == [r EXCEPT !.phase = "owned", !.account = a]
<1>1. r \in RequestRecord /\ r.sub \in OneSubs /\ r.sub[1] = r.person
  BY AskedNow DEF FindByEmail, Knows
<1>2. UNCHANGED <<session, database, keys, at, budget, opened, mailer, tab, cookie, out>>
  BY DEF FindByEmail, people, browsers
<1>3. \/ request' = [request EXCEPT ![b] = on]
      \/ request' = [request EXCEPT ![b] = found] /\ owner # {}
  BY DEF FindByEmail
<1>4. CASE request' = [request EXCEPT ![b] = on]
  <2> HIDE DEF r
  <2>1. on \in RequestRecord /\ on.phase = "phone" /\ on.sub = r.sub /\ on.person = r.person
    BY <1>1 DEF RequestRecord, Phases
  <2> HIDE DEF on
  <2>2. Knows(on, cookie[b])
    BY <2>1, <1>1 DEF Knows
  <2> QED
    BY <1>2, <1>4, <2>1, <2>2, BudgetStands, AnswerOnly
<1>5. CASE request' = [request EXCEPT ![b] = found] /\ owner # {}
  <2>1. a \in owner
    BY <1>5
  <2>2. a \in Accounts /\ Live(a) /\ account[a].email = EmailOf[<<r.provider, r.person>>]
    BY <2>1
  <2>3. account[a].person = r.person
    BY <1>1, <2>2, EmailFinds DEF RequestRecord
  <2>4. Belongs(r.sub, a)
    BY <1>1, <2>2, <2>3 DEF Belongs, Taken, Live
  <2> HIDE DEF r, a
  <2>5. found \in RequestRecord /\ found.phase = "owned" /\ found.account = a
        /\ found.sub = r.sub /\ found.person = r.person
    BY <1>1, <2>2 DEF RequestRecord, Phases
  <2> HIDE DEF found
  <2>6. Knows(found, cookie[b])
    BY <2>4, <2>5, <1>1 DEF Knows
  <2> QED
    BY <1>2, <1>5, <2>5, <2>6, BudgetStands, AnswerOnly
<1> QED
  BY <1>3, <1>4, <1>5

(* Only the phase changes.                                                 *)
LEMMA GoesTo ==
    ASSUME LoginsInv, NEW b \in Browsers, NEW f \in Phases \ {"delete"}, To(b, f), UNCHANGED session,
           UNCHANGED <<database, people, opened, mailer, tab, cookie, out>>,
           Knows([request[b] EXCEPT !.phase = f], cookie[b])
    PROVE  LoginsInv'
<1> DEFINE r == request[b]
           q == [r EXCEPT !.phase = f]
<1>1. r \in RequestRecord
  BY AskedNow
<1>2. request' = [request EXCEPT ![b] = q] /\ UNCHANGED <<keys, at, budget>>
  BY DEF To, people, LoginsInv, BrowsersTyped
<1>3. Knows(q, cookie[b])
  OBVIOUS
<1> HIDE DEF r
<1>4. q \in RequestRecord /\ q.phase = f
  BY <1>1, PhaseChanged
<1> HIDE DEF q
<1> QED
  BY <1>2, <1>3, <1>4, BudgetStands, AnswerOnly

LEMMA GetLinkedProvidersKeeps ==
    ASSUME LoginsInv, NEW b \in Browsers, GetLinkedProviders(b)
    PROVE  LoginsInv'
<1> DEFINE r == request[b]
           d == [provider |-> r.provider, sub |-> r.sub, matched |-> r.account,
                 phone |-> r.phone, late |-> FALSE]
           q == [r EXCEPT !.phase = "rekey"]
<1>1. r \in RequestRecord /\ r.sub \in OneSubs /\ r.sub[1] = r.person /\ Belongs(r.sub, r.account)
  BY AskedNow DEF GetLinkedProviders, Knows
<1>2. UNCHANGED <<database, people, opened, mailer, tab, cookie, out>>
  BY DEF GetLinkedProviders
<1>3. \/ To(b, "rekey") /\ UNCHANGED session
      \/ Done(b) /\ DestroySession(b)
      \/ Done(b) /\ session' = [session EXCEPT ![b].pending = d]
  BY DEF GetLinkedProviders
<1>4. CASE To(b, "rekey") /\ UNCHANGED session
  <2> HIDE DEF r
  <2>1. q \in RequestRecord /\ q.phase = "rekey" /\ q.sub = r.sub /\ q.person = r.person
        /\ q.account = r.account
    BY <1>1 DEF RequestRecord, Phases
  <2> HIDE DEF q
  <2>2. Knows(q, cookie[b])
    BY <2>1, <1>1 DEF Knows
  <2>3. Knows([request[b] EXCEPT !.phase = "rekey"], cookie[b])
    BY <2>2 DEF q, r
  <2> QED
    BY <1>2, <1>4, <2>3, GoesTo DEF Phases
<1>5. CASE Done(b) /\ DestroySession(b)
  BY <1>2, <1>5, Ended
<1>6. CASE Done(b) /\ session' = [session EXCEPT ![b].pending = d]
  <2> DEFINE c == session[b]
             s == [c EXCEPT !.pending = d]
  <2>0. c \in Session /\ Intended(b)
    BY AskedNow DEF BrowserOK
  <2>1. d \in Pending /\ d.matched = r.account /\ d.sub = r.sub
    BY <1>1 DEF RequestRecord, Pending
  <2>2. session' = [session EXCEPT ![b] = s] /\ request' = [request EXCEPT ![b] = Idle]
    BY <1>6 DEF Done
  <2> HIDE DEF d, r, c
  <2>3. s \in Session /\ s.intent = c.intent /\ s.pending = d
    BY <2>0, <2>1, SessionPending
  <2> HIDE DEF s
  <2>4. UNCHANGED <<tab, keys, at, budget>>
    BY <1>2 DEF people
  <2>5. Answers(b, Idle, s)
    BY <1>2, <2>2, <2>3, <2>4, BudgetStands, IdleTyped DEF Answers, LoginsInv, BrowsersTyped
  <2>6. MayKeep(b, s)
    BY <2>0, <2>1, <2>3, <2>4, <1>1 DEF MayKeep, Intended, c
  <2> QED
    BY <2>5, <2>6, IdleKnows, IdleTyped, AnswerKeeps
<1> QED
  BY <1>3, <1>4, <1>5, <1>6

LEMMA FindByPhoneKeeps ==
    ASSUME LoginsInv, NEW b \in Browsers, FindByPhone(b)
    PROVE  LoginsInv'
<1> DEFINE r == request[b]
           q == [r EXCEPT !.phase = "create"]
<1>1. r \in RequestRecord /\ r.sub \in OneSubs /\ r.sub[1] = r.person
  BY AskedNow DEF FindByPhone, Knows
<1>2. UNCHANGED <<database, people, opened, mailer, tab, cookie, out>>
  BY DEF FindByPhone
<1>3. CASE To(b, "create") /\ UNCHANGED session
  <2> HIDE DEF r
  <2>1. q.phase = "create" /\ q.sub = r.sub /\ q.person = r.person
    BY <1>1 DEF RequestRecord, Phases
  <2> HIDE DEF q
  <2>2. Knows(q, cookie[b])
    BY <2>1, <1>1 DEF Knows
  <2>3. Knows([request[b] EXCEPT !.phase = "create"], cookie[b])
    BY <2>2 DEF q, r
  <2> QED
    BY <1>2, <1>3, <2>3, GoesTo DEF Phases
<1>4. CASE Done(b) /\ DestroySession(b)
  BY <1>2, <1>4, Ended
<1> QED
  BY <1>3, <1>4 DEF FindByPhone

LEMMA ReadUserKeeps ==
    ASSUME LoginsInv, NEW b \in Browsers, ReadUser(b)
    PROVE  LoginsInv'
<1> DEFINE r == request[b]
           i == account[r.account].token
           q == [r EXCEPT !.phase = "issue", !.id = i]
<1>1. r \in RequestRecord /\ r.login
  BY AskedNow DEF ReadUser, Knows
<1>2. UNCHANGED <<session, database, people, opened, mailer, tab, cookie, out>>
  BY DEF ReadUser, browsers
<1>3. Done(b) \/ (Live(r.account) /\ request' = [request EXCEPT ![b] = q])
  BY DEF ReadUser
<1>4. CASE Done(b)
  BY <1>2, <1>4, Ended
<1>5. CASE Live(r.account) /\ request' = [request EXCEPT ![b] = q]
  <2>1. Taken(r.account) /\ r.account \in Accounts
    BY <1>5 DEF Live, Taken
  <2>2. i \in 0 .. MaxToken
    BY <2>1 DEF LoginsInv, DatabaseTyped, Account
  <2>3. i \in Nat /\ i \in 0 .. i
    BY <2>2, LoginsAssumption
  <2>4. Taken(r.account) /\ i \in 0 .. account[r.account].token
    BY <2>1, <2>3
  <2> HIDE DEF r, i
  <2>5. q \in RequestRecord /\ q.phase = "issue" /\ q.id = i /\ q.account = r.account
        /\ q.login = r.login
    BY <1>1, <2>3 DEF RequestRecord, Phases
  <2> HIDE DEF q
  <2>6. Knows(q, cookie[b])
    BY <2>4, <2>5, <1>1 DEF Knows
  <2> QED
    BY <1>2, <1>5, <2>5, <2>6, BudgetStands, AnswerOnly DEF people
<1> QED
  BY <1>3, <1>4, <1>5

(* A cookie that is good is one of an account that is there.               *)
LEMMA ValidIsTaken ==
    ASSUME NEW b, Valid(b)
    PROVE  Live(cookie[b].account) /\ Taken(cookie[b].account) /\ cookie[b].account \in Accounts
BY DEF Valid, Live, Taken

LEMMA RefreshKeeps ==
    ASSUME LoginsInv, NEW b \in Browsers, Refresh(b)
    PROVE  LoginsInv'
<1> DEFINE a == cookie[b].account
           i == cookie[b].id
           q == [Idle EXCEPT !.phase = "issue", !.account = a, !.id = i]
<1>1. Taken(a) /\ a \in Accounts /\ i = account[a].token
  BY ValidIsTaken DEF Refresh, Valid
<1>2. i \in Nat /\ i \in 0 .. account[a].token
  <2>1. i \in 0 .. MaxToken
    BY <1>1 DEF LoginsInv, DatabaseTyped, Account
  <2> QED
    BY <1>1, <2>1, LoginsAssumption
<1>3. UNCHANGED <<session, database, keys, at, opened, mailer, tab, cookie, out>> /\ Spend
  BY DEF Refresh, browsers, Asks
<1>4. request' = [request EXCEPT ![b] = q]
  BY DEF Refresh
<1>5. cookie[b].account = a /\ cookie[b].id = i
  OBVIOUS
<1> HIDE DEF a, i
<1>6. q \in RequestRecord /\ q.phase = "issue" /\ q.account = a /\ q.id = i
  BY <1>1, <1>2, IdleTyped DEF RequestRecord, Phases
<1> HIDE DEF q
<1>7. Knows(q, cookie[b])
  BY <1>1, <1>2, <1>5, <1>6 DEF Knows
<1> QED
  BY <1>3, <1>4, <1>6, <1>7, SpendTyped, AnswerOnly

LEMMA AskKeeps ==
    ASSUME LoginsInv, NEW b \in Browsers, NEW f \in {"unlink", "logout", "remove"},
           NEW v \in Providers, Ask(b, f, v)
    PROVE  LoginsInv'
<1> DEFINE a == cookie[b].account
           q == [Idle EXCEPT !.phase = f, !.provider = v, !.account = a]
<1>1. a \in Accounts
  BY ValidIsTaken DEF Ask, LoggedIn
<1>2. UNCHANGED <<session, database, keys, at, opened, mailer, tab, cookie, out>> /\ Spend
  BY DEF Ask, browsers, Asks
<1>3. request' = [request EXCEPT ![b] = q]
  BY DEF Ask
<1> HIDE DEF a
<1>4. q \in RequestRecord /\ q.phase = f /\ q.account = a
  BY <1>1, IdleTyped DEF RequestRecord, Phases
<1> HIDE DEF q
<1>5. Knows(q, cookie[b])
  BY <1>1, <1>4 DEF Knows
<1> QED
  BY <1>2, <1>3, <1>4, <1>5, SpendTyped, AnswerOnly

-----------------------------------------------------------------------------
(* The other steps of a browser.                                           *)

LEMMA IssueSessionCookiesKeeps ==
    ASSUME LoginsInv, NEW b \in Browsers, IssueSessionCookies(b)
    PROVE  LoginsInv'
<1> DEFINE r == request[b]
           u == TRUE
           k == [account |-> r.account, id |-> r.id, live |-> u]
<1>0. r \in RequestRecord /\ Knows(r, cookie[b]) /\ cookie[b] \in Cookie /\ r.phase = "issue"
      /\ BrowserOK(b)
  BY AskedNow DEF IssueSessionCookies
<1>1. Taken(r.account) /\ r.id \in 0 .. account[r.account].token /\ r.account \in Accounts
      /\ (~r.login => cookie[b].account = r.account /\ cookie[b].id = r.id)
  BY <1>0 DEF Knows, Taken
<1>2. account[r.account].token \in 0 .. MaxToken
  BY <1>1 DEF LoginsInv, DatabaseTyped, Account
<1>3. r.id \in 0 .. MaxToken /\ r.id <= account[r.account].token
  BY <1>1, <1>2, LoginsAssumption
<1>4. /\ cookie' = [cookie EXCEPT ![b] = k] /\ request' = [request EXCEPT ![b] = Idle]
      /\ out' = IF r.login THEN out \ {b} ELSE out
      /\ UNCHANGED <<database, keys, at, budget, opened, mailer, tab, session>>
  BY DEF IssueSessionCookies, people, Done
<1>5. k \in Cookie /\ k.account = r.account /\ k.id = r.id
  BY <1>1, <1>3 DEF Cookie
<1> HIDE DEF k
<1>6. cookie'[b] = k /\ request'[b] = Idle
  BY <1>4 DEF LoginsInv, BrowsersTyped
<1>7. BrowsersTyped'
  BY <1>4, <1>5, IdleTyped DEF LoginsInv, BrowsersTyped
<1>8. OthersStand(b)
  BY <1>4 DEF LoginsInv, BrowsersTyped, OthersStand
<1>9. Intended(b)' /\ Parked(b)'
  BY <1>0, <1>4 DEF BrowserOK, Intended, Parked, Belongs, Taken, database
<1>10. Asked(b)' /\ ~Deleting(b)'
  BY <1>6, IdleTyped DEF Asked, Knows, Deleting
<1>11. Kept(b)'
  BY <1>1, <1>3, <1>4, <1>5, <1>6 DEF Kept, Taken, database
<1>12. b \in out' => ~Valid(b)'
  <2> SUFFICES ASSUME b \in out' PROVE ~Valid(b)'
    OBVIOUS
  <2>1. ~r.login /\ b \in out
    BY <1>4
  <2>2. ~Valid(b)
    BY <2>1, <1>0 DEF BrowserOK
  <2>3. cookie'[b].account = cookie[b].account /\ cookie'[b].id = cookie[b].id /\ UNCHANGED account
    BY <2>1, <1>1, <1>4, <1>5, <1>6 DEF database
  <2> QED
    BY <2>2, <2>3 DEF Valid, Live
<1> QED
  BY <1>4, <1>7, <1>8, <1>9, <1>10, <1>11, <1>12, MoveKeeps DEF Moves, BrowserOK

LEMMA SwitchPersonKeeps ==
    ASSUME LoginsInv, NEW b \in Browsers, NEW p \in People, SwitchPerson(b, p)
    PROVE  LoginsInv'
<1>1. /\ at' = [at EXCEPT ![b] = p] /\ tab' = [tab EXCEPT ![b] = [v \in Providers |-> "none"]]
      /\ UNCHANGED <<database, keys, opened, mailer, session, cookie, request, out>>
      /\ request[b].phase = "idle" /\ Spend
  BY DEF SwitchPerson, Asks
<1>2. budget' \in 0 .. Budget
  BY <1>1, SpendTyped
<1>3. BrowsersTyped'
  BY <1>1, <1>2 DEF LoginsInv, BrowsersTyped, Doors
<1>4. OthersStand(b)
  BY <1>1 DEF LoginsInv, BrowsersTyped, OthersStand
<1>5. \A v \in Providers : tab'[b][v] = "none"
  BY <1>1 DEF LoginsInv, BrowsersTyped
<1>6. Intended(b)' /\ Parked(b)'
  BY <1>1, <1>5, AskedNow DEF BrowserOK, Intended, Parked, Belongs, Taken, database
<1>7. Asked(b)' /\ ~Deleting(b)'
  BY <1>1 DEF Asked, Knows, Deleting
<1>8. Kept(b)' /\ (b \in out' => ~Valid(b)')
  BY <1>1, CookieStands DEF database
<1> QED
  BY <1>1, <1>3, <1>4, <1>6, <1>7, <1>8, MoveKeeps DEF Moves, BrowserOK

LEMMA AccessExpiresKeeps ==
    ASSUME LoginsInv, NEW b \in Browsers, AccessExpires(b)
    PROVE  LoginsInv'
<1> DEFINE u == FALSE
           c == cookie[b]
           k == [c EXCEPT !.live = u]
<1>1. /\ cookie' = [cookie EXCEPT ![b] = k]
      /\ UNCHANGED <<database, keys, at, opened, mailer, tab, session, request, out>>
      /\ request[b].phase = "idle" /\ Spend
  BY DEF AccessExpires, Asks, LoginsInv, BrowsersTyped
<1>2. c \in Cookie /\ u \in BOOLEAN /\ BrowserOK(b) /\ budget' \in 0 .. Budget
  BY <1>1, AskedNow, SpendTyped
<1>0. c = cookie[b]
  OBVIOUS
<1> HIDE DEF u, c
<1>3. k \in Cookie /\ k.account = c.account /\ k.id = c.id
  BY <1>2 DEF Cookie
<1> HIDE DEF k
<1>4. BrowsersTyped'
  BY <1>1, <1>2, <1>3 DEF LoginsInv, BrowsersTyped
<1>5. OthersStand(b)
  BY <1>1 DEF LoginsInv, BrowsersTyped, OthersStand
<1>6. Intended(b)' /\ Parked(b)'
  BY <1>1, <1>2 DEF BrowserOK, Intended, Parked, Belongs, Taken, database
<1>7. Asked(b)' /\ ~Deleting(b)'
  BY <1>1 DEF Asked, Knows, Deleting
<1>8. cookie'[b] = k /\ UNCHANGED account
  BY <1>1 DEF LoginsInv, BrowsersTyped, database
<1>9. Kept(b)' /\ (b \in out' => ~Valid(b)')
  BY <1>0, <1>1, <1>2, <1>3, <1>8 DEF BrowserOK, Kept, Taken, Valid, Live
<1> QED
  BY <1>1, <1>4, <1>5, <1>6, <1>7, <1>9, MoveKeeps DEF Moves, BrowserOK

LEMMA SessionExpiresKeeps ==
    ASSUME LoginsInv, NEW b \in Browsers, SessionExpires(b)
    PROVE  LoginsInv'
<1> DEFINE u == TRUE
           c == session[b]
           d == c.pending
           n == [d EXCEPT !.late = u]
           s == [c EXCEPT !.pending = n]
<1>1. /\ UNCHANGED <<database, keys, at, opened, mailer, tab, cookie, request, out>>
      /\ request[b].phase = "idle" /\ Spend
  BY DEF SessionExpires, Asks
<1>2. c \in Session /\ d \in Pending /\ u \in BOOLEAN /\ BrowserOK(b) /\ budget' \in 0 .. Budget
  BY <1>1, AskedNow, SpendTyped DEF Session
<1>3. CASE DestroySession(b)
  BY <1>1, <1>2, <1>3, Same, AskedNow, AnswerOnly
<1>4. CASE session' = [session EXCEPT ![b].pending.late = u]
  <2>0. session' = [session EXCEPT ![b] = s]
    BY <1>4 DEF LoginsInv, BrowsersTyped, Session
  <2>1. c.intent = session[b].intent /\ d = session[b].pending
    OBVIOUS
  <2> HIDE DEF u, d, c
  <2>2. n \in Pending /\ n.matched = d.matched /\ n.sub = d.sub
    BY <1>2 DEF Pending
  <2> HIDE DEF n
  <2>3. s \in Session /\ s.intent = c.intent /\ s.pending = n
    BY <1>2, <2>2, SessionPending
  <2> HIDE DEF s
  <2>4. Answers(b, request[b], s)
    BY <1>1, <1>2, <2>0, <2>3, Same, AskedNow DEF Answers, LoginsInv, BrowsersTyped
  <2>5. MayKeep(b, s)
    BY <1>1, <1>2, <2>1, <2>2, <2>3 DEF MayKeep, BrowserOK, Intended, Parked
  <2> QED
    BY <1>1, <2>4, <2>5, AskedNow, AnswerKeeps
<1> QED
  BY <1>3, <1>4 DEF SessionExpires

-----------------------------------------------------------------------------
(* What steps of the database leave of the accounts and of the locks.      *)

(* The accounts there are stay, of whom they are; tokens and phones may    *)
(* change.                                                                 *)
Alike ==
    /\ account' \in [Accounts -> Account]
    /\ \A a \in Accounts :
          /\ account'[a].state = account[a].state /\ account'[a].person = account[a].person
          /\ account'[a].email = account[a].email /\ account[a].token <= account'[a].token

LEMMA SameAlike ==
    ASSUME LoginsInv, UNCHANGED account PROVE Alike
<1>1. \A a \in Accounts : account[a].token \in Nat
  BY LoginsAssumption DEF LoginsInv, DatabaseTyped, Account
<1> QED
  BY <1>1 DEF LoginsInv, DatabaseTyped, Alike

LEMMA AlikeKeeps ==
    ASSUME LoginsInv, Alike
    PROVE  Grows /\ (\A a \in Accounts : Live(a)' <=> Live(a)) /\ EmailsTheirs'
<1>1. \A a \in Accounts : Live(a)' <=> Live(a)
  BY DEF Alike, Live
<1>2. Grows
  BY <1>1 DEF Alike, Grows, Taken
<1>3. EmailsTheirs'
  BY <1>1 DEF LoginsInv, AccountsOK, EmailsTheirs, Alike, Live
<1> QED
  BY <1>1, <1>2, <1>3

(* Who holds a lock goes on holding it when another request writes.        *)
LEMMA HoldersStay ==
    ASSUME LoginsInv, NEW b \in Browsers, NEW q, request' = [request EXCEPT ![b] = q],
           q.phase # "delete", UNCHANGED <<locked, mailer>>, links' \subseteq links,
           \A a \in Accounts : Unlocked(a) \/
              /\ Live(a) => Live(a)'
              /\ \A v \in Providers : linked[a][v] # NoSub => linked'[a][v] # NoSub
    PROVE  HoldersOK'
<1>1. \A c \in Browsers : Deleting(c)' => Deleting(c) /\ request'[c] = request[c]
  BY DEF LoginsInv, BrowsersTyped, Deleting
<1>2. \A c \in Browsers : Deleting(c) => request[c].account \in Accounts
  BY AskedNow DEF Deleting, Knows
<1>3. ASSUME NEW c \in Browsers, Deleting(c)'
      PROVE  /\ locked'[request'[c].account] = "held"
             /\ \A v \in Providers : linked'[request'[c].account][v] # NoSub
  <2>1. PICK a \in Accounts : a = request[c].account
    BY <1>1, <1>2, <1>3
  <2>2. locked[a] = "held" /\ (\A v \in Providers : linked[a][v] # NoSub) /\ request'[c].account = a
    BY <1>1, <1>3, <2>1 DEF LoginsInv, HoldersOK
  <2> QED
    BY <2>1, <2>2 DEF Unlocked
<1>4. \A c, d \in Browsers :
         Deleting(c)' /\ Deleting(d)' /\ request'[c].account = request'[d].account => c = d
  BY <1>1 DEF LoginsInv, HoldersOK
<1>5. ASSUME NEW m \in Mailers, mailer[m].account # 0
      PROVE  /\ Live(mailer[m].account)' /\ locked'[mailer'[m].account] = "held"
             /\ \A c \in Browsers : Deleting(c)' => request'[c].account # mailer'[m].account
             /\ \A n \in Mailers : mailer'[n].account = mailer'[m].account => n = m
  <2>1. PICK a \in Accounts : a = mailer[m].account
    BY <1>5 DEF LoginsInv, HoldersOK, Live
  <2>2. Live(a) /\ locked[a] = "held" /\ mailer' = mailer
        /\ (\A c \in Browsers : Deleting(c) => request[c].account # a)
        /\ (\A n \in Mailers : mailer[n].account = a => n = m)
    BY <1>5, <2>1 DEF LoginsInv, HoldersOK
  <2>3. Live(a)'
    BY <2>2 DEF Unlocked
  <2>4. Live(mailer[m].account)'
    BY <2>1, <2>2, <2>3 DEF Live
  <2> QED
    BY <1>1, <2>1, <2>2, <2>4
<1>6. \A m \in Mailers : mailer'[m].deleted =>
         mailer'[m].account # 0 /\ \A l \in links' : l.account # mailer'[m].account
  BY DEF LoginsInv, HoldersOK
<1> QED
  BY <1>3, <1>4, <1>5, <1>6 DEF HoldersOK

-----------------------------------------------------------------------------
(* Linking, new keys, a new account.                                       *)

(* A row of an identity for the account of its own person.                 *)
LEMMA LinkingKeeps ==
    ASSUME LoginsInv, Alike, NEW a \in Accounts, NEW v \in Providers, NEW sub,
           Belongs(sub, a), Live(a), linked' = [linked EXCEPT ![a][v] = sub]
    PROVE  /\ linked' \in [Accounts -> [Providers -> Subs]]
           /\ \A x \in Accounts : ~Live(x)' => ProvidersOf(x)' = {}
           /\ AccountsOK'
           /\ \A x \in Accounts, w \in Providers : linked[x][w] # NoSub => linked'[x][w] # NoSub
<1>a. sub \in OneSubs /\ sub[1] = account[a].person
  BY DEF Belongs
<1>b. sub # NoSub /\ sub \in Subs
  <2>1. PICK p \in People, k \in {0, 1} : sub = <<p, k>>
    BY <1>a DEF OneSubs
  <2>2. sub # NoSub
    BY <2>1 DEF NoSub
  <2> QED
    BY <1>a, <2>2 DEF OneSubs, Subs
<1>0. linked \in [Accounts -> [Providers -> Subs]] /\ sub \in Subs /\ sub # NoSub
      /\ sub[1] = account[a].person
  BY <1>a, <1>b DEF LoginsInv, DatabaseTyped
<1>1. linked' \in [Accounts -> [Providers -> Subs]]
  BY <1>0
<1>2. /\ linked'[a][v] = sub
      /\ \A w \in Providers \ {v} : linked'[a][w] = linked[a][w]
      /\ \A x \in Accounts \ {a} : linked'[x] = linked[x]
  BY <1>0
<1>3. \A x \in Accounts : (Live(x)' <=> Live(x)) /\ account'[x].person = account[x].person
  BY AlikeKeeps DEF Alike
<1>4. \A x \in Accounts, w \in Providers : linked[x][w] # NoSub => linked'[x][w] # NoSub
  BY <1>0, <1>2
<1>5. \A x \in Accounts : ~Live(x)' => ProvidersOf(x)' = {}
  <2> SUFFICES ASSUME NEW x \in Accounts, ~Live(x)' PROVE ProvidersOf(x)' = {}
    OBVIOUS
  <2>1. x # a /\ ProvidersOf(x) = {}
    BY <1>3 DEF LoginsInv, DatabaseTyped
  <2> QED
    BY <1>2, <2>1 DEF ProvidersOf
<1>6. AlwaysALogin'
  BY <1>3, <1>4 DEF LoginsInv, AccountsOK, AlwaysALogin, ProvidersOf
<1>7. OwnIdentities'
  <2> SUFFICES ASSUME NEW x \in Accounts, NEW w \in Providers, linked'[x][w] # NoSub
               PROVE  linked'[x][w][1] = account'[x].person
    BY DEF OwnIdentities
  <2>1. CASE x = a /\ w = v
    BY <2>1, <1>0, <1>2, <1>3
  <2>2. CASE ~(x = a /\ w = v)
    BY <2>2, <1>2, <1>3 DEF LoginsInv, AccountsOK, OwnIdentities
  <2> QED
    BY <2>1, <2>2
<1> QED
  BY <1>1, <1>4, <1>5, <1>6, <1>7, AlikeKeeps DEF AccountsOK

Becomes(b, q) == request' = [request EXCEPT ![b] = q]

(* The rest of the database stands.                                        *)
LEMMA LinksStand ==
    ASSUME LoginsInv, Alike, UNCHANGED <<links, mailed, opened>>
    PROVE  /\ LinksOK' /\ opened' \subseteq 1 .. mailed' /\ mailed' \in 0 .. MaxLinks
           /\ links' \subseteq [no : 1 .. mailed', account : Accounts, recent : BOOLEAN, valid : BOOLEAN]
           /\ \A a \in Accounts : ~Live(a)' => \A l \in links' : l.account # a
BY AlikeKeeps DEF LoginsInv, LinksOK, LoginLinksWorkOnce, DatabaseTyped

LEMMA LinkProviderKeeps ==
    ASSUME LoginsInv, NEW b \in Browsers, LinkProvider(b)
    PROVE  LoginsInv'
<1> DEFINE r == request[b]
           u == r.login
<1>1. r \in RequestRecord /\ Belongs(r.sub, r.account) /\ r.account \in Accounts
  BY AskedNow DEF LinkProvider, Knows, Belongs, Taken
<1>2. UNCHANGED <<links, mailed, locked, opened, mailer, session, cookie, tab, keys, at, budget, out>>
  BY DEF LinkProvider, people, browsers
<1>3. CASE Done(b) /\ UNCHANGED <<account, linked>>
  BY <1>2, <1>3, Ended DEF people, database
<1>4. CASE /\ Live(r.account)
           /\ \/ UNCHANGED linked
              \/ linked' = [linked EXCEPT ![r.account][r.provider] = r.sub]
           /\ \/ UNCHANGED account
              \/ account' = [account EXCEPT ![r.account].phone = r.phone]
           /\ (To(b, "ensure") /\ u) \/ Done(b)
  <2>1. Alike
    <3>1. CASE UNCHANGED account
      BY <3>1, SameAlike
    <3>2. CASE account' = [account EXCEPT ![r.account].phone = r.phone]
      <4> DEFINE x == account[r.account]
                 n == [x EXCEPT !.phone = r.phone]
      <4>1. account \in [Accounts -> Account] /\ x \in Account /\ r.phone \in Phones
        BY <1>1 DEF LoginsInv, DatabaseTyped, RequestRecord
      <4>2. account' = [account EXCEPT ![r.account] = n]
        BY <3>2, <4>1
      <4>3. n \in Account /\ n.state = x.state /\ n.person = x.person /\ n.email = x.email
            /\ n.token = x.token
        BY <4>1 DEF Account
      <4>4. \A a \in Accounts : account[a].token \in Nat
        BY LoginsAssumption DEF LoginsInv, DatabaseTyped, Account
      <4> HIDE DEF n
      <4> QED
        BY <1>1, <4>1, <4>2, <4>3, <4>4 DEF Alike
    <3> QED
      BY <1>4, <3>1, <3>2
  <2>2. /\ linked' \in [Accounts -> [Providers -> Subs]]
        /\ \A x \in Accounts : ~Live(x)' => ProvidersOf(x)' = {}
        /\ AccountsOK'
        /\ \A x \in Accounts, w \in Providers : linked[x][w] # NoSub => linked'[x][w] # NoSub
    <3>1. CASE linked' = [linked EXCEPT ![r.account][r.provider] = r.sub]
      <4>1. r.provider \in Providers
        BY <1>1 DEF RequestRecord
      <4> QED
        BY <3>1, <4>1, <2>1, <1>1, <1>4, LinkingKeeps
    <3>2. CASE UNCHANGED linked
      <4>1. \A x \in Accounts : (Live(x)' <=> Live(x)) /\ account'[x].person = account[x].person
        BY <2>1, AlikeKeeps DEF Alike
      <4>2. linked' \in [Accounts -> [Providers -> Subs]]
            /\ \A x \in Accounts : ~Live(x)' => ProvidersOf(x)' = {}
        BY <3>2, <4>1 DEF LoginsInv, DatabaseTyped, ProvidersOf
      <4>3. AlwaysALogin' /\ OwnIdentities'
        BY <3>2, <4>1 DEF LoginsInv, AccountsOK, AlwaysALogin, OwnIdentities, ProvidersOf
      <4> QED
        BY <3>2, <4>2, <4>3, <2>1, AlikeKeeps DEF AccountsOK
    <3> QED
      BY <1>4, <3>1, <3>2
  <2>3. PICK q1 \in RequestRecord : /\ Becomes(b, q1)
                                  /\ (q1.phase = "idle" \/ (q1.phase = "ensure" /\ q1.login))
    <3>1. CASE Done(b)
      <4>1. Becomes(b, Idle)
        BY <3>1 DEF Done, Becomes
      <4>2. Idle \in RequestRecord /\ Idle.phase = "idle"
        BY IdleTyped
      <4> HIDE DEF r, u
      <4> QED
        BY <4>1, <4>2
    <3>2. CASE To(b, "ensure") /\ u
      <4> DEFINE n == [r EXCEPT !.phase = "ensure"]
      <4>1. Becomes(b, n)
        BY <3>2 DEF Becomes, To, LoginsInv, BrowsersTyped
      <4>2. r.login
        BY <3>2
      <4> HIDE DEF r
      <4>3. n \in RequestRecord /\ n.phase = "ensure" /\ n.login = r.login
        BY <1>1, PhaseChanged DEF Phases
      <4> HIDE DEF n
      <4> QED
        BY <4>1, <4>2, <4>3
    <3> QED
      BY <1>4, <3>1, <3>2
  <2>4. \A a \in Accounts : Live(a) => Live(a)'
    BY <2>1, AlikeKeeps
  <2>5. HoldersOK'
    BY <1>2, <2>2, <2>3, <2>4, HoldersStay DEF Becomes
  <2>6. DatabaseTyped'
    BY <1>2, <2>1, <2>2, LinksStand DEF LoginsInv, DatabaseTyped, Alike
  <2>7. Writes
    BY <1>2, <2>1, <2>2, <2>5, <2>6, AlikeKeeps, LinksStand DEF Writes
  <2>8. WroteBy(b, q1)
    BY <1>2, <2>3, BudgetStands DEF WroteBy, Becomes, LoginsInv, BrowsersTyped
  <2> QED
    BY <2>7, <2>8, WroteKeeps
<1> QED
  BY <1>3, <1>4 DEF LinkProvider

LEMMA UpdateProviderSubKeeps ==
    ASSUME LoginsInv, NEW b \in Browsers, UpdateProviderSub(b)
    PROVE  LoginsInv'
<1> DEFINE r == request[b]
           u == TRUE
           q == [r EXCEPT !.phase = "ensure", !.login = u]
<1>1. r \in RequestRecord /\ Belongs(r.sub, r.account) /\ r.account \in Accounts
  BY AskedNow DEF UpdateProviderSub, Knows, Belongs, Taken
<1>2. UNCHANGED <<account, links, mailed, locked, opened, mailer, cookie, tab, keys, at, budget, out>>
  BY DEF UpdateProviderSub, people
<1>3. CASE Done(b) /\ UNCHANGED <<linked, session>>
  BY <1>2, <1>3, Ended DEF people, database
<1>4. CASE /\ linked[r.account]["VIPPS"] # NoSub
           /\ linked' = [linked EXCEPT ![r.account]["VIPPS"] = r.sub]
           /\ request' = [request EXCEPT ![b].phase = "ensure", ![b].login = u]
           /\ DestroySession(b)
  <2>1. request' = [request EXCEPT ![b] = q]
    BY <1>4 DEF LoginsInv, BrowsersTyped
  <2>2. Live(r.account)
    BY <1>1, <1>4 DEF LoginsInv, DatabaseTyped, ProvidersOf, Providers
  <2>3. Alike
    BY <1>2, SameAlike
  <2>4. /\ linked' \in [Accounts -> [Providers -> Subs]]
        /\ \A x \in Accounts : ~Live(x)' => ProvidersOf(x)' = {}
        /\ AccountsOK'
        /\ \A x \in Accounts, w \in Providers : linked[x][w] # NoSub => linked'[x][w] # NoSub
    BY <1>1, <1>4, <2>2, <2>3, LinkingKeeps DEF Providers
  <2>5. u \in BOOLEAN /\ u
    OBVIOUS
  <2> HIDE DEF r, u
  <2>6. q \in RequestRecord /\ q.phase = "ensure" /\ q.login = u
    BY <1>1, <2>5 DEF RequestRecord, Phases
  <2> HIDE DEF q
  <2>7. \A a \in Accounts : Live(a) => Live(a)'
    BY <2>3, AlikeKeeps
  <2>8. HoldersOK'
    BY <1>2, <2>1, <2>4, <2>6, <2>7, HoldersStay
  <2>9. DatabaseTyped'
    BY <1>2, <2>3, <2>4, LinksStand DEF LoginsInv, DatabaseTyped, Alike
  <2>10. Writes
    BY <1>2, <2>3, <2>4, <2>8, <2>9, AlikeKeeps, LinksStand DEF Writes
  <2>11. WroteBy(b, q)
    BY <1>2, <1>4, <2>1, <2>5, <2>6, BudgetStands DEF WroteBy, DestroySession, LoginsInv, BrowsersTyped
  <2> QED
    BY <2>10, <2>11, WroteKeeps
<1> QED
  BY <1>3, <1>4 DEF UpdateProviderSub

(* A token that gets younger leaves the rest of the rows.                  *)
LEMMA TokenAlike ==
    ASSUME LoginsInv, NEW a \in Accounts, NEW t \in 0 .. MaxToken, account[a].token <= t,
           account' = [account EXCEPT ![a].token = t]
    PROVE  Alike /\ account'[a].token = t /\ \A x \in Accounts \ {a} : account'[x] = account[x]
<1> DEFINE x == account[a]
           n == [x EXCEPT !.token = t]
<1>1. account \in [Accounts -> Account] /\ x \in Account
  BY DEF LoginsInv, DatabaseTyped
<1>2. account' = [account EXCEPT ![a] = n]
  BY <1>1
<1>3. n \in Account /\ n.state = x.state /\ n.person = x.person /\ n.email = x.email /\ n.token = t
  BY <1>1 DEF Account
<1>4. \A y \in Accounts : account[y].token \in Nat
  BY LoginsAssumption DEF LoginsInv, DatabaseTyped, Account
<1> HIDE DEF n
<1> QED
  BY <1>1, <1>2, <1>3, <1>4 DEF Alike

(* Only the account rows change, and of them what is alike.                *)
LEMMA AlikeWrites ==
    ASSUME LoginsInv, Alike, NEW b \in Browsers, NEW q, request' = [request EXCEPT ![b] = q],
           q.phase # "delete", UNCHANGED <<linked, links, mailed, locked, opened, mailer>>
    PROVE  Writes
<1>1. \A x \in Accounts : (Live(x)' <=> Live(x)) /\ account'[x].person = account[x].person
  BY AlikeKeeps DEF Alike
<1>2. DatabaseTyped'
  BY <1>1 DEF Alike, LoginsInv, DatabaseTyped, ProvidersOf
<1>3. AlwaysALogin' /\ OwnIdentities'
  BY <1>1 DEF LoginsInv, AccountsOK, AlwaysALogin, OwnIdentities, ProvidersOf
<1>4. HoldersOK'
  BY <1>1, HoldersStay
<1> QED
  BY <1>2, <1>3, <1>4, AlikeKeeps, LinksStand DEF Writes, AccountsOK

LEMMA EnsureRefreshTokenIdKeeps ==
    ASSUME LoginsInv, NEW b \in Browsers, EnsureRefreshTokenId(b)
    PROVE  LoginsInv'
<1> DEFINE r == request[b]
           q == [r EXCEPT !.phase = "read"]
<1>1. r \in RequestRecord /\ r.login
  BY AskedNow DEF EnsureRefreshTokenId, Knows
<1>2. UNCHANGED <<linked, links, mailed, locked, opened, mailer, session, cookie, tab, keys, at, budget, out>>
      /\ request' = [request EXCEPT ![b] = q]
  BY DEF EnsureRefreshTokenId, people, browsers, To, LoginsInv, BrowsersTyped
<1>3. Alike
  <2>1. CASE UNCHANGED account
    BY <2>1, SameAlike
  <2>2. CASE Live(r.account) /\ account[r.account].token = 0
             /\ account' = [account EXCEPT ![r.account].token = 1]
    <3>1. r.account \in Accounts /\ account[r.account].token <= 1
      BY <2>2 DEF Live
    <3>2. 1 \in 0 .. MaxToken
      BY LoginsAssumption
    <3> HIDE DEF r
    <3> QED
      BY <2>2, <3>1, <3>2, TokenAlike
  <2> QED
    BY <2>1, <2>2 DEF EnsureRefreshTokenId
<1> HIDE DEF r
<1>4. q \in RequestRecord /\ q.phase = "read" /\ q.login = r.login
  BY <1>1, PhaseChanged DEF Phases
<1> HIDE DEF q
<1>5. Writes
  BY <1>2, <1>3, <1>4, AlikeWrites
<1>6. WroteBy(b, q)
  BY <1>1, <1>2, <1>4, BudgetStands DEF WroteBy, LoginsInv, BrowsersTyped
<1> QED
  BY <1>5, <1>6, WroteKeeps

LEMMA CreateKeeps ==
    ASSUME LoginsInv, NEW b \in Browsers, Create(b)
    PROVE  LoginsInv'
<1> DEFINE r == request[b]
           u == TRUE
           next == {a \in Accounts : account[a].state = "free"}
           new == CHOOSE i \in next : TRUE
           email == EmailOf[<<r.provider, r.person>>]
           row == [state |-> "live", person |-> r.person, email |-> email, phone |-> r.phone, token |-> 0]
<1>1. r \in RequestRecord /\ r.sub \in OneSubs /\ r.sub[1] = r.person
  BY AskedNow DEF Create, Knows
<1>2. UNCHANGED <<links, mailed, locked, opened, mailer, cookie, tab, keys, at, budget, out>>
  BY DEF Create, people
<1>3. CASE Done(b) /\ UNCHANGED <<account, linked, session>>
  BY <1>2, <1>3, Ended DEF people, database
<1>4. CASE /\ next # {}
           /\ account' = [account EXCEPT ![new] = row]
           /\ linked' = [linked EXCEPT ![new][r.provider] = r.sub]
           /\ request' = [request EXCEPT ![b].phase = "ensure", ![b].account = new, ![b].login = u]
           /\ DestroySession(b)
  <2>1. PICK a \in Accounts : a = new /\ account[a].state = "free"
    BY <1>4
  <2> DEFINE q == [r EXCEPT !.phase = "ensure", !.account = a, !.login = u]
  <2>2. request' = [request EXCEPT ![b] = q]
    BY <1>4, <2>1 DEF LoginsInv, BrowsersTyped
  <2>3. r.sub \in Subs /\ r.sub # NoSub /\ r.provider \in Providers /\ r.person \in People
    <3>1. PICK p \in People, k \in {0, 1} : r.sub = <<p, k>>
      BY <1>1 DEF OneSubs
    <3>2. r.sub # NoSub
      BY <3>1 DEF NoSub
    <3> QED
      BY <1>1, <3>2 DEF RequestRecord
  <2>4. row \in Account /\ row.state = "live" /\ row.person = r.person /\ row.email = email
    <3>1. email \in {EmailOf[k] : k \in DOMAIN EmailOf}
      BY <2>3, LoginsAssumption
    <3> HIDE DEF email
    <3> QED
      BY <1>1, <2>3, <3>1, LoginsAssumption DEF Account, RequestRecord
  <2>5. /\ account' = [account EXCEPT ![a] = row]
        /\ linked' = [linked EXCEPT ![a][r.provider] = r.sub]
    BY <1>4, <2>1
  <2>6. u \in BOOLEAN /\ u
    OBVIOUS
  <2>7. email = EmailOf[<<r.provider, r.person>>]
    OBVIOUS
  <2> HIDE DEF r, u, row, new, email, next
  <2>8. q \in RequestRecord /\ q.phase = "ensure" /\ q.login = u
    BY <1>1, <2>6 DEF RequestRecord, Phases
  <2> HIDE DEF q
  <2>9. /\ account \in [Accounts -> Account] /\ linked \in [Accounts -> [Providers -> Subs]]
        /\ ~Live(a) /\ ProvidersOf(a) = {}
    BY <2>1 DEF LoginsInv, DatabaseTyped, Live
  <2>10. /\ account' \in [Accounts -> Account] /\ linked' \in [Accounts -> [Providers -> Subs]]
         /\ account'[a] = row /\ linked'[a][r.provider] = r.sub
         /\ \A w \in Providers \ {r.provider} : linked'[a][w] = linked[a][w]
         /\ \A x \in Accounts \ {a} : account'[x] = account[x] /\ linked'[x] = linked[x]
    BY <2>3, <2>4, <2>5, <2>9
  <2>11. \A w \in Providers \ {r.provider} : linked'[a][w] = NoSub
    BY <2>9, <2>10 DEF ProvidersOf
  <2>12. \A x \in Accounts : Live(x) => x # a /\ Live(x)'
    BY <2>9, <2>10 DEF Live
  <2>13. \A x \in Accounts : x # a => (Live(x)' <=> Live(x))
    BY <2>10 DEF Live
  <2>14. Live(a)'
    BY <2>4, <2>10 DEF Live
  <2>15. Grows
    <3>1. \A x \in Accounts : account[x].token \in Nat
      BY <2>9, LoginsAssumption DEF Account
    <3> QED
      BY <2>1, <2>10, <2>13, <3>1 DEF Grows, Taken
  <2>16. DatabaseTyped'
    <3>1. ASSUME NEW x \in Accounts, ~Live(x)'
          PROVE  ProvidersOf(x)' = {} /\ \A l \in links' : l.account # x
      <4>1. x # a /\ ~Live(x)
        BY <3>1, <2>13, <2>14
      <4> QED
        BY <1>2, <4>1, <2>10 DEF LoginsInv, DatabaseTyped, ProvidersOf
    <3> QED
      BY <1>2, <2>10, <3>1 DEF LoginsInv, DatabaseTyped
  <2>17. AlwaysALogin'
    BY <2>3, <2>10, <2>13 DEF LoginsInv, AccountsOK, AlwaysALogin, ProvidersOf
  <2>18. OwnIdentities'
    <3> SUFFICES ASSUME NEW x \in Accounts, NEW w \in Providers, linked'[x][w] # NoSub
                 PROVE  linked'[x][w][1] = account'[x].person
      BY DEF OwnIdentities
    <3>1. CASE x = a
      BY <3>1, <1>1, <2>4, <2>10, <2>11
    <3>2. CASE x # a
      BY <3>2, <2>10 DEF LoginsInv, AccountsOK, OwnIdentities
    <3> QED
      BY <3>1, <3>2
  <2>19. EmailsTheirs'
    <3> SUFFICES ASSUME NEW x \in Accounts, Live(x)'
                 PROVE  \E v \in Providers : account'[x].email = EmailOf[<<v, account'[x].person>>]
      BY DEF EmailsTheirs
    <3>1. CASE x = a
      BY <3>1, <2>3, <2>4, <2>7, <2>10
    <3>2. CASE x # a
      BY <3>2, <2>10, <2>13 DEF LoginsInv, AccountsOK, EmailsTheirs
    <3> QED
      BY <3>1, <3>2
  <2>20. HoldersOK'
    <3>1. \A x \in Accounts, v \in Providers : linked[x][v] # NoSub => linked'[x][v] # NoSub
      BY <2>9, <2>10 DEF ProvidersOf
    <3> QED
      BY <1>2, <2>2, <2>8, <2>12, <3>1, HoldersStay
  <2>21. LinksOK'
    BY <1>2 DEF LoginsInv, LinksOK, LoginLinksWorkOnce
  <2>22. Writes
    BY <2>15, <2>16, <2>17, <2>18, <2>19, <2>20, <2>21 DEF Writes, AccountsOK
  <2>23. WroteBy(b, q)
    BY <1>2, <1>4, <2>2, <2>6, <2>8, BudgetStands DEF WroteBy, DestroySession, LoginsInv, BrowsersTyped
  <2> QED
    BY <2>22, <2>23, WroteKeeps
<1> QED
  BY <1>3, <1>4 DEF Create

-----------------------------------------------------------------------------
(* Unlinking, logging out, deleting the account.                           *)

(* Who has more than one provider has both.                                *)
LEMMA MoreThanOneIsBoth ==
    ASSUME NEW a \in Accounts, Cardinality(ProvidersOf(a)) > 1
    PROVE  \A v \in Providers : linked[a][v] # NoSub
<1> SUFFICES ASSUME NEW v \in Providers, linked[a][v] = NoSub PROVE FALSE
  OBVIOUS
<1>1. PICK w \in Providers : Providers \ {v} = {w}
  <2>1. CASE v = "VIPPS"
    BY <2>1 DEF Providers
  <2>2. CASE v = "GOOGLE"
    BY <2>2 DEF Providers
  <2> QED
    BY <2>1, <2>2 DEF Providers
<1>2. ProvidersOf(a) \subseteq {w}
  BY <1>1 DEF ProvidersOf
<1>3. IsFiniteSet({w}) /\ Cardinality({w}) = 1
  BY FS_Singleton
<1>4. Cardinality(ProvidersOf(a)) <= 1 /\ Cardinality(ProvidersOf(a)) \in Nat
  BY <1>2, <1>3, FS_Subset, FS_CardinalityType
<1> QED
  BY <1>4

LEMMA UnlinkCountKeeps ==
    ASSUME LoginsInv, NEW b \in Browsers, UnlinkCount(b)
    PROVE  LoginsInv'
<1> DEFINE r == request[b]
           q == [r EXCEPT !.phase = "delete"]
<1>1. r \in RequestRecord /\ r.account \in Accounts /\ r.phase = "unlink"
  BY AskedNow DEF UnlinkCount, Knows
<1>2. UNCHANGED <<account, linked, links, mailed, opened, mailer, session, cookie, tab, keys, at, budget, out>>
  BY DEF UnlinkCount, people, browsers
<1>3. CASE Done(b) /\ UNCHANGED locked
  BY <1>2, <1>3, Ended DEF people, database
<1>4. CASE /\ Unlocked(r.account) /\ Cardinality(ProvidersOf(r.account)) > 1
           /\ locked' = [locked EXCEPT ![r.account] = "held"] /\ To(b, "delete")
  <2>1. PICK a \in Accounts : a = r.account
    BY <1>1
  <2>2. request' = [request EXCEPT ![b] = q]
    BY <1>4 DEF To, LoginsInv, BrowsersTyped
  <2>3. /\ locked[a] = "free" /\ locked' = [locked EXCEPT ![a] = "held"]
        /\ \A v \in Providers : linked[a][v] # NoSub
    BY <1>4, <2>1, MoreThanOneIsBoth DEF Unlocked
  <2> HIDE DEF r
  <2>4. q \in RequestRecord /\ q.phase = "delete" /\ q.account = a
    BY <1>1, <2>1, PhaseChanged DEF Phases
  <2> HIDE DEF q
  <2>5. /\ request'[b] = q /\ \A c \in Browsers \ {b} : request'[c] = request[c]
        /\ locked \in [Accounts -> {"free", "held"}]
        /\ locked'[a] = "held" /\ \A x \in Accounts \ {a} : locked'[x] = locked[x]
    BY <2>2, <2>3 DEF LoginsInv, BrowsersTyped, DatabaseTyped
  <2>6. \A c \in Browsers \ {b} : Deleting(c)' => Deleting(c) /\ request[c].account # a
    BY <2>3, <2>5 DEF LoginsInv, HoldersOK, Deleting
  <2>7. \A c \in Browsers : Deleting(c) => request[c].account \in Accounts
    BY AskedNow DEF Deleting, Knows
  <2>8. \A m \in Mailers : mailer[m].account # 0 => mailer[m].account \in Accounts \ {a}
    BY <2>3 DEF LoginsInv, HoldersOK, Live
  <2>9. HoldersOK'
    <3>1. ASSUME NEW c \in Browsers, Deleting(c)'
          PROVE  /\ locked'[request'[c].account] = "held"
                 /\ \A v \in Providers : linked'[request'[c].account][v] # NoSub
      <4>1. CASE c = b
        BY <4>1, <1>2, <2>3, <2>4, <2>5
      <4>2. CASE c # b
        BY <4>2, <1>2, <3>1, <2>5, <2>6, <2>7 DEF LoginsInv, HoldersOK
      <4> QED
        BY <4>1, <4>2
    <3>2. \A c, d \in Browsers :
             Deleting(c)' /\ Deleting(d)' /\ request'[c].account = request'[d].account => c = d
      BY <2>4, <2>5, <2>6 DEF LoginsInv, HoldersOK
    <3>3. ASSUME NEW m \in Mailers, mailer[m].account # 0
          PROVE  /\ Live(mailer[m].account)' /\ locked'[mailer'[m].account] = "held"
                 /\ \A c \in Browsers : Deleting(c)' => request'[c].account # mailer'[m].account
                 /\ \A n \in Mailers : mailer'[n].account = mailer'[m].account => n = m
      <4>1. Live(mailer[m].account)'
        BY <1>2, <3>3 DEF LoginsInv, HoldersOK, Live
      <4>2. \A c \in Browsers : Deleting(c)' => request'[c].account # mailer'[m].account
        BY <1>2, <3>3, <2>4, <2>5, <2>6, <2>8 DEF LoginsInv, HoldersOK
      <4> QED
        BY <4>1, <4>2, <1>2, <3>3, <2>5, <2>8 DEF LoginsInv, HoldersOK
    <3>4. \A m \in Mailers : mailer'[m].deleted =>
             mailer'[m].account # 0 /\ \A l \in links' : l.account # mailer'[m].account
      BY <1>2 DEF LoginsInv, HoldersOK
    <3> QED
      BY <1>2, <3>1, <3>2, <3>3, <3>4 DEF HoldersOK
  <2>10. Alike
    BY <1>2, SameAlike
  <2>11. DatabaseTyped' /\ AccountsOK' /\ LinksOK'
    <3>1. DatabaseTyped'
      BY <1>2, <2>3 DEF LoginsInv, DatabaseTyped, ProvidersOf, Live
    <3>2. AlwaysALogin' /\ OwnIdentities'
      BY <1>2 DEF LoginsInv, AccountsOK, AlwaysALogin, OwnIdentities, ProvidersOf, Live
    <3> QED
      BY <1>2, <2>10, <3>1, <3>2, AlikeKeeps, LinksStand DEF AccountsOK
  <2>12. Writes
    BY <2>9, <2>10, <2>11, AlikeKeeps DEF Writes
  <2>13. WroteBy(b, q)
    BY <1>2, <2>2, <2>4, BudgetStands DEF WroteBy, LoginsInv, BrowsersTyped
  <2> QED
    BY <2>12, <2>13, WroteKeeps
<1> QED
  BY <1>3, <1>4 DEF UnlinkCount

LEMMA UnlinkDeleteKeeps ==
    ASSUME LoginsInv, NEW b \in Browsers, UnlinkDelete(b)
    PROVE  LoginsInv'
<1>1. PICK a \in Accounts : a = request[b].account
  BY AskedNow DEF UnlinkDelete, Knows
<1>2. PICK v \in Providers : v = request[b].provider
  BY AskedNow DEF RequestRecord
<1>3. /\ UNCHANGED <<account, links, mailed, opened, mailer, session, cookie, tab, keys, at, budget, out>>
      /\ linked' = [linked EXCEPT ![a][v] = NoSub] /\ locked' = [locked EXCEPT ![a] = "free"]
      /\ request' = [request EXCEPT ![b] = Idle] /\ Deleting(b)
  BY <1>1, <1>2 DEF UnlinkDelete, Release, Done, people, browsers, Deleting
<1>4. /\ linked \in [Accounts -> [Providers -> Subs]] /\ locked \in [Accounts -> {"free", "held"}]
      /\ linked' \in [Accounts -> [Providers -> Subs]] /\ locked' \in [Accounts -> {"free", "held"}]
      /\ linked'[a][v] = NoSub /\ \A w \in Providers \ {v} : linked'[a][w] = linked[a][w]
      /\ \A x \in Accounts \ {a} : linked'[x] = linked[x] /\ locked'[x] = locked[x]
      /\ request'[b] = Idle /\ \A c \in Browsers \ {b} : request'[c] = request[c]
  BY <1>3 DEF LoginsInv, DatabaseTyped, BrowsersTyped, Subs
<1>5. /\ \A w \in Providers : linked[a][w] # NoSub
      /\ \A c \in Browsers \ {b} : Deleting(c) => request[c].account # a
      /\ \A m \in Mailers : mailer[m].account # 0 => mailer[m].account # a
  BY <1>1, <1>3 DEF LoginsInv, HoldersOK
<1>6. \A c \in Browsers : Deleting(c)' => c # b /\ Deleting(c)
  BY <1>4, IdleTyped DEF Deleting
<1>7. \A c \in Browsers : Deleting(c) => request[c].account \in Accounts
  BY AskedNow DEF Deleting, Knows
<1>8. \A m \in Mailers : mailer[m].account # 0 => mailer[m].account \in Accounts \ {a}
  BY <1>5 DEF LoginsInv, HoldersOK, Live
<1>9. HoldersOK'
  <2>1. \A c \in Browsers : Deleting(c)' =>
           /\ locked'[request'[c].account] = "held"
           /\ \A w \in Providers : linked'[request'[c].account][w] # NoSub
    BY <1>4, <1>5, <1>6, <1>7 DEF LoginsInv, HoldersOK
  <2>2. \A c, d \in Browsers :
           Deleting(c)' /\ Deleting(d)' /\ request'[c].account = request'[d].account => c = d
    BY <1>4, <1>6 DEF LoginsInv, HoldersOK
  <2>3. ASSUME NEW m \in Mailers, mailer[m].account # 0
        PROVE  /\ Live(mailer[m].account)' /\ locked'[mailer'[m].account] = "held"
               /\ \A c \in Browsers : Deleting(c)' => request'[c].account # mailer'[m].account
               /\ \A n \in Mailers : mailer'[n].account = mailer'[m].account => n = m
    <3>1. Live(mailer[m].account)'
      BY <1>3, <2>3 DEF LoginsInv, HoldersOK, Live
    <3> QED
      BY <3>1, <1>3, <1>4, <1>6, <1>8, <2>3 DEF LoginsInv, HoldersOK
  <2>4. \A m \in Mailers : mailer'[m].deleted =>
           mailer'[m].account # 0 /\ \A l \in links' : l.account # mailer'[m].account
    BY <1>3 DEF LoginsInv, HoldersOK
  <2> QED
    BY <1>3, <2>1, <2>2, <2>3, <2>4 DEF HoldersOK
<1>10. Alike
  BY <1>3, SameAlike
<1>11. \A x \in Accounts : ProvidersOf(x)' \subseteq ProvidersOf(x)
  BY <1>4, <1>5 DEF ProvidersOf
<1>12. DatabaseTyped'
  BY <1>3, <1>4, <1>11 DEF LoginsInv, DatabaseTyped, Live
<1>13. AlwaysALogin'
  <2> SUFFICES ASSUME NEW x \in Accounts, Live(x) PROVE ProvidersOf(x)' # {}
    BY <1>3 DEF AlwaysALogin, Live
  <2>1. CASE x = a
    <3>1. PICK w \in Providers : w # v
      BY DEF Providers
    <3> QED
      BY <2>1, <3>1, <1>4, <1>5 DEF ProvidersOf
  <2>2. CASE x # a
    BY <2>2, <1>4 DEF LoginsInv, AccountsOK, AlwaysALogin, ProvidersOf
  <2> QED
    BY <2>1, <2>2
<1>14. OwnIdentities'
  <2> SUFFICES ASSUME NEW x \in Accounts, NEW w \in Providers, linked'[x][w] # NoSub
               PROVE  linked'[x][w][1] = account'[x].person
    BY DEF OwnIdentities
  <2>1. linked'[x][w] = linked[x][w]
    BY <1>4
  <2> QED
    BY <2>1, <1>3 DEF LoginsInv, AccountsOK, OwnIdentities
<1>15. Writes
  BY <1>3, <1>9, <1>10, <1>12, <1>13, <1>14, AlikeKeeps, LinksStand DEF Writes, AccountsOK
<1>16. WroteBy(b, Idle)
  BY <1>3, IdleTyped, BudgetStands DEF WroteBy, LoginsInv, BrowsersTyped
<1> QED
  BY <1>15, <1>16, WroteKeeps

(* Everybody whose cookies, or whose refresh under way, are the account's  *)
(* has an id no younger than the token was.                                *)
LEMMA LogoutKeeps ==
    ASSUME LoginsInv, NEW b \in Browsers, Logout(b)
    PROVE  LoginsInv'
<1>1. PICK a \in Accounts : a = request[b].account
  BY AskedNow DEF Logout, Knows
<1> DEFINE here == {c \in Browsers : \/ cookie[c].account = a
                                     \/ /\ request[c].phase = "issue" /\ ~request[c].login
                                        /\ request[c].account = a}
<1>2. /\ UNCHANGED <<linked, links, mailed, locked, opened, mailer, session, tab, keys, at, budget>>
      /\ request' = [request EXCEPT ![b] = Idle]
  BY DEF Logout, Done, people
<1>3. CASE UNCHANGED <<account, cookie, out>>
  <2>1. Alike
    BY <1>3, SameAlike
  <2>2. Writes
    BY <1>2, <2>1, IdleTyped, AlikeWrites
  <2>3. WroteBy(b, Idle)
    BY <1>2, <1>3, IdleTyped, BudgetStands DEF WroteBy, LoginsInv, BrowsersTyped
  <2> QED
    BY <2>2, <2>3, WroteKeeps
<1>4. CASE /\ Live(a) /\ account[a].token < MaxToken
           /\ account' = [account EXCEPT ![a].token = @ + 1]
           /\ cookie' = [cookie EXCEPT ![b] = NoCookie]
           /\ out' = out \union here
  <2>1. account[a].token \in 0 .. MaxToken
    BY DEF LoginsInv, DatabaseTyped, Account
  <2>2. PICK t \in 0 .. MaxToken : /\ t = account[a].token + 1 /\ account[a].token <= t
                               /\ \A i \in 0 .. account[a].token : i # t
    <3>1. \A k \in 0 .. MaxToken : k < MaxToken => /\ k + 1 \in 0 .. MaxToken /\ k <= k + 1
                                                   /\ \A i \in 0 .. k : i # k + 1
      BY LoginsAssumption
    <3> HIDE DEF here
    <3> QED
      BY <1>4, <2>1, <3>1
  <2>3. account' = [account EXCEPT ![a].token = t]
    BY <1>4, <2>2
  <2>4. Alike /\ account'[a].token = t
    BY <2>2, <2>3, TokenAlike
  <2>5. Writes
    BY <1>2, <2>4, IdleTyped, AlikeWrites
  <2>6. ASSUME NEW c \in here PROVE ~Valid(c)'
    <3>1. CASE c = b
      <4>1. cookie'[c].account = 0
        BY <1>4, <3>1, NoCookieTyped DEF LoginsInv, BrowsersTyped
      <4> QED
        BY <4>1, NumbersOfAccounts DEF Valid, Live
    <3>2. CASE c # b
      <4>1. c \in Browsers /\ cookie'[c] = cookie[c]
        BY <1>4, <3>2 DEF LoginsInv, BrowsersTyped
      <4>2. cookie[c].account = a
        BY <2>6, AskedNow DEF Knows
      <4>3. cookie[c].id <= account[a].token /\ cookie[c].id \in 0 .. MaxToken
        BY <4>1, <4>2, NumbersOfAccounts, AskedNow DEF BrowserOK, Kept, Cookie
      <4>4. cookie[c].id \in 0 .. account[a].token
        BY <2>1, <4>3, LoginsAssumption
      <4> QED
        BY <2>2, <2>4, <4>1, <4>2, <4>4 DEF Valid
    <3> QED
      BY <3>1, <3>2
  <2>7. WroteBy(b, Idle)
    BY <1>2, <1>4, <2>6, IdleTyped, BudgetStands DEF WroteBy, LoginsInv, BrowsersTyped
  <2> QED
    BY <2>5, <2>7, WroteKeeps
<1> QED
  BY <1>1, <1>3, <1>4 DEF Logout

LEMMA DeleteUserKeeps ==
    ASSUME LoginsInv, NEW b \in Browsers, DeleteUser(b)
    PROVE  LoginsInv'
<1>1. PICK a \in Accounts : a = request[b].account
  BY AskedNow DEF DeleteUser, Knows
<1>2. /\ UNCHANGED <<mailed, locked, opened, mailer, session, tab, keys, at, budget, out>>
      /\ request' = [request EXCEPT ![b] = Idle] /\ Unlocked(a)
  BY <1>1 DEF DeleteUser, Done, people
<1>3. CASE UNCHANGED <<account, linked, links, cookie>>
  BY <1>2, <1>3, Ended DEF Done, people, database
<1>4. CASE /\ Live(a)
           /\ account' = [account EXCEPT ![a].state = "gone"]
           /\ linked' = [linked EXCEPT ![a] = [v \in Providers |-> NoSub]]
           /\ links' = {l \in links : l.account # a}
           /\ cookie' = [cookie EXCEPT ![b] = NoCookie]
  <2> DEFINE x == account[a]
             n == [x EXCEPT !.state = "gone"]
  <2>1. account \in [Accounts -> Account] /\ x \in Account /\ linked \in [Accounts -> [Providers -> Subs]]
    BY DEF LoginsInv, DatabaseTyped
  <2>2. account' = [account EXCEPT ![a] = n]
    BY <1>4, <2>1
  <2>3. n \in Account /\ n.state = "gone" /\ n.person = x.person /\ n.email = x.email
        /\ n.token = x.token
    BY <2>1 DEF Account
  <2>4. x = account[a]
    OBVIOUS
  <2> HIDE DEF n, x
  <2>5. /\ account' \in [Accounts -> Account] /\ account'[a] = n
        /\ linked' \in [Accounts -> [Providers -> Subs]] /\ \A v \in Providers : linked'[a][v] = NoSub
        /\ \A y \in Accounts \ {a} : account'[y] = account[y] /\ linked'[y] = linked[y]
    BY <1>4, <2>1, <2>2, <2>3 DEF Subs
  <2>6. \A y \in Accounts : Live(y)' => y # a /\ Live(y)
    BY <2>3, <2>5 DEF Live
  <2>7. \A y \in Accounts : Live(y) /\ y # a => Live(y)'
    BY <2>5 DEF Live
  <2>8. Grows
    <3>1. \A y \in Accounts : account[y].token \in Nat
      BY <2>1, LoginsAssumption DEF Account
    <3> QED
      BY <2>3, <2>4, <2>5, <2>6, <3>1 DEF Grows, Taken
  <2>9. DatabaseTyped'
    <3>1. \A y \in Accounts : ~Live(y)' => ProvidersOf(y)' = {}
      BY <2>1, <2>5, <2>7 DEF LoginsInv, DatabaseTyped, ProvidersOf
    <3>2. \A y \in Accounts : ~Live(y)' => \A l \in links' : l.account # y
      BY <1>4, <2>7 DEF LoginsInv, DatabaseTyped
    <3>3. links' \subseteq [no : 1 .. mailed', account : Accounts, recent : BOOLEAN, valid : BOOLEAN]
      BY <1>2, <1>4 DEF LoginsInv, DatabaseTyped
    <3> QED
      BY <1>2, <2>5, <3>1, <3>2, <3>3 DEF LoginsInv, DatabaseTyped
  <2>10. AlwaysALogin'
    BY <2>5, <2>6 DEF LoginsInv, AccountsOK, AlwaysALogin, ProvidersOf
  <2>11. OwnIdentities'
    <3> SUFFICES ASSUME NEW y \in Accounts, NEW w \in Providers, linked'[y][w] # NoSub
                 PROVE  linked'[y][w][1] = account'[y].person
      BY DEF OwnIdentities
    <3>1. y # a
      BY <2>5
    <3> QED
      BY <3>1, <2>5 DEF LoginsInv, AccountsOK, OwnIdentities
  <2>12. EmailsTheirs'
    BY <2>5, <2>6 DEF LoginsInv, AccountsOK, EmailsTheirs
  <2>13. LinksOK'
    BY <1>2, <1>4 DEF LoginsInv, LinksOK, LoginLinksWorkOnce
  <2>14. HoldersOK'
    <3>1. \A y \in Accounts : Unlocked(y) \/
             /\ Live(y) => Live(y)'
             /\ \A v \in Providers : linked[y][v] # NoSub => linked'[y][v] # NoSub
      BY <1>2, <2>5, <2>7
    <3>2. links' \subseteq links
      BY <1>4
    <3> QED
      BY <1>2, <3>1, <3>2, IdleTyped, HoldersStay
  <2>15. Writes
    BY <2>8, <2>9, <2>10, <2>11, <2>12, <2>13, <2>14 DEF Writes, AccountsOK
  <2>16. WroteBy(b, Idle)
    BY <1>2, <1>4, IdleTyped, BudgetStands DEF WroteBy, LoginsInv, BrowsersTyped
  <2> QED
    BY <2>15, <2>16, WroteKeeps
<1> QED
  BY <1>1, <1>3, <1>4 DEF DeleteUser

-----------------------------------------------------------------------------
(* Login links, and the keys of Vipps.                                     *)

(* Steps that leave accounts and providers alone.                          *)
LEMMA RowsStand ==
    ASSUME LoginsInv, UNCHANGED <<account, linked>>
    PROVE  /\ Grows /\ AccountsOK' /\ \A a \in Accounts : Live(a)' <=> Live(a)
           /\ \A a \in Accounts : ~Live(a)' => ProvidersOf(a)' = {}
<1>1. Alike
  BY SameAlike
<1>2. AlwaysALogin' /\ OwnIdentities' /\ \A a \in Accounts : ~Live(a)' => ProvidersOf(a)' = {}
  BY DEF LoginsInv, AccountsOK, DatabaseTyped, AlwaysALogin, OwnIdentities, ProvidersOf, Live
<1> QED
  BY <1>1, <1>2, AlikeKeeps DEF AccountsOK

LEMMA RotateKeysKeeps ==
    ASSUME LoginsInv, RotateKeys
    PROVE  LoginsInv'
<1>1. UNCHANGED <<account, linked, links, mailed, locked, at, opened, mailer, browsers, request, out>>
      /\ keys' = 1 /\ Spend
  BY DEF RotateKeys, database
<1>2. DatabaseTyped' /\ LinksOK' /\ HoldersOK'
  BY <1>1, RowsStand DEF LoginsInv, DatabaseTyped, LinksOK, LoginLinksWorkOnce, HoldersOK, Deleting, Live
<1> QED
  BY <1>1, <1>2, RowsStand, SpendTyped, QuietWriteKeeps DEF Writes

LEMMA VerifyKeeps ==
    ASSUME LoginsInv, NEW b \in Browsers, NEW no \in 1 .. MaxLinks, Verify(b, no)
    PROVE  LoginsInv'
<1>1. PICK l \in links : /\ l.no = no /\ links' = links \ {l}
                         /\ \/ /\ request' = [request EXCEPT ![b] = [Idle EXCEPT !.phase = "ensure",
                                                 !.account = l.account, !.login = TRUE]]
                               /\ opened' = opened \union {no}
                            \/ UNCHANGED <<request, opened>>
  BY Zenon DEF Verify
<1>2. /\ UNCHANGED <<account, linked, mailed, locked, keys, at, mailer, tab, session, cookie, out>>
      /\ Spend /\ request[b].phase = "idle"
  BY DEF Verify, Asks, browsers
<1>3. l \in [no : 1 .. mailed, account : Accounts, recent : BOOLEAN, valid : BOOLEAN]
  BY DEF LoginsInv, DatabaseTyped
<1> DEFINE u == TRUE
           a == l.account
           q == [Idle EXCEPT !.phase = "ensure", !.account = a, !.login = u]
<1>4. a \in Accounts /\ u \in BOOLEAN /\ u /\ no \in 1 .. mailed
  BY <1>1, <1>3
<1>5. request' = [request EXCEPT ![b] = q] \/ request' = [request EXCEPT ![b] = request[b]]
  BY <1>1, Same
<1> HIDE DEF u, a
<1>6. q \in RequestRecord /\ q.phase = "ensure" /\ q.login
  BY <1>4, IdleTyped DEF RequestRecord, Phases
<1> HIDE DEF q
<1>7. DatabaseTyped'
  <2>1. opened' \subseteq 1 .. mailed'
    BY <1>1, <1>2, <1>4 DEF LoginsInv, DatabaseTyped
  <2> QED
    BY <1>1, <1>2, <2>1, RowsStand DEF LoginsInv, DatabaseTyped
<1>8. LinksOK'
  <2>1. \A k \in links' : k.no \notin opened'
    BY <1>1 DEF LoginsInv, LinksOK, LoginLinksWorkOnce
  <2> QED
    BY <1>1, <2>1 DEF LoginsInv, LinksOK, LoginLinksWorkOnce
<1>9. HoldersOK'
  <2>1. links' \subseteq links
    BY <1>1
  <2> QED
    BY <1>2, <1>5, <1>6, <2>1, RowsStand, HoldersStay
<1>10. Writes
  BY <1>2, <1>7, <1>8, <1>9, RowsStand DEF Writes
<1>11. WroteBy(b, q) \/ WroteBy(b, request[b])
  BY <1>2, <1>5, <1>6, SpendTyped, AskedNow DEF WroteBy, LoginsInv, BrowsersTyped
<1> QED
  BY <1>10, <1>11, WroteKeeps

LEMMA LookForRecentKeeps ==
    ASSUME LoginsInv, NEW m \in Mailers, NEW a \in Accounts, LookForRecent(m, a)
    PROVE  LoginsInv'
<1>1. /\ UNCHANGED <<account, linked, links, mailed, keys, at, opened, browsers, request, out>>
      /\ Spend /\ mailer[m].account = 0 /\ Live(a) /\ locked[a] = "free"
  BY DEF LookForRecent, Unlocked
<1>2. mailer \in [Mailers -> [account : {0} \union Accounts, deleted : BOOLEAN]]
      /\ locked \in [Accounts -> {"free", "held"}]
  BY DEF LoginsInv, DatabaseTyped
<1>3. CASE UNCHANGED <<mailer, locked>>
  <2>1. DatabaseTyped' /\ LinksOK' /\ HoldersOK'
    BY <1>1, <1>3, RowsStand DEF LoginsInv, DatabaseTyped, LinksOK, LoginLinksWorkOnce, HoldersOK, Deleting, Live
  <2> QED
    BY <1>1, <2>1, RowsStand, SpendTyped, QuietWriteKeeps DEF Writes, LoginsInv, BrowsersTyped
<1>4. CASE mailer' = [mailer EXCEPT ![m].account = a] /\ locked' = [locked EXCEPT ![a] = "held"]
  <2> DEFINE x == mailer[m]
             n == [x EXCEPT !.account = a]
  <2>1. mailer' = [mailer EXCEPT ![m] = n] /\ x \in [account : {0} \union Accounts, deleted : BOOLEAN]
    BY <1>2, <1>4
  <2>2. ~x.deleted
    BY <1>1 DEF LoginsInv, HoldersOK
  <2> HIDE DEF x
  <2>3. n \in [account : {0} \union Accounts, deleted : BOOLEAN] /\ n.account = a /\ n.deleted = x.deleted
    BY <2>1
  <2> HIDE DEF n
  <2>4. /\ mailer' \in [Mailers -> [account : {0} \union Accounts, deleted : BOOLEAN]]
        /\ mailer'[m] = n /\ \A o \in Mailers \ {m} : mailer'[o] = mailer[o]
        /\ locked' \in [Accounts -> {"free", "held"}] /\ locked'[a] = "held"
        /\ \A y \in Accounts \ {a} : locked'[y] = locked[y]
    BY <1>2, <1>4, <2>1, <2>3
  <2>5. DatabaseTyped' /\ LinksOK'
    BY <1>1, <2>4, RowsStand DEF LoginsInv, DatabaseTyped, LinksOK, LoginLinksWorkOnce
  <2>6. \A c \in Browsers : Deleting(c) => request[c].account \in Accounts \ {a}
    BY <1>1, AskedNow DEF LoginsInv, HoldersOK, Deleting, Knows
  <2>7. \A o \in Mailers : mailer[o].account # 0 => mailer[o].account \in Accounts \ {a}
    BY <1>1 DEF LoginsInv, HoldersOK, Live
  <2>8. HoldersOK'
    <3>1. /\ \A c \in Browsers : Deleting(c)' =>
                /\ locked'[request'[c].account] = "held"
                /\ \A v \in Providers : linked'[request'[c].account][v] # NoSub
          /\ \A b, c \in Browsers :
                Deleting(b)' /\ Deleting(c)' /\ request'[b].account = request'[c].account => b = c
      BY <1>1, <2>4, <2>6 DEF LoginsInv, HoldersOK, Deleting
    <3>2. ASSUME NEW o \in Mailers, mailer'[o].account # 0
          PROVE  /\ locked'[mailer'[o].account] = "held"
                 /\ \A c \in Browsers : Deleting(c)' => request'[c].account # mailer'[o].account
                 /\ \A p \in Mailers : mailer'[p].account = mailer'[o].account => p = o
      <4>1. CASE o = m
        BY <4>1, <1>1, <2>3, <2>4, <2>6, <2>7, NumbersOfAccounts DEF Deleting
      <4>2. CASE o # m
        BY <4>2, <3>2, <1>1, <2>3, <2>4, <2>7 DEF LoginsInv, HoldersOK, Deleting
      <4> QED
        BY <4>1, <4>2
    <3>3. \A o \in Mailers : mailer'[o].account # 0 =>
             mailer'[o].account \in Accounts /\ account'[mailer'[o].account].state = "live"
      BY <1>1, <2>3, <2>4 DEF LoginsInv, HoldersOK, Live
    <3>4. \A o \in Mailers : mailer'[o].deleted =>
             mailer'[o].account # 0 /\ \A l \in links' : l.account # mailer'[o].account
      BY <1>1, <2>2, <2>3, <2>4 DEF LoginsInv, HoldersOK
    <3> QED
      BY <3>1, <3>2, <3>3, <3>4 DEF HoldersOK, Live
  <2> QED
    BY <1>1, <2>5, <2>8, RowsStand, SpendTyped, QuietWriteKeeps DEF Writes, LoginsInv, BrowsersTyped
<1> QED
  BY <1>3, <1>4 DEF LookForRecent

LEMMA DeleteOlderKeeps ==
    ASSUME LoginsInv, NEW m \in Mailers, DeleteOlder(m)
    PROVE  LoginsInv'
<1> DEFINE x == mailer[m]
           u == TRUE
           n == [x EXCEPT !.deleted = u]
<1>1. /\ UNCHANGED <<account, linked, mailed, locked, keys, at, budget, opened, browsers, request, out>>
      /\ x.account # 0 /\ links' = {l \in links : l.account # x.account}
      /\ mailer' = [mailer EXCEPT ![m] = n]
  BY DEF DeleteOlder, people, LoginsInv, DatabaseTyped
<1>2. mailer \in [Mailers -> [account : {0} \union Accounts, deleted : BOOLEAN]] /\ u \in BOOLEAN
      /\ x \in [account : {0} \union Accounts, deleted : BOOLEAN] /\ x = mailer[m]
  BY DEF LoginsInv, DatabaseTyped
<1> HIDE DEF x, u
<1>3. n \in [account : {0} \union Accounts, deleted : BOOLEAN] /\ n.account = x.account
  BY <1>2
<1> HIDE DEF n
<1>4. /\ mailer' \in [Mailers -> [account : {0} \union Accounts, deleted : BOOLEAN]]
      /\ mailer'[m] = n /\ \A o \in Mailers : mailer'[o].account = mailer[o].account
      /\ \A o \in Mailers \ {m} : mailer'[o] = mailer[o]
  BY <1>1, <1>2, <1>3
<1>5. DatabaseTyped' /\ LinksOK'
  BY <1>1, <1>4, RowsStand DEF LoginsInv, DatabaseTyped, LinksOK, LoginLinksWorkOnce
<1>6. HoldersOK'
  <2>1. \A o \in Mailers : mailer'[o].deleted =>
           mailer'[o].account # 0 /\ \A l \in links' : l.account # mailer'[o].account
    BY <1>1, <1>2, <1>4 DEF LoginsInv, HoldersOK
  <2>2. \A o \in Mailers : mailer'[o].account # 0 =>
           mailer'[o].account \in Accounts /\ account'[mailer'[o].account].state = "live"
    BY <1>1, <1>4 DEF LoginsInv, HoldersOK, Live
  <2>3. \A o \in Mailers : mailer'[o].account # 0 =>
           /\ locked'[mailer'[o].account] = "held"
           /\ \A c \in Browsers : Deleting(c)' => request'[c].account # mailer'[o].account
           /\ \A p \in Mailers : mailer'[p].account = mailer'[o].account => p = o
    BY <1>1, <1>4 DEF LoginsInv, HoldersOK, Deleting
  <2>4. /\ \A c \in Browsers : Deleting(c)' =>
              /\ locked'[request'[c].account] = "held"
              /\ \A v \in Providers : linked'[request'[c].account][v] # NoSub
        /\ \A b, c \in Browsers :
              Deleting(b)' /\ Deleting(c)' /\ request'[b].account = request'[c].account => b = c
    BY <1>1 DEF LoginsInv, HoldersOK, Deleting
  <2> QED
    BY <2>1, <2>2, <2>3, <2>4 DEF HoldersOK, Live
<1> QED
  BY <1>1, <1>5, <1>6, RowsStand, BudgetStands, QuietWriteKeeps DEF Writes, LoginsInv, BrowsersTyped

LEMMA CreateLinkKeeps ==
    ASSUME LoginsInv, NEW m \in Mailers, CreateLink(m)
    PROVE  LoginsInv'
<1>1. PICK a \in Accounts : a = mailer[m].account
  BY DEF CreateLink, LoginsInv, HoldersOK, Live
<1> DEFINE new == [no |-> mailed + 1, account |-> a, recent |-> TRUE, valid |-> TRUE]
<1>2. /\ UNCHANGED <<account, linked, keys, at, budget, opened, browsers, request, out>>
      /\ mailer[m].deleted /\ locked' = [locked EXCEPT ![a] = "free"]
      /\ mailer' = [mailer EXCEPT ![m] = NoMail]
      /\ \/ mailed < MaxLinks /\ mailed' = mailed + 1 /\ links' = links \union {new}
         \/ UNCHANGED <<mailed, links>>
  BY <1>1 DEF CreateLink, Release, people
<1>3. /\ Live(a) /\ (\A l \in links : l.account # a)
      /\ \A c \in Browsers : Deleting(c) => request[c].account # a
      /\ \A o \in Mailers : mailer[o].account = a => o = m
  BY <1>1, <1>2, NumbersOfAccounts DEF LoginsInv, HoldersOK
<1>4. /\ mailer' \in [Mailers -> [account : {0} \union Accounts, deleted : BOOLEAN]]
      /\ mailer'[m] = NoMail /\ \A o \in Mailers \ {m} : mailer'[o] = mailer[o]
      /\ locked' \in [Accounts -> {"free", "held"}]
      /\ \A y \in Accounts \ {a} : locked'[y] = locked[y]
  BY <1>2 DEF NoMail, LoginsInv, DatabaseTyped
<1>5. NoMail.account = 0 /\ ~NoMail.deleted
  BY DEF NoMail
<1>6. mailed \in Nat /\ mailed' \in 0 .. MaxLinks /\ mailed <= mailed'
  BY <1>2, LoginsAssumption DEF LoginsInv, DatabaseTyped
<1>7. /\ links \subseteq [no : 1 .. mailed', account : Accounts, recent : BOOLEAN, valid : BOOLEAN]
      /\ opened' \subseteq 1 .. mailed'
  <2>1. 1 .. mailed \subseteq 1 .. mailed'
    BY <1>6, LoginsAssumption
  <2> QED
    BY <1>2, <2>1 DEF LoginsInv, DatabaseTyped
<1>8. \A l \in links' : l \in links \/ (l = new /\ mailed' = mailed + 1)
  BY <1>2
<1>9. /\ links' \subseteq [no : 1 .. mailed', account : Accounts, recent : BOOLEAN, valid : BOOLEAN]
      /\ \A y \in Accounts : ~Live(y)' => \A l \in links' : l.account # y
  <2>1. mailed' = mailed + 1 => new \in [no : 1 .. mailed', account : Accounts, recent : BOOLEAN, valid : BOOLEAN]
    BY <1>6
  <2> QED
    BY <1>3, <1>7, <1>8, <2>1, <1>2, RowsStand DEF LoginsInv, DatabaseTyped
<1>10. DatabaseTyped'
  BY <1>2, <1>4, <1>6, <1>7, <1>9, RowsStand DEF LoginsInv, DatabaseTyped
<1>11. \A l \in links : l.no \in 1 .. mailed /\ l.no # mailed + 1
  BY <1>6 DEF LoginsInv, DatabaseTyped
<1>12. mailed + 1 \notin opened
  BY <1>6 DEF LoginsInv, DatabaseTyped
<1>13. LinksOK'
  <2>1. \A k, l \in links' : (k.account = l.account \/ k.no = l.no) => k = l
    <3>1. \A k, l \in links : (k.account = l.account \/ k.no = l.no) => k = l
      BY DEF LoginsInv, LinksOK, LoginLinksWorkOnce
    <3>2. new.account = a /\ new.no = mailed + 1
      OBVIOUS
    <3> HIDE DEF new
    <3> QED
      BY <3>1, <3>2, <1>3, <1>8, <1>11
  <2>2. \A l \in links' : l.no \notin opened'
    BY <1>2, <1>8, <1>12 DEF LoginsInv, LinksOK, LoginLinksWorkOnce
  <2> QED
    BY <2>1, <2>2 DEF LinksOK, LoginLinksWorkOnce
<1>14. HoldersOK'
  <2>0. \A o \in Mailers : mailer'[o].account # 0 =>
           o # m /\ mailer'[o].account \in Accounts \ {a} /\ account'[mailer'[o].account].state = "live"
    BY <1>2, <1>3, <1>4, <1>5 DEF LoginsInv, HoldersOK, Live
  <2>1. \A o \in Mailers : mailer'[o].deleted =>
           mailer'[o].account # 0 /\ \A l \in links' : l.account # mailer'[o].account
    BY <1>3, <1>4, <1>5, <1>8 DEF LoginsInv, HoldersOK
  <2>3. \A o \in Mailers : mailer'[o].account # 0 =>
           /\ locked'[mailer'[o].account] = "held"
           /\ \A c \in Browsers : Deleting(c)' => request'[c].account # mailer'[o].account
           /\ \A p \in Mailers : mailer'[p].account = mailer'[o].account => p = o
    BY <2>0, <1>2, <1>4, <1>5 DEF LoginsInv, HoldersOK, Deleting
  <2>4. \A c \in Browsers : Deleting(c) => request[c].account \in Accounts \ {a}
    BY <1>3, AskedNow DEF Deleting, Knows
  <2>5. /\ \A c \in Browsers : Deleting(c)' =>
              /\ locked'[request'[c].account] = "held"
              /\ \A v \in Providers : linked'[request'[c].account][v] # NoSub
        /\ \A b, c \in Browsers :
              Deleting(b)' /\ Deleting(c)' /\ request'[b].account = request'[c].account => b = c
    BY <1>2, <1>4, <2>4 DEF LoginsInv, HoldersOK, Deleting
  <2> QED
    BY <2>0, <2>1, <2>3, <2>5 DEF HoldersOK, Live
<1> QED
  BY <1>2, <1>10, <1>13, <1>14, RowsStand, BudgetStands, QuietWriteKeeps DEF Writes, LoginsInv, BrowsersTyped

LEMMA LinkAgesKeeps ==
    ASSUME LoginsInv, NEW l \in links, LinkAges(l)
    PROVE  LoginsInv'
<1> DEFINE old == IF l.recent THEN [l EXCEPT !.recent = FALSE] ELSE [l EXCEPT !.valid = FALSE]
           Link == [no : 1 .. mailed, account : Accounts, recent : BOOLEAN, valid : BOOLEAN]
<1>1. /\ UNCHANGED <<account, linked, mailed, locked, keys, at, opened, mailer, browsers, request, out>>
      /\ Spend /\ links' = (links \ {l}) \union {old}
  BY DEF LinkAges
<1>2. links \subseteq Link /\ l \in Link
  BY DEF LoginsInv, DatabaseTyped
<1>3. old \in Link /\ old.no = l.no /\ old.account = l.account
  <2>1. CASE l.recent
    BY <2>1, <1>2
  <2>2. CASE ~l.recent
    BY <2>2, <1>2
  <2> QED
    BY <2>1, <2>2
<1> HIDE DEF old
<1>4. \A k \in links' : (k \in links /\ k # l) \/ k = old
  BY <1>1
<1>5. LinksOK'
  <2>1. \A k, j \in links' : (k.account = j.account \/ k.no = j.no) => k = j
    BY <1>3, <1>4 DEF LoginsInv, LinksOK, LoginLinksWorkOnce
  <2>2. \A k \in links' : k.no \notin opened'
    BY <1>1, <1>3, <1>4 DEF LoginsInv, LinksOK, LoginLinksWorkOnce
  <2> QED
    BY <2>1, <2>2 DEF LinksOK, LoginLinksWorkOnce
<1>6. \A a : (\A k \in links : k.account # a) => (\A k \in links' : k.account # a)
  BY <1>3, <1>4
<1>7. links' \subseteq Link
  BY <1>2, <1>3, <1>4
<1> HIDE DEF Link
<1>8. DatabaseTyped'
  BY <1>1, <1>6, <1>7, RowsStand DEF LoginsInv, DatabaseTyped, Link
<1>9. HoldersOK'
  <2>1. \A o \in Mailers : mailer'[o].deleted =>
           mailer'[o].account # 0 /\ \A k \in links' : k.account # mailer'[o].account
    BY <1>1, <1>6 DEF LoginsInv, HoldersOK
  <2> QED
    BY <1>1, <2>1 DEF LoginsInv, HoldersOK, Deleting, Live
<1> QED
  BY <1>1, <1>5, <1>8, <1>9, RowsStand, SpendTyped, QuietWriteKeeps DEF Writes, LoginsInv, BrowsersTyped

-----------------------------------------------------------------------------
(* The first state, and every step.                                        *)

FirstProviders(a, with, others) ==
    CASE a = 1 -> with
      [] a = 2 /\ with # {} /\ others # {} -> {"GOOGLE"}
      [] OTHER -> {}
FirstPerson(a, others) == IF a = 1 THEN Idle.person ELSE CHOOSE q \in others : TRUE
FirstRow(of, p, token) ==
    [state |-> "live", person |-> p,
     email |-> EmailOf[<<IF "VIPPS" \in of THEN "VIPPS" ELSE "GOOGLE", p>>],
     phone |-> IF "VIPPS" \in of THEN PhoneOf[p] ELSE NoPhone, token |-> token]
FirstAccounts(with, on, others) ==
    [a \in Accounts |->
        IF FirstProviders(a, with, others) = {} THEN NoAccount
        ELSE FirstRow(FirstProviders(a, with, others), FirstPerson(a, others),
                      IF a = 1 /\ on # {} THEN 1 ELSE 0)]
FirstLinked(with, others) ==
    [a \in Accounts |-> [v \in Providers |->
        IF v \in FirstProviders(a, with, others) THEN <<FirstPerson(a, others), 0>> ELSE NoSub]]
FirstCookies(on) ==
    [b \in Browsers |-> IF b \in on THEN [account |-> 1, id |-> 1, live |-> TRUE] ELSE NoCookie]

LEMMA InitLogins == Init => LoginsInv
<1> SUFFICES ASSUME Init PROVE LoginsInv
  OBVIOUS
<1>1. PICK with \in SUBSET Providers, on \in SUBSET Browsers, others \in SUBSET (People \ {Idle.person}) :
         /\ with = {} => on = {} /\ others = {}
         /\ account = FirstAccounts(with, on, others)
         /\ linked = FirstLinked(with, others)
         /\ cookie = FirstCookies(on)
  BY Zenon DEF Init, FirstAccounts, FirstLinked, FirstCookies, FirstRow, FirstProviders, FirstPerson
<1>2. /\ keys = 0 /\ links = {} /\ mailed = 0 /\ opened = {}
      /\ locked = [a \in Accounts |-> "free"] /\ mailer = [m \in Mailers |-> NoMail]
      /\ at \in [Browsers -> People]
      /\ tab = [b \in Browsers |-> [v \in Providers |-> "none"]]
      /\ session = [b \in Browsers |-> NoSession]
      /\ request = [b \in Browsers |-> Idle]
      /\ out = {} /\ budget = Budget
  BY LoginsAssumption DEF Init
<1> DEFINE Of(a) == FirstProviders(a, with, others)
           p(a) == FirstPerson(a, others)
<1>3. \A a \in Accounts : Of(a) \subseteq Providers /\ (Of(a) # {} => p(a) \in People)
  BY <1>1, IdleTyped DEF FirstProviders, FirstPerson, Providers
<1>4. \A a \in Accounts : p(a) = FirstPerson(a, others) /\ Of(a) = FirstProviders(a, with, others)
  OBVIOUS
<1> HIDE DEF Of, p
<1>5. \A a \in Accounts : Of(a) # {} => \E w \in Providers, f \in Phones, t \in 0 .. MaxToken :
         account[a] = [state |-> "live", person |-> p(a), email |-> EmailOf[<<w, p(a)>>],
                       phone |-> f, token |-> t]
  <2> SUFFICES ASSUME NEW a \in Accounts, Of(a) # {}
               PROVE  \E w \in Providers, f \in Phones, t \in 0 .. MaxToken :
                         account[a] = [state |-> "live", person |-> p(a), email |-> EmailOf[<<w, p(a)>>],
                                       phone |-> f, token |-> t]
    OBVIOUS
  <2> DEFINE w == IF "VIPPS" \in Of(a) THEN "VIPPS" ELSE "GOOGLE"
             f == IF "VIPPS" \in Of(a) THEN PhoneOf[p(a)] ELSE NoPhone
             t == IF a = 1 /\ on # {} THEN 1 ELSE 0
  <2>1. w \in Providers /\ f \in Phones /\ t \in 0 .. MaxToken
    BY <1>3, LoginsAssumption DEF Providers, Phones
  <2>2. account[a] = FirstRow(Of(a), p(a), t)
    BY <1>1, <1>4 DEF FirstAccounts
  <2>3. account[a] = [state |-> "live", person |-> p(a), email |-> EmailOf[<<w, p(a)>>],
                      phone |-> f, token |-> t]
    BY <2>2 DEF FirstRow
  <2> HIDE DEF w, f, t
  <2> QED
    BY <2>1, <2>3
<1>6. \A a \in Accounts : Of(a) = {} => account[a] = NoAccount
  BY <1>1, <1>4 DEF FirstAccounts
<1>7. \A a \in Accounts, v \in Providers : linked[a][v] = IF v \in Of(a) THEN <<p(a), 0>> ELSE NoSub
  BY <1>1, <1>4 DEF FirstLinked
<1>8. NoAccount \in Account /\ NoAccount.state = "free"
  <2> DEFINE e == EmailOf[<<"VIPPS", Idle.person>>]
  <2>1. e \in {EmailOf[k] : k \in DOMAIN EmailOf}
    BY IdleTyped, LoginsAssumption DEF Providers
  <2>2. NoAccount = [state |-> "free", person |-> Idle.person, email |-> e, phone |-> NoPhone, token |-> 0]
    BY DEF NoAccount
  <2> HIDE DEF e
  <2> QED
    BY <2>1, <2>2, IdleTyped, LoginsAssumption DEF Account, Phones
<1>9. ASSUME NEW a \in Accounts, Of(a) # {}
      PROVE  /\ account[a] \in Account /\ Live(a) /\ account[a].person = p(a)
             /\ \E w \in Providers : account[a].email = EmailOf[<<w, p(a)>>]
  <2>1. PICK w \in Providers, f \in Phones, t \in 0 .. MaxToken :
           account[a] = [state |-> "live", person |-> p(a), email |-> EmailOf[<<w, p(a)>>],
                         phone |-> f, token |-> t]
    BY <1>5, <1>9
  <2> DEFINE e == EmailOf[<<w, p(a)>>]
  <2>2. e \in {EmailOf[k] : k \in DOMAIN EmailOf} /\ p(a) \in People
    BY <1>3, <1>9, LoginsAssumption
  <2>3. account[a] = [state |-> "live", person |-> p(a), email |-> e, phone |-> f, token |-> t]
        /\ e = EmailOf[<<w, p(a)>>]
    BY <2>1
  <2> HIDE DEF e
  <2> QED
    BY <2>2, <2>3 DEF Account, Live
<1>10. account \in [Accounts -> Account]
  <2>1. \A a \in Accounts : account[a] \in Account
    BY <1>6, <1>8, <1>9
  <2>2. account = [a \in Accounts |-> account[a]]
    BY <1>1 DEF FirstAccounts
  <2> QED
    BY <2>1, <2>2
<1>11. linked \in [Accounts -> [Providers -> Subs]]
  <2>1. \A a \in Accounts, v \in Providers : linked[a][v] \in Subs
    <3> SUFFICES ASSUME NEW a \in Accounts, NEW v \in Providers PROVE linked[a][v] \in Subs
      OBVIOUS
    <3>1. CASE v \in Of(a)
      <4>1. p(a) \in People /\ linked[a][v] = <<p(a), 0>>
        BY <3>1, <1>3, <1>7
      <4> QED
        BY <4>1 DEF Subs
    <3>2. CASE v \notin Of(a)
      BY <3>2, <1>7 DEF Subs
    <3> QED
      BY <3>1, <3>2
  <2>2. linked = [a \in Accounts |-> [v \in Providers |-> linked[a][v]]]
    BY <1>1, <1>4, <1>7 DEF FirstLinked
  <2> QED
    BY <2>1, <2>2
<1>12. \A a \in Accounts : (Live(a) <=> Of(a) # {}) /\ ProvidersOf(a) = Of(a)
  <2> SUFFICES ASSUME NEW a \in Accounts PROVE (Live(a) <=> Of(a) # {}) /\ ProvidersOf(a) = Of(a)
    OBVIOUS
  <2>1. Live(a) <=> Of(a) # {}
    BY <1>6, <1>8, <1>9 DEF Live
  <2>2. <<p(a), 0>> # NoSub
    BY DEF NoSub
  <2> QED
    BY <2>1, <2>2, <1>3, <1>7 DEF ProvidersOf
<1>13. DatabaseTyped
  BY <1>2, <1>10, <1>11, <1>12, LoginsAssumption DEF DatabaseTyped, NoMail
<1>14. AccountsOK
  <2>1. OwnIdentities
    <3> SUFFICES ASSUME NEW a \in Accounts, NEW v \in Providers, linked[a][v] # NoSub
                 PROVE  linked[a][v][1] = account[a].person
      BY DEF OwnIdentities
    <3>1. linked[a][v] = <<p(a), 0>> /\ Of(a) # {}
      BY <1>7
    <3> QED
      BY <3>1, <1>9
  <2>2. EmailsTheirs
    BY <1>9, <1>12 DEF EmailsTheirs
  <2> QED
    BY <1>12, <2>1, <2>2 DEF AccountsOK, AlwaysALogin
<1>15. LinksOK
  BY <1>2 DEF LinksOK, LoginLinksWorkOnce
<1>16. HoldersOK
  BY <1>2, IdleTyped DEF HoldersOK, Deleting, NoMail
<1>17. ASSUME NEW b \in on
       PROVE  /\ cookie[b] \in Cookie /\ cookie[b].account = 1 /\ cookie[b].id = 1
              /\ Taken(1) /\ account[1].token = 1
  <2>1. cookie[b] = [account |-> 1, id |-> 1, live |-> TRUE] /\ with # {} /\ on # {}
    BY <1>1 DEF FirstCookies
  <2>2. 1 \in Accounts /\ 1 \in 0 .. MaxToken
    BY LoginsAssumption DEF Accounts
  <2>3. Of(1) # {}
    BY <1>4, <2>1, <2>2 DEF FirstProviders
  <2>4. account[1] = FirstRow(Of(1), p(1), 1)
    BY <1>1, <1>4, <2>1, <2>2, <2>3 DEF FirstAccounts
  <2> QED
    BY <2>1, <2>2, <2>4 DEF Cookie, Taken, FirstRow
<1>18. \A b \in Browsers \ on : cookie[b] = NoCookie
  BY <1>1 DEF FirstCookies
<1>19. BrowsersTyped
  <2>1. cookie \in [Browsers -> Cookie]
    <3>1. \A b \in Browsers : cookie[b] \in Cookie
      BY <1>17, <1>18, NoCookieTyped
    <3>2. cookie = [b \in Browsers |-> cookie[b]]
      BY <1>1 DEF FirstCookies
    <3> QED
      BY <3>1, <3>2
  <2> QED
    BY <1>2, <2>1, IdleTyped, NothingParked, LoginsAssumption DEF BrowsersTyped, Doors
<1>20. ASSUME NEW b \in Browsers PROVE BrowserOK(b)
  <2>1. Intended(b) /\ Parked(b)
    BY <1>2, NothingParked DEF Intended, Parked
  <2>2. Asked(b)
    BY <1>2, IdleKnows DEF Asked
  <2>3. Kept(b)
    BY <1>17, <1>18, NoCookieTyped DEF Kept
  <2> QED
    BY <1>2, <2>1, <2>2, <2>3 DEF BrowserOK
<1> QED
  BY <1>13, <1>14, <1>15, <1>16, <1>19, <1>20 DEF LoginsInv

LEMMA FlowKeeps ==
    ASSUME LoginsInv, NEW b \in Browsers, Flow(b) PROVE LoginsInv'
<1>1. CASE \E v \in Providers : Callback(b, v)
  BY <1>1, CallbackKeeps
<1>2. CASE LinkIntentOutcome(b) \/ ConfirmPendingLink(b) \/ LinkProvider(b)
  BY <1>2, LinkIntentOutcomeKeeps, ConfirmPendingLinkKeeps, LinkProviderKeeps
<1>3. CASE FindByEmail(b) \/ GetLinkedProviders(b) \/ UpdateProviderSub(b)
  BY <1>3, FindByEmailKeeps, GetLinkedProvidersKeeps, UpdateProviderSubKeeps
<1>4. CASE FindByPhone(b) \/ Create(b)
  BY <1>4, FindByPhoneKeeps, CreateKeeps
<1>5. CASE EnsureRefreshTokenId(b) \/ ReadUser(b) \/ IssueSessionCookies(b)
  BY <1>5, EnsureRefreshTokenIdKeeps, ReadUserKeeps, IssueSessionCookiesKeeps
<1>6. CASE UnlinkCount(b) \/ UnlinkDelete(b) \/ Logout(b) \/ DeleteUser(b)
  BY <1>6, UnlinkCountKeeps, UnlinkDeleteKeeps, LogoutKeeps, DeleteUserKeeps
<1> QED
  BY <1>1, <1>2, <1>3, <1>4, <1>5, <1>6 DEF Flow

LEMMA StartKeeps ==
    ASSUME LoginsInv, NEW b \in Browsers, Start(b) PROVE LoginsInv'
<1>1. CASE \E v \in Providers : StartLogin(b, v) \/ StartConfirm(b, v) \/ StartLink(b, v)
  BY <1>1, StartLoginKeeps, StartConfirmKeeps, StartLinkKeeps
<1>2. CASE \E v \in Providers : Ask(b, "unlink", v)
  BY <1>2, AskKeeps
<1>3. CASE Ask(b, "logout", "VIPPS") \/ Ask(b, "remove", "VIPPS")
  BY <1>3, AskKeeps DEF Providers
<1>4. CASE Refresh(b) \/ AccessExpires(b) \/ SessionExpires(b)
  BY <1>4, RefreshKeeps, AccessExpiresKeeps, SessionExpiresKeeps
<1>5. CASE \E no \in 1 .. MaxLinks : Verify(b, no)
  BY <1>5, VerifyKeeps
<1>6. CASE \E p \in People : SwitchPerson(b, p)
  BY <1>6, SwitchPersonKeeps
<1> QED
  BY <1>1, <1>2, <1>3, <1>4, <1>5, <1>6 DEF Start

LEMMA NextKeepsLogins == LoginsInv /\ [Next]_vars => LoginsInv'
<1> SUFFICES ASSUME LoginsInv, [Next]_vars PROVE LoginsInv'
  OBVIOUS
<1>1. CASE \E b \in Browsers : Flow(b) \/ Start(b)
  BY <1>1, FlowKeeps, StartKeeps
<1>2. CASE \E m \in Mailers : \/ DeleteOlder(m) \/ CreateLink(m)
                              \/ \E a \in Accounts : LookForRecent(m, a)
  BY <1>2, DeleteOlderKeeps, CreateLinkKeeps, LookForRecentKeeps
<1>3. CASE \E l \in links : LinkAges(l)
  BY <1>3, LinkAgesKeeps
<1>4. CASE RotateKeys
  BY <1>4, RotateKeysKeeps
<1>5. CASE UNCHANGED vars
  <2>1. DatabaseTyped' /\ LinksOK' /\ HoldersOK'
    BY <1>5, RowsStand DEF vars, LoginsInv, DatabaseTyped, LinksOK, LoginLinksWorkOnce, HoldersOK,
                           Deleting, Live
  <2> QED
    BY <1>5, <2>1, RowsStand, BudgetStands, QuietWriteKeeps
       DEF vars, browsers, Writes, LoginsInv, BrowsersTyped
<1> QED
  BY <1>1, <1>2, <1>3, <1>4, <1>5 DEF Next

(***************************************************************************)
(* Accounts can be logged in to, and by the person they belong to: one     *)
(* provider is always left, whatever unlinkProvider, linkProvider,         *)
(* updateProviderSub and remove do at once, and nobody's identity is       *)
(* linked to somebody else's account through the intents, parked links and *)
(* cookies that people leave behind at a browser.  For any people,         *)
(* browsers and mailers, as long as an e-mail is one person's.             *)
(***************************************************************************)
THEOREM AccountsStayTheirs == Spec => []AccountsInv
<1>1. LoginsInv => AccountsInv
  BY InvTells
<1> QED
  BY InitLogins, NextKeepsLogins, <1>1, PTL DEF Spec

(***************************************************************************)
(* What was revoked or used lets nobody in: a browser that was logged out  *)
(* only comes in by a login, although a refresh was under way and the row  *)
(* was read before rotateRefreshTokenId; and of the links that were mailed *)
(* to somebody one works, once.                                            *)
(***************************************************************************)
THEOREM RevokedStaysRevoked == Spec => []RevokedInv
<1>1. LoginsInv => RevokedInv
  BY InvTells
<1> QED
  BY InitLogins, NextKeepsLogins, <1>1, PTL DEF Spec

-----------------------------------------------------------------------------
(* Sessions of other browsers.                                             *)

(* An account whose row keeps its state and its token keeps its sessions.  *)
Stays(a) == account'[a].state = account[a].state /\ account'[a].token = account[a].token

LEMMA StillValid ==
    ASSUME NEW b \in Browsers, Valid(b), cookie'[b] = cookie[b],
           \A a \in Accounts : Live(a) /\ account[a].token # 0 => Stays(a)
    PROVE  Valid(b)'
<1>1. PICK a \in Accounts : /\ a = cookie[b].account /\ Live(a)
                            /\ account[a].token # 0 /\ account[a].token = cookie[b].id
  BY DEF Valid, Live
<1>2. Stays(a)
  BY <1>1
<1> QED
  BY <1>1, <1>2 DEF Stays, Valid, Live

LEMMA LinkedRowsStay ==
    ASSUME LoginsInv, NEW c \in Browsers, LinkProvider(c)
    PROVE  \A a \in Accounts : Stays(a)
<1>1. account \in [Accounts -> Account]
  BY DEF LoginsInv, DatabaseTyped
<1>2. CASE UNCHANGED account
  BY <1>2 DEF Stays
<1>3. CASE account' = [account EXCEPT ![request[c].account].phone = request[c].phone]
  BY <1>1, <1>3 DEF Stays, Account
<1> QED
  BY <1>2, <1>3 DEF LinkProvider

LEMMA CreatedRowsStay ==
    ASSUME LoginsInv, NEW c \in Browsers, Create(c)
    PROVE  \A a \in Accounts : Live(a) => Stays(a)
<1> DEFINE next == {a \in Accounts : account[a].state = "free"}
           new == CHOOSE i \in next : TRUE
<1>1. CASE UNCHANGED account
  BY <1>1 DEF Stays
<1>2. CASE next # {} /\ \A a \in Accounts \ {new} : account'[a] = account[a]
  <2>1. new \in next
    BY <1>2
  <2>2. ~Live(new)
    BY <2>1 DEF Live
  <2> HIDE DEF new
  <2> QED
    BY <1>2, <2>2 DEF Stays
<1> QED
  <2>1. account \in [Accounts -> Account]
    BY DEF LoginsInv, DatabaseTyped
  <2> QED
    BY <1>1, <1>2, <2>1 DEF Create

LEMMA EnsuredRowsStay ==
    ASSUME LoginsInv, NEW c \in Browsers, EnsureRefreshTokenId(c)
    PROVE  \A a \in Accounts : account[a].token # 0 => Stays(a)
<1>1. account \in [Accounts -> Account]
  BY DEF LoginsInv, DatabaseTyped
<1> QED
  BY <1>1 DEF EnsureRefreshTokenId, Stays, Account

LEMMA FlowSpares ==
    ASSUME LoginsInv, NEW c \in Browsers, Flow(c)
    PROVE  \/ \A a \in Accounts : Live(a) /\ account[a].token # 0 => Stays(a)
           \/ request[c].phase \in {"logout", "remove"} /\ request'[c] = Idle
<1>1. CASE LinkProvider(c) \/ Create(c) \/ EnsureRefreshTokenId(c)
  BY <1>1, LinkedRowsStay, CreatedRowsStay, EnsuredRowsStay
<1>2. CASE Logout(c) \/ DeleteUser(c)
  BY <1>2 DEF Logout, DeleteUser, Done, LoginsInv, BrowsersTyped
<1>3. CASE UNCHANGED account
  BY <1>3 DEF Stays
<1>4. ASSUME \E v \in Providers : Callback(c, v) PROVE UNCHANGED account
  BY <1>4 DEF Callback, database
<1>5. ASSUME \/ LinkIntentOutcome(c) \/ ConfirmPendingLink(c) \/ FindByEmail(c)
             \/ GetLinkedProviders(c) \/ UpdateProviderSub(c) \/ FindByPhone(c) \/ ReadUser(c)
             \/ IssueSessionCookies(c) \/ UnlinkCount(c) \/ UnlinkDelete(c)
      PROVE  UNCHANGED account
  BY <1>5 DEF LinkIntentOutcome, ConfirmPendingLink, FindByEmail, GetLinkedProviders,
              UpdateProviderSub, FindByPhone, ReadUser, IssueSessionCookies, UnlinkCount,
              UnlinkDelete, database
<1> QED
  BY <1>1, <1>2, <1>3, <1>4, <1>5 DEF Flow

LEMMA StartSpares ==
    ASSUME NEW c \in Browsers, Start(c) PROVE UNCHANGED account
BY DEF Start, StartLogin, StartConfirm, StartLink, Leave, Ask, Refresh, Verify, SwitchPerson,
       AccessExpires, SessionExpires, database

(***************************************************************************)
(* A login on one device does not end the session on another, because      *)
(* ensureRefreshTokenId only writes a token where there is none: a cookie  *)
(* that is good stays good until the account logs out or is deleted, or    *)
(* until its own browser changes it.                                       *)
(***************************************************************************)
THEOREM LoginsSpareSessions == Spec => SessionsSurviveLogins
<1> DEFINE Ends == \E c \in Browsers : request[c].phase \in {"logout", "remove"} /\ request'[c] = Idle
<1>1. ASSUME LoginsInv, [Next]_vars, NEW b \in Browsers,
             Valid(b), cookie'[b] = cookie[b], ~Valid(b)'
      PROVE  Ends
  <2>1. CASE \E c \in Browsers : Flow(c)
    BY <1>1, <2>1, FlowSpares, StillValid
  <2>2. CASE UNCHANGED account
    BY <1>1, <2>2, StillValid DEF Stays
  <2>3. ASSUME ~\E c \in Browsers : Flow(c) PROVE UNCHANGED account
    <3>1. CASE \E c \in Browsers : Start(c)
      BY <3>1, StartSpares
    <3>2. CASE \/ \E m \in Mailers : \/ DeleteOlder(m) \/ CreateLink(m)
                                     \/ \E a \in Accounts : LookForRecent(m, a)
               \/ \E l \in links : LinkAges(l)
               \/ RotateKeys
      BY <3>2 DEF DeleteOlder, CreateLink, LookForRecent, LinkAges, RotateKeys, database
    <3>3. CASE UNCHANGED vars
      BY <3>3 DEF vars
    <3> QED
      BY <1>1, <2>3, <3>1, <3>2, <3>3 DEF Next
  <2> QED
    BY <2>1, <2>2, <2>3
<1>2. LoginsInv /\ [Next]_vars =>
        [\A b \in Browsers : Valid(b) /\ cookie'[b] = cookie[b] /\ ~Valid(b)' =>
            \E c \in Browsers : request[c].phase \in {"logout", "remove"} /\ request'[c] = Idle]_vars
  BY <1>1
<1> QED
  BY InitLogins, NextKeepsLogins, <1>2, PTL DEF Spec, SessionsSurviveLogins
=============================================================================
