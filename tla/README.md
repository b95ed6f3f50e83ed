# A verification development for peoply-backend

peoply-backend (NestJS, Prisma, Postgres) is the API of a service on which student organizations
publish events. Its hard part is not any single handler: it is that many handlers read rows, decide,
and write, in transactions at READ COMMITTED, some of which call out to mail or storage on the way,
and a number of statements that run outside every transaction. This directory holds TLA+ models of
those parts, the TLC configurations that check them on small instances, and TLAPS proofs of the
invariants for instances of every size.

1. The parts of the system
2. Modules, and how they correspond to the code
3. What is assumed of Postgres, Prisma and Node
4. The runs: what each checks, its bounds, fairness
5. What is proved
6. Disagreements: where the code and what it says part ways
7. What is abstracted, and what is not modelled
8. Plan

Source paths are relative to the repository's `src/src/` unless they start with `prisma/`.

## 1. The parts of the system

**Registrations** (`registrations/`). State: one `Registration` row per event and user with a
`RegStatus` (INVITED, GOING, NOT_GOING, WAITLISTED, BANNED) and `updatedAt`, which is also the order
of the waitlist. Operations: `create`, `updateRegistration` (going, not going, ban), `remove`,
`updateAllRegistrationsOfUserToNotGoing`. All of them lock the event's row (`event-seat-lock.ts`),
load the rows, write up to two of them (the caller's, and the head of the waitlist that is promoted),
mail the promoted user and commit. Hard: two requests for the last seat; two leavers with one head of
the waitlist; a mail awaited inside the transaction; writers that do not take the lock (invitations,
the cascade of an account, event edits). Right when: no overbooking, no idle seat, first come first
served, bans hold, mails are true, every request ends.

**Event invitations** (`invitations/services/eventInvitations.service.ts`). State: one row per event,
inviter and invitee with a status, next to the invitee's registration. Operations:
`createInvitations`, `acceptInvitationsToEvent`, `declineInvitationsToEvent`,
`ignoreInvitationsToEvent`, the sweep of ended events, the cascade when the event is deleted. Hard:
accepting opens a second transaction, on a second connection, inside the first one. Right when:
answers are final, accepting is all or nothing, INVITED always comes with an invitation, and requests
that need two connections do not starve each other for good.

**Co-organizers** (`invitations/services/eventCoOrganizerInvitations.service.ts`, called from
`events.service.ts` and `events.controller.ts`). State: one invitation per event and organization, and
the `EventArranger` rows with role COLLABORATOR. Operations: `syncInvitations` inside the transaction
of an event edit, `respond` (accept, decline, ignore, cancel), deletion of an organization. Hard: an
edit reads the invitations and withdraws them later while organizations answer. Right when:
collaborators are exactly those who accepted, stale answers do not land, the last list holds.

**Organization roles** (`organizations/`, `invitations/services/organizationInvitations.service.ts`,
`auth/guards/organizationRoles.guard.ts`, `users/services/users.service.ts` remove). State:
`UserOrganizationRole` and `OrganizationInvitation` rows. Operations: `changeUserRole`,
`changeOwner`, `deleteMember`, `createInvitations`, `acceptInvitation`, `setInvitationStatus`, the
sweep of old invitations, `reassignOwnedOrganizations` on the deletion of an account, `remove`. Hard:
every authorisation is read before, and outside of, the write it authorises. Right when: an
organization has exactly one owner, nothing outlives its account, accepting never demotes.

**Image decode slots** (`images/decode-slot.ts`). State: two module variables, `running` and
`waiting`. Hard: `release` resolves a waiter's promise and the waiter resumes some microtasks later.
Right when: the memory bound holds in between, nobody barges, no slot is lost when a decode throws.

**ICS feeds** (`ics-feeds/`). State: `OrganizationIcsFeed` (a lock with a time-out, failure counts,
status) and the events imported from it. Operations: connect, replace, delete, manual sync, the sync
of due feeds every five minutes in every process. Hard: the lock expires while its holder still
imports, and carries no token; the feed is deleted or replaced under a running sync.

**Image storage** (`storage/image-storage.service.ts`, called by users, organizations and events).
State: blobs and the columns that name them. Hard: blobs are not part of a database transaction; each
caller chooses an order of upload, delete and commit.

**Accounts and logins** (`users/`, `auth/`). State: users, provider ids, the refresh token id, codes
sent by mail, OAuth state in the session, the bounded store of those sessions
(`auth/oauth-session.ts`). Operations: login by provider or mail, refresh, logout, linking and
unlinking providers, deletion of the account. Hard: reads of an id that may be missing followed by its
creation; links that expire and may be opened twice; redirects that return out of order, in a browser
somebody else sits at by now. Right when: an account keeps a way in, nobody is linked to a stranger,
what was revoked stays revoked, no login throws out a session.

**Quotas** (`abuse-budget/`, `mcp/mcp-api-key.service.ts`, the cooldowns in `events.service.ts` and
`organizations.service.ts`, `discord/mention-cooldown.ts`). State: counters in Redis, or rows counted
under a row lock. Hard: check-then-act by concurrent requests, Redis out of reach or late, a nested
write that creates rows of several prices in one statement. Right when: no limit is passed, and who is
refused gives back what they hold.

**Events** (`events/events.service.ts`, `event-categories/`). State: the row with its registration
data, categories, arrangers, picture and updates. Hard: `update` reads the row, decides, and only then
starts the transaction that saves. Right when: categories are those of one edit, an URL is there
exactly when registration is external.

**Event access** (`event-access/event-access.service.ts`, the guards and interceptors of `auth/`, and
the where clauses of every list of events). No state of its own: who may see and who may change an
event, from its visibility, archival, arrangers, approvals, roles and registrations. Hard: each place
asks with a query of its own, and a page is answered in several reads. Right when: all of them decide
alike, and nothing is shown that the reader might at no moment see.

**Lists** (`notifications/`, `event-arrangers/`, `recommendations/`, `organization-analytics`,
followers). State: rows of others, and the log of follows. Hard: pages merged of several sources;
windows in hours beside series in days; sums over capped lists. Right when: pages cut one order without
gaps or repeats, figures that tell of the same thing agree, a ranking follows the taste it states.

**Popups** (`popups/`). State: intervals. Hard: two administrators schedule at once. Right when: at most
one popup is active.

**The rest** is listed in PROJECT.json: searches, single statements (favorites, feedback, profile
texts), adapters (mail, Discord, geocoders, MCP server, rate limits, health) and start-up.

How they interact. Event edits call `syncInvitations` and check capacity against registrations.
Accepting an event invitation calls the registration service. Deleting an account calls the
registration service for every seat, then reassigns organizations, and leaves the rest to cascades.
Deleting an event or organization is a cascade only. Image uploads of all kinds share the decode slot.
There are no message queues: components share rows, and row locks are how they wait for each other.

## 2. Modules, and how they correspond to the code

| Module | Models | State | Actions |
|---|---|---|---|
| `SeatRegistrations` | registrations of one event | `status`, `older` (the order of `updatedAt`), `capacity`, `window`, `lock`, `req`, `edit`, `account`, `told` | one per statement of the transaction and branch of `applyTransition` |
| `SeatService` | what registration promises | `seats`, `queue`, `limit` | `Take`, `GiveUp`, `StopWaiting` |
| `SeatRefinement` | `SeatRegistrations` implements `SeatService` | | refinement mapping |
| `Places` | lists in an order, for the waitlist, the pages, the session store and rankings | | `InOrder`, `Pick`, `First` |
| `Sums` | sums over sets, for the analytics and the recommendations | | `Total` |
| `EventInvitations` | invitations to one event | `invitation`, `registration`, `window`, `deletion`, `held`, `req` | gate, nested seat, commit, decline, ignore, invite, cascade |
| `CoOrganizers` | co-organizers of one event | `invitation`, `collaborators`, `held`, `eventHeld`, `answer`, `edit` | answers and edits, statement by statement |
| `OrganizationRoles` | one organization | `role`, `invitation`, `accounts`, `exists`, row locks, `req` | guard, controller check, write, for each operation |
| `DecodeSlot` | `runOnDecodeSlot` | `running`, `waiting`, `at` | acquire, queue, refuse, resume, release |
| `ImageStore` | pictures of users, organizations and events; extends `DecodeSlot` with what it is there for | `row`, `colors`, `stored`, `change`, `saving`, `backfill` | each call to bucket and database of each kind of change, with its failure; the backfill of colors |
| `IcsFeedSync` | the calendar feed of an organization | `feed` (the row with its lock), `rows` (imported events), `sync`, `disconnect`, `calendar`, `down` | save, acquire, fetch, look, write, archive, succeed, fail, mail, disable; the three statements of a disconnection; crash |
| `Logins` | users, provider links, mailed links, sessions of browsers | `account`, `linked`, `links`, `locked`, `mailer`, `tab`, `session`, `cookie`, `request` | the guards, callbacks and statements of every login, link, unlink, refresh, logout and deletion |
| `SessionStore` | `BoundedTtlSessionStore` | `entries`, `clock` | `get`, `set`, `touch`, `destroy`, time |
| `Quotas` | what is counted | `store` (Redis), `keys`, `reports`, `updates`, `locked`, `request`, `now` | charge, count, lock, commit, release; Redis goes and comes back |
| `WriteCharges` | what a nested write is charged; a statement is the set of the records it writes, each with the writes it is nested in | `charged`, `written` | one per statement, with the charge before it |
| `EventPages` | who may see and change one event | `event`, `arrangers`, `approved`, `member`, `reg`, `post`, `read` | each read of a page, each write between two of them |
| `EventEdits` | the row of one event under several editors | `row`, `edit`, `holder` | read, decide, lock, save |
| `PopupSchedule` | popups | `popups`, `asked`, `locked` | lock, check, write |
| `Audience` | followers and analytics of an organization | `follower`, `log`, `attendance`, `tick` | follow, unfollow, account deleted, time; the figures are operators |
| `Listings` | notifications and "my events" | `inbox`, `arrangersOf` | rows come and go; pages are operators |
| `Taste` | recommendations | `history`, `favorites`, `follows`, `listed` | what the user does; profile and scores are operators |
| `*Proofs` | theorems: `SeatAndListProofs`, `EventInvitationProofs`, `CoOrganizerProofs`, `RoleProofs`, `ImageProofs`, `IcsFeedProofs`, `LoginProofs`, `SiteProofs` | | |
| `MC*` | values for TLC; `MCSite` puts ten parts that share no state beside each other | | |

Specifications of requests follow one pattern. `req[t]` (or `answer[a]`, `edit[e]`, `change[r]`,
`sync[s]`, `request[b]`) is the program counter and the local variables of a request that is in flight;
a slot can be used again and again. A phase of it is a place where the request can be suspended: before
a lock, between two statements, during a mail or an upload, before the commit. Rows are changed by the
action that commits, as other transactions see nothing before; `held` (or `lock`, `locked`, `holder`)
says whose uncommitted write makes others wait. Statements that decide from what they read keep what
they read (`own`, `head`, `seen`, `matched`, `found`), so that it can be stale when it is used.

`SeatRegistrations` in more detail. `Begin` is a request that reaches `$transaction`;
`Granted` is `lockEventForSeatChange` returning. `Create`, `TakeSeat`, `ReleaseSeat`,
`LeaveWaitlist`, `Remove` and `Refuse` are the branches of `applyTransition` and their early returns
and errors, up to the decision what to write and whom to promote. `WriteOwnRow`,
`PromoteFirstWaitlisted`, `WriteFails`, `NotifyPromotedUser`, `Commit`, `Expire` and `LateMail` are the
rest of the transaction. `Invite` and `Decline` are the writes of the invitation services to
registrations, `StartDeletion` and `Cascade` those of `UsersService.remove`,
`AssertCapacityNotBelowGoing` and `SaveEvent` the two halves of an event edit. `older` is the order of
`updatedAt`: a set of pairs, to which every write of a row applies `Touch`.

`Logins` in more detail. A browser has one `session` (link intent, parked link) and one `cookie`, and
belongs to no one: `SwitchPerson` changes who sits at it, and only what the code clears is cleared. A
`tab` is a flow that waits at the provider; it comes back through the door it left by. A request is
at most one per browser; what it read of the user row is in `request`, and its cookie is made of that.

`IcsFeedSync` in more detail. The lock is one field with three values, as `syncStartedAt` is null,
younger or older than `LOCK_TTL_MS`; no step asks whose it is, as the code does not. `robbed` is
history: it becomes true when a lock is taken or freed under a sync that still runs.

Pure code (profiles and scores, series and windows, merged pages, charges, decisions on access) is
modelled as operators, which the invariants compare with each other or with a definition from scratch
over every state the actions reach.

Definitions whose comment begins with "Mutant:" are wrong on purpose: each is what a plausible slip in
the code would make of the definition below it, and is used to show that a property can fail. There is
one for each property of each run that holds.

## 3. What is assumed of Postgres, Prisma, Redis and Node

* READ COMMITTED: a statement sees what was committed when it ran; nothing of a transaction is seen
  before its commit and nothing is left of one that rolls back. MCP keys are created at SERIALIZABLE,
  where of two transactions that counted the same rows one fails and is tried again (`Quotas`).
* A written row belongs to its transaction until the end; another writer waits. `SELECT ... FOR UPDATE`
  on the event waits likewise, and so does the insert of a child row of an event (it needs a share of
  the event's row).
* An update that waited looks at the row again. `updateMany` takes rows one after the other
  (`CoOrganizers!LockRow`).
* `@updatedAt` is strictly increasing over the writes of one event. Two writes in one millisecond would
  tie; the code breaks ties by nothing, and the seat lock makes them unlikely rather than impossible.
* Prisma rolls an interactive transaction back after its time-out (five seconds by default; no caller
  passes another) while the callback goes on. Which requests may meet this is a constant, `MayExpire`.
* Unique keys and foreign keys fail the whole transaction (P2002, P2003, P2025). Cascades delete
  children when the parent is deleted.
* A Redis script is one step; its answer may be lost after it has counted.
* A bucket call succeeds or throws; one that throws may or may not have had its effect.
* Node runs one piece of JavaScript at a time; a resolved promise resumes its waiter later, and any
  other ready piece of code may run first (`DecodeSlot`).

## 4. The runs

| Run | Question | Bounds | Result |
|---|---|---|---|
| `seats_core` | Is registration a first-come-first-served service of a limited number of seats? | 3 users, 2 requests at a time, both may time out; capacity 1, 2 or none; the event may end | holds |
| `seats_disturbed` | What survives an editor and a deleted account? | 2 users, 2 requests, 1 editor, 1 account that may go, capacity 1 or none | holds |
| `images` | Do rows name what is stored, and does every decode slot come back? | 2 changes of a user's, an organization's or an event's picture, 1 other upload, 1 slot, a queue of 1, every call may fail | holds |
| `coorganizers` | Do list, invitations and arranger rows agree? | 2 organizations, 2 edits, 1 answer at a time | holds |
| `invitations` | Are answers final, are seats taken only by invitation, and do accepts that exhaust the pool end? | 2 inviters, 1 invitee, 2 requests that may time out, a pool of 2, deletion of the event | holds |
| `roles_safe` | One owner, no leftovers, no demotion? | 3 users, 2 invitation rows, 2 requests of pairs in `SafePairs` | holds |
| `roles_owner_lost` | One owner when any two operations overlap? | 3 users, 1 invitation row, 2 requests | violated |
| `ics_feeds` | Do imports exclude each other, and do the events shown become those of the calendar? | 2 syncs, 2 urls, 2 events, 2 connections, 3 edits, crashes or stalls | holds |
| `logins` | Is an account kept by those it belongs to, and is what was revoked revoked? | 2 people, 2 browsers, 3 accounts, 2 mailed links, 2 refresh token ids, 3 things people start | holds |
| `quotas` | Is a limit a limit under concurrency and without Redis? | 1 user, 2 organizations, 1 event, 2 requests at a time of 3 in all, 3 ticks; an hour is 2 ticks, a day 2 | holds |
| `site` | Do access, edits, session store, popups, analytics, pages, recommendations and charges do what they say? | see below | holds |
| `pages_by_urlid` | May arrangers always see their event? | 2 users, 2 organizations, by id or urlId | violated |

Some properties of PROJECT.json are conjunctions of named parts, which stand in the module above them:
`PicturesMatchRows` (`ImagesExist`, `NoOrphans` and the colors), `FeedInv`, `AccountsInv`,
`RevokedInv`, `LimitsHold`, `OwnershipInv`, `AccessInv`, `AnalyticsInv`, `PagesInv`, `TasteInv`,
`ChargesInv`.

`site` chooses one of ten subjects at the start and then runs that part alone: they share no state, so
nothing is lost. Its bounds: pages with 2 people, 2 organizations, one who reads as a guest and a
visitor; 2 editors with 2 categories; 3 session ids in a store of 2 that live for 2 ticks of 4; 2
administrators, 2 popups, instants 0 to 3; 2 followers over 6 ticks of which two make a day, windows of
1 and 2 days and periods of 1 and 3; 3 events without, with one and with two seats for the statistics
of attendance; 4 invitations of 3 sources with two times, so that ties occur; 3 events and 4 arrangers;
3 events in the history of recommendations, of which 2 count; two statements two relations deep.

Why the bounds are enough. A seat transaction touches its own row, the head of the waitlist and
one more row that it must not touch: three users. Two requests contend for the lock; a third would
wait as the second does, and what it would see when granted is a committed state that two requests
already reach one after the other. Capacity 1 makes the last seat scarce, 2 lets two leavers free two
seats, unlimited turns the waitlist off. Two changes of a picture and one upload on one slot and a queue
of one reach a full queue, a woken upload and a fresh one. Two organizations let an edit wait for one
invitation while it holds another. Three users in an organization are an owner, a successor and one
more. A lock with a time-out has a holder and a thief: two syncs; the second connection of a feed lets a
sync of the first meet the second. Two people and two browsers are a browser shared and a browser of
one's own; three accounts are one each and one made by mistake. A counter has the last request that it
admits and the first that it refuses. A store of two session ids with three to choose from is full.
For seats, co-organizers, answers, roles, pictures, the feed lock, logins, quotas, popups, edits and
access the theorems of section 5 remove the bounds.

Where a passing run leaves something out, it is something the code does not keep away: `Editors` and
`Deleters` in `seats_core`, time-outs in `seats_disturbed`, `Removes` in `invitations`, `Overlap` in
`roles_safe`, `UrlRaces` and `Hiding` in `site`. Section 6 tells what happens with them.

Symmetry is used over users and requests in the runs that check no liveness.
Deadlock is checked where the system can always go on. `CHECK_DEADLOCK FALSE` stands where it may end:
the event or every account may be deleted (`invitations`, `roles_*`), and where the budgets, the clocks,
the accounts or the statements of a model run out (`images`, `ics_feeds`, `logins`, `quotas`, `site`).

Fairness. `SeatRegistrations`: a transaction that has the lock runs on (weak), and the lock is handed
to the transactions that wait for it in turn, as Postgres queues them (strong, on `Decide`).
`EventInvitations`: code that can run runs, and Prisma's timer fires (weak on `Advance` and `Expire`),
without which two accepts on an exhausted pool, or an accept and a deletion, wait for each other for
ever. `CoOrganizers`: strong fairness of each answer and each edit, the turn in a row's queue.
`ImageStore`: a request that can go on does, a decode ends, with an image or an error, and a resolved
promise resumes its waiter. `IcsFeedSync`: syncs and the disconnection go on, time passes, so that a
lock gets old and a feed due, and the cron job comes round. `Logins` and `Quotas`: requests under way are
worked on, one by one (weak, on all the work together; each piece of work ends in a bounded number
of steps, so none is passed over for ever). No client is assumed to do anything, no crash to end, and nothing that may
fail is assumed to fail or succeed; `Converges` asks for a host that answers from some time on.

## 5. What is proved

Each theorem is of the form `Spec => []Inv` or `Spec => [][A]_vars` for every value of the constants
under the ASSUMEs of the module (finite sets of users and uploads, limits that are numbers, names
that differ). Where more is assumed the theorem says so.

`SeatAndListProofs`, the seats. The invariant is `SeatInv`: `TypeOK`, `ReqOK` (a request that runs is for a user),
`LockInv` (who is past `waiting` and not `late` holds the event row, hence there is one), and `PlanInv`: what a transaction
decided under the lock is still right. That is what makes the lock work and what no single property
says: as long as the lock is held, the only writers of registrations are invitations that were declined, accounts
that cascade, and inserts that wait, none of which adds to GOING or reorders the waitlist. From it:
`NeverOverbooked` (assuming `Editors = {}`), `AttendanceFits`, `FreedSeatsAreRefilled`,
`ServedInOrder`, `PlacesOnlyImprove`, `BansStay`. `SeatsAreUsed` (assuming no editors and no deleted
accounts) needs two more invariants, that somebody waits only when the event is full, and that a
transaction that puts somebody on the waitlist will still find it full. `MailedPromotionsHappen` (no time-outs)
needs that the head a transaction mailed is the head it promotes.
`SeatsAreServedInTurn` is the refinement of `SeatService`, under the assumptions of `SeatsAreUsed`: a commit
takes a seat or the last place of the queue, gives a seat to the first of the queue, or takes somebody out of it, and
no other step shows. The queue is not sorted in the model: the i-th is who has i - 1 people before them
(`getPositionInWaitlist`), of which `PlacesTaken` and `OneList` prove, from an order alone, that there is exactly
one for each place. What the invariants above lack is `OrderInv`, that `updatedAt` orders all registrations;
a write to one keeps the order of the others.

`SeatAndListProofs`, the lists. The same lemmas carry `PagesAreOfOneList`: of each source the newest
`skip + take` are offered (`SourcesOffer`), what is not offered has at least that many newer that are
(`OfferedAreNewer`), so that nothing is missing before the end of the page (`NothingMissing`); ties by
id make it an order. "My events" are one list with a place for each event, and every place is on one page
(`OnOnePage`). `LoginsAreLostOnlyToYounger`: a call adds one entry at most, so the limit costs one at
most, an expired one or the stalest (`LimitCostsOne`).

`SeatAndListProofs`, the sums. The library's induction over finite sets takes an operator, so it is done here on
sets: the subsets of a finite set for which something holds are all of them, when the empty one is among
them and each whose subsets with one element less are (`BySize`, from the least counterexample). From
it a fold over a set is what its recursion says (`FoldDefined`), and a sum takes out one element, splits
into parts and lies between bounds (`TotalTakes`, `TotalOfParts`, `TotalBounds`). Analytics: `AudienceInv`,
what was logged since each tick and the followers before it make up the followers there are and those who
left with their account (`Balanced`), and who follows since before a tick was counted then. `FiguresAgree`:
every window and day of the series is a part of that sum, and the one pass over the registrations has counted,
after each of them, those it has passed (`TallyIsCounted`). Recommendations: the lemmas of the lists say what
a ranking has and that leaving some out of it is the ranking of the others (`PickedInOrder`), those of the sums
that a mean lies between the least and the greatest (`Mean`): `TasteIsTrue`.

`CoOrganizerProofs`. `SyncInv`: an answer that moved an invitation holds it and it is still what it
was; only one edit runs, and it holds what it withdraws and invites; and an invitation that was not
open when an edit read it is not open now, as only edits open invitations. `CollaboratorsAlwaysAgreed`, `AnswersReplacePending`,
`ListsAreFinal` and `ListedOrganizationsStay` follow.

`EventInvitationProofs`. `AnswerInv`: a request past its gate holds the rows of its invitee, and what
it matched is still PENDING. `AnswersAlwaysStand` and `SeatsHaveInvitations` follow with time-outs
included, `AcceptsAreWhole` when nothing times out (then no inner transaction is ever orphaned).
`InvitedCanAlwaysAnswer` assumes that no arranger removes a registration (`~Removes`; section 6 says
why). It needs what a request does between its statements to the pair of rows: which of the two it has
written, and that nobody else can have written the other one.

`RoleProofs`. `OneOwnerAlways` and `AcceptingNeverDemotes`, with the one assumption that only
operations overlap which do not outdate each other's checks (`Overlap` within `SafePairs`; section 6
says what the others do). `RolesInv`: what each request has checked so far still holds. Who transfers the
organization is still its owner, whose role changes or ends still is not, the successor of an account
that is deleted is still a member, the role that an acceptance read is still the role as far as it
matters. Each is kept because what would undo it holds the row or is not among what overlaps.

`ImageProofs`. `SlotInv`: `running` is the number of uploads that decode or were woken; the queue
has exactly the uploads that wait, once each; all slots are out while anybody waits.
`DecodesStayBounded`, `SlotsAreNotLost`, `NobodyBarges`. `ImagesUseSlots` says that `ImageStore`, which
decodes among all else it does, implements `DecodeSlot`, every step of it being a step of the slots or a
stutter, so that `ImagesDecodeBounded` is the first of these theorems. `PicturesInv` is about the pictures
themselves: a picture belongs to one row (names differ, `ChangesAssumption`), changes of a row that is
not contested come one after the other, and a change knows at each of its calls what it has uploaded,
what it has deleted, and what the row had before. `PicturesAgree` is what the run checks: rows name
pictures that exist, nothing is left in the bucket but what a failed call left there, colors are those of
the picture.

`IcsFeedProofs`. `LockInv`: ids of feeds are not used again, and as long as no lock was taken from a
running sync (`~robbed`), whoever imports has a lock that is not free, and is alone: `ImportsExclude`.
`ImportInv` adds that what such a sync has written so far is still there, from which
`SuccessesAreExact`. `SeenKept`, that the rows a disconnection has seen stay until it commits, gives
`DisconnectingKeeps`, for which no lock is needed at all.

`LoginProofs`. `LoginsInv` has four parts. Of accounts: they keep a login, only identities of their person,
and an e-mail of that person. Of mailed links: one per number, and one per account. Of locks: who
deletes an account's link holds its row, and has counted one that will be left, and who mails a link holds
the row it looks for older links of. Of each browser: who waits at a provider is the person whose
account the link is for; an identity is parked for an account of its own person; what a request has
found out by each of its steps is still so; a cookie is no younger than the token of its account. From it:
`AccountsStayTheirs`, that nobody ends up in another's account and none is left without a way in;
`RevokedStaysRevoked`, that a token once revoked never serves again and a link logs in once; and
`LoginsSpareSessions`. Assumed of the providers is that an e-mail they vouch for is one person's
(`EmailsAssumption`): the strategies refuse what is not verified (`google.strategy.ts:71`,
`vipps.strategy.ts:74`), and accounts are found by it.

`SiteProofs`, four parts of `site` and the quotas. Popups: `PopupInv`, popups do not overlap, and what a
request found available under the advisory lock is available until it has written; `OnePopupAtATime`.
Edits: `CategoriesInv`, who holds the row has read the categories that are still there; hence
`CategoriesOfOne`. `UrlsStayExternal` assumes that no edit of the URL alone overlaps another (section 6
says why). Pages: `AccessStrong` and `DecisionsAgree`, lists, guards and pages decide alike, for any people,
organizations and memberships. `SeenInv` and `OnlyTheSeeableShown`: what a request has read by now was
true at some moment of it, so that what it shows might be seen then; assumes `Hiding = FALSE`.
Quotas: `QuotasInv`. A transaction that creates a key counted fewer than the limit, and no key it read is
gone (one that was added since makes it fail as not serializable); what was found under a row lock still
holds, and a locked row has one holder; where a counter's window is over, none of what it counts happened in
this tick; the last mention in Discord is an hour ago or in the window that runs; and updates are in the
order of their times. `LimitsAlwaysHold` follows for any limits, windows and requests
that satisfy `QuotasAssumption` (limits are positive, and a mention has a window of an hour with a limit of one).

Charges: what is written was charged, and the charges are within the limits. A statement is looked into
wherever it is nested (`AllLookedInto`, by the relations the schema has, `ChargesAssumption`), so that every
row it may create is among those it is charged for (`CreatedAreCharged`) and, where nothing depends on what
the database finds, is all it is charged for: `ChargesAreRight`, for statements of any depth.

What is only model-checked is liveness (`EveryRequestEnds`, `RequestsEnd`, `EveryoneEnds`, `Converges`),
which is out of reach of the prover. Every safety property of a passing run is stated by a theorem; those
of `site` are about the specification of the part itself (`PagesSpec`, `AudienceSpec` and so on), of which
`SiteSpec` runs one at a time.

## 6. Disagreements: where the code and what it says part ways

Shown by a run that is expected to be violated:

* `roles_owner_lost`. Roles are changed and deleted by key alone, after checks that a transfer of
  ownership or a deletion of an account may outdate: the owner is lost.
* `pages_by_urlid`. `GET /events/:id` serves ids and urlIds, and `IsArrangerInterceptor`
  (`auth/interceptors/isArranger.interceptor.ts:72`) takes either for an id: an arranger who has no
  registration is refused the page of their private event by its urlId.

Stated in the modules, and seen by setting the constants of a run otherwise or adding the property:

* With `Editors = {e1}` in `seats_core`, `CapacityRespected` fails. `EventsService.update` compares the new capacity with a
  count taken before its transaction (`events/events.service.ts:563`); a registration that commits in
  between leaves more people than seats, which the comment at 484 says must not be.
* `DeletionGivesSeatBack` in `seats_disturbed`. `UsersService.remove` releases seats first and deletes
  the account later (`users/services/users.service.ts:644`); a registration in between is lost in the
  cascade, and nobody is promoted to its seat.
* With `MayExpire = {t1}` in `seats_disturbed`, `PromotionMailTrue` fails: a promotion mail is awaited
  inside the transaction (`common.registrations.service.ts:196`), and one that takes longer than the
  time-out is, or was, sent for a promotion that is rolled back.
* `AcceptIsWhole` in `invitations`. Accepting commits the seat in a transaction of its own
  (`eventInvitations.service.ts:286`); when the outer one then times out the invitee attends with a
  pending invitation.
* With `Removes = TRUE`, `InvitedCanAnswer` fails: an arranger who removes a registration and invites
  again leaves a user who is INVITED without an invitation to answer, as the insert of the invitation
  is skipped as a duplicate, and that of the registration is not (`eventInvitations.service.ts:212`).
* `InvitationsRaise`. A member invited to be an ADMIN is sent an invitation to be a MEMBER
  (`organizationInvitations.service.ts:169`): the rows that are mapped are role rows.
* `HigherGrantWins` in `EventPages`. "The higher grant has to win over the first one found"
  (`event-access/event-access.service.ts:49-50`), but a collaborator's own row is returned at once, and of several
  organizations the first one's role, also to an admin of the organization that owns the event.
* With `UrlRaces = TRUE`, `ExternalUrlWhenExternal` fails: an edit decides on the URL by the mode it
  read before its transaction (`events.service.ts:546-591`), which another edit may have changed.
* With `Hiding = TRUE`, `NothingShownUnseen` fails: a page reads visibility, approvals and registrations
  one after the other (`event-access/event-access.service.ts:112`), and when unapproved organizations come
  or go meanwhile it may combine what was true at no one moment.
* `DisabledIsOverdue` and `DisconnectedIsArchived` in `IcsFeedSync`: a feed is disabled by an update
  that does not look whether it has recovered meanwhile; an event that a running sync inserts after the
  first statement of a disconnection stays live without a feed.

Met while modelling:

* A banned invitee who accepts gets an ACCEPTED invitation and no seat, as the transition does nothing
  and reports success (`eventInvitations.service.ts:286`).
* Two transfers that were both authorised leave two owners (`organizations.service.ts:656`); an
  acceptance that read a role before a promotion writes the lower one over it
  (`organizationInvitations.service.ts:248`); answers are written by id, so a decline may replace an
  acceptance (`organizationInvitations.service.ts:299`).
* The unique key of an organization invitation has its status in it (`prisma/schema.prisma:583`): the
  second decline of the same offer fails, and so does the sweep that ignores old ones.
* Favorites, the list of one's registrations and the count of events show public events of organizations
  that are not approved, whose pages are refused.
* Every update of an event writes the image it read before (`events.service.ts:596`): one that
  overlaps an upload puts the deleted picture back on the row.
* The pages of favorites and of the search in one's registrations are ordered by `updatedAt` alone: rows with equal
  times may be repeated or skipped.
* The prior for popularity may exceed the weight of a favorite (`recommendations.service.ts:12-14`);
  candidates are limited before those already known are taken out (53, 74), so that a
  user who knows the first ones is recommended few or none; and events beyond the newest 200 of the
  history are recommended again.

## 7. What is abstracted, and what is not modelled

* One event, one organization or one feed at a time: no transaction of the modelled code writes two.
* In `SeatRegistrations`: whether a form answer, a food preference or the visibility of an event
  refuses a request is a free choice (`Refuse`); the event itself is not deleted
  (that is in `EventInvitations`); an arranger creates registrations only by inviting.
* In `EventInvitations`: GOING and WAITLISTED are one status, `HELD`, as invitations do not tell them
  apart; a batch of invitations is one invitee per request; the accept's inner transaction is the
  short form of what `SeatRegistrations` models in full.
* In `OrganizationRoles`: age of invitations and seniority of members are free choices; a request to
  invite is one user; the read and the insert of `createInvitations` are one step (it has no gap but
  that between two queries, and the insert skips duplicates).
* In `ImageStore`: a picture is named after the change that uploads it, pixels are left out.
* In `IcsFeedSync`: what the parser makes of a calendar is a set of events; a replaced url keeps its
  events until the next sync, as in the code; failures beyond the fourth are one.
* In `Logins`: the login of developers and the birth date that Vipps tells are left out; a token is its
  id; one request at a time per browser.
* In `Quotas`: one window per action; the text of what is sent is left out.
* In `EventPages`: of an event only visibility and archival; in `EventEdits`: an edit changes one group
  of fields.
* In `Taste`: memberships, which are known like follows, and the sample of candidates are left out; scores
  are scaled to integers, and the logarithm is a table.
* Ids, texts, mails other than those whose sending is in a module, DTO validation and serialisation are
  left out.

Not modelled, with the reason: rate limits (counters in a library, the key is a function of the
request); location search and geocoding (calls to outside services, no state); what the parser reads
out of a calendar and which addresses its fetch refuses (text and address arithmetic); the translation of
MCP tools to services (no state of its own); the search of organizations and events (one query each);
profile and organization texts, feedback (single statements); texts of mails and alerts; health and
start-up. PROJECT.json lists them with the components they belong to.

## 8. Plan

Done, in this order: `SeatRegistrations` with `SeatService` and its proofs, `DecodeSlot`,
`CoOrganizers`, `EventInvitations`, `OrganizationRoles`; then `IcsFeedSync` with its proofs,
`ImageStore`, `Logins`, `Quotas`, and the parts of `site`; then the proofs of every safety property of the runs.

Next, most important first:

1. Composition of `SeatRegistrations` and `EventInvitations` with the full nested transaction, and the theorems
   of both about it.
2. Abstract specifications of answers (`EventInvitations`) and of a feed (`IcsFeedSync`) with proofs that the
   modules implement them, as `SeatRegistrations` implements `SeatService`.
3. The rules of the ICS parser (recurrence, all-day events, time zones) as operators.
4. The search of organizations: its ranking and its pages under changes.
