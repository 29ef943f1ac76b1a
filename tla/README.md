# Formal models of nash-budget

`nash-budget` is a local-first family budget: a PWA, the same code in an Android
shell, and an optional end-to-end encrypted synchronisation between the devices of
a family (`docs/SYNC_ARCHITECTURE.md` is the norm it is written to). What goes
wrong in ways a test hardly reaches is first of all in the synchronisation, and then
in long sequences of ordinary edits, months, imports and copies; these modules are
about both. Paths are relative to the repository; the lines every definition
translates are in `PROJECT.json` ("map"), the hazards each property is for under
"hazards".

## 1. Inventory

| Part | State it keeps | Operations | What is hard | What makes it correct |
|---|---|---|---|---|
| Journal merge and clock (`packages/sync-protocol`: `journal.ts`, `clock.ts`, stamp limits of `codec.ts`) | per device: the winning operation per entity, per activation pointer, applied identifiers, Lamport clock | write locally, fold a delivery, restore from disk | any order, repetition, shared identifiers, absurd stamps, restarts | convergence; tombstones final; stamps unique and honest; a local edit takes effect |
| Memo and conversion gate (`journal.ts` 1215 ff. and 489 to 1212) | a mutable memo with an undo log behind immutable snapshots; none | fold, rewind, copy; show the journal as a budget | shared state cut at limits; dangling references, duplicates, namesakes | a snapshot never changes; only whole budgets are shown and the rest is named |
| Sync server (`apps/sync-server`) | accounts, devices, members, epochs, numbered envelopes, wraps, confirmations, invites | sign in, create, join, leave, remove, revoke, delete; submit, fetch; declare, upload, complete, cancel; hand over; invite | requests of several devices, rotations that hang, accounts that go in the middle | gap-free numbering, frozen journal while staged, no leftovers, nothing acknowledged is lost |
| Sync engine (`packages/sync-client`: `engine.ts`, `intake.ts`, `checkpoint.ts`) | outgoing queue, journal, cursor, epoch record, stop, anchor, all in IndexedDB | enqueue; push, re-encryption, barrier, pull, checkpoint | rounds side by side, lost answers, crashes between transactions, epoch changes | nothing saved is lost; nothing the cursor passed is missing; alarms are right |
| Epoch acceptance (`epoch-chain.ts`, `epoch-intake.ts`) | accepted key and epoch, pins | walk wraps and confirmations | missing links, substituted keys, a restored server | a key is accepted only along a confirmed line, and always along a complete one |
| Rotation (`features/family/rotation.ts`, `sync-crypto/rotation.ts`, `controller.ts`) | the attempt, in memory | declare, read, upload, wrap, complete, cancel | two devices of the owner, sweeps, damaged rows, lost answers | a rotation is one step; a cut is only made lawful by consent |
| Sessions (`tokens.ts`, `routes/auth.ts`, `account.ts`, `transport.ts`, `controller.ts`) | mailed codes, accounts, device rows, single-use refresh tokens | ask for a code, sign in, refresh, sign out, revoke, delete | lost answers, two tabs, actions that write back, tokens of earlier sign-ins | a session ends only on purpose, and then for good; deletion needs a recent proof |
| Invites and joining (`controller.ts`, `invites.ts`, `sync-crypto/invite.ts`) | invite record, pins, verdicts | issue, join, check, confirm by voice | lost answers, expiry, rotation meanwhile | one account per code; every proof is judged |
| Budget writes and storage (`App.tsx`, `packages/storage`, `createBudgetJournalWriter`) | document with revision, the screens of each tab | read, save, found, join, leave, clear, restore, publish | two tabs, a delivery between read and save | what was reported saved is kept; a screen shows what is stored |
| Codec (`codec.ts`, `features/family/journal.ts`) | none | diff to operations, encode, decode | optional fields, bounds | what is saved can be sent, and arrives as it was |
| Domain (`packages/domain`), operations, planning, import, onboarding, copies, dashboard | the budget | every edit of the screens | sequences over months, undo, overlapping files | the budget stays one the domain accepts; figures agree; a bank's row counts once |
| PWA update policy (`update-policy.ts`, `UpdatePrompt.tsx`) | policy, prompt, page | silent and asked-for updates | drafts begun meanwhile, failed attempts | input outlasts an update; the prompt is never lost |
| Cryptography, HTTP, mail, limits, Android, Excel and release tools | none that concerns a protocol | | | left to tests |

How they interact: a screen hands a new budget to `createBudgetJournalWriter`; the
engine stamps operations, folds them into the journal and commits document, journal
and queue in one transaction. A round (`sync`) pushes the queue, crosses an epoch if
the key has changed, pulls and folds pages. A refused round makes the controller ask
for wraps of a new epoch. The owner's device rotates the family key through the
server: declare, copy the journal under the new key, wrap it for the others,
complete. The server sees envelopes and numbers them; it reads nothing. Every
request goes out with a token, and one refused refreshes it first.

## 2. Modules

| Module | What it models | Composed in |
|---|---|---|
| `JournalOrder` | the order of operations (`compareOperations`, `outranks`, the activation order), `rankedLamport`, `tickClock`, the adopted clock | `Journal` |
| `Journal` | the devices of a family folding each other's operations in any order with repetition; local and foreign writes; restart | `MCJournal`, `JournalProofs` |
| `SyncServer` | the server for one family: one action per route that changes state, and the passing of time | `MCSyncServer`, `SyncServerProofs` |
| `DeviceOutbox` | one device: concurrent writes and rounds over its database, epoch changes by another device or led by itself, crashes | `MCDeviceOutbox`, `DeviceOutboxProofs` |
| `SyncIntake` | pages, cursor, stop, checkpoints and anchor of several devices reading one list | `DevicePartsProofs`, and through it `MCDevice` |
| `KeyRotation`, `AtomicRotation` | the rotation step by step on two devices of the owner; and what it promises | `KeyRotationProofs`, and through it `MCDevice` |
| `EpochChain` | the walk over wraps and confirmations on two tabs | `DevicePartsProofs`, and through it `MCDevice` |
| `JournalMemo` | the memo, its undo log and windows | `MCDevice`, and proved about in `MCDeviceProofs` |
| `Calculation` | what the domain accepts and computes, as operators over a set of entities | `JournalGate`, `Household`, and what they use |
| `JournalGate` | `buildView`: from any part of a journal to a budget or a refusal | `MCDevice` |
| `BudgetStore` | revisions, tabs, the writer queue, the journal in the document's place | `DevicePartsProofs`, and through it `MCDevice` |
| `Household` | every change a person makes, the months, imports, copies | `MCDevice` |
| `OperationCodec`, `Backup`, `Onboarding`, `Dashboard` | pure: what is sent, what a copy is, where a budget begins, what the screens say | `Household` |
| `Session`, `Joining`, `Updates` | refreshed tokens; invites; updates | `DevicePartsProofs`, and through it `MCDevice` |
| `Login` | sign-in by mailed codes and what it opens | `LoginProofs`, and through it `MCDevice` |
| `Subsequences` | the elements of a list at some of its places, which is what `Array.prototype.filter` returns; with proofs | `DeviceOutbox`, `KeyRotation`, `SyncIntake`, `Login` |

`MCDevice` puts the parts that share no state in these models side by side: the
initial state picks one (`part`) and only that one moves. It extends `DevicePartsProofs`, where
six of the parts are instantiated and proved about, and `MCDeviceProofs` carries the theorems of
all parts over to the whole and proves the memo. This is a way to run
them, not a claim that they interact; where parts do interact, the smaller one
takes the result of the larger as a step, and says so: `DeviceOutbox` takes another device's
rotation as the one step of `AtomicRotation`, which `KeyRotation` is shown to
implement; it takes an accepted epoch from `EpochChain` and a pull from `SyncIntake`;
`BudgetStore` and `JournalMemo` take the merge from `Journal`.

### Journal

`journal[d]` is the snapshot a device holds and has stored: `entries` and
`activations` are the registers, `applied` the identifiers, `lamport` the clock.
`Fold` is `foldInto` on one operation, complete with the clock it adopts; `Write` is
`createLocalOperation` followed by `applyOperations`; `Receive` is
`applyOperations` on something already written by anybody, at any time and again;
`Restart` is `restoreJournal` on the stored snapshot. An operation's contents are an
identity `uid`; `OpIdOf` may give two of them one identifier, which is what a
misbehaving or duplicated author produces. `ForeignWrite` writes any stamp the codec
lets through. `seen` and `written` are history: the code keeps neither. The digest
that breaks ties is an injective `Digest`.

### SyncServer

`better-sqlite3` is synchronous, so a handler runs from `authenticate` to its last
statement without interleaving, and each is one action. `requireMembership` sweeps
overdue rotations before anything else, so actions behind it work on `Swept(db)`.
`db` holds the tables as far as one family goes; `numbered` is the history of all
numbers ever given. A rotation's `rotationId` is represented by its epoch number,
which is never used twice. Requests that are refused change nothing but the sweep
and are the one action `Poll`. Rate limits, byte budgets, invite codes and tokens
only refuse and are left out.

### DeviceOutbox

`disk` holds what survives: the queue as a sequence of an operation and the epoch it
is sealed under, the family key's epoch (`key`), the retired key's record
(`retired`: never written, an epoch, or `Erased`, which is a record holding
null), the epoch of the cursor and the epoch record (`mark`). `task` holds one entry per
concurrent call: the poll, and writes, each of which goes on as a round of its own
with the engine it was made with (`afterWrite`). Every call carries what its engine
captured (`key`, `old`), the batch, what a rewrite has in hand, and its place. A
step ends at every await whose interleaving matters: list, remove, load, add,
submit, confirm, mark, open, barrier, fetch, fold, report, forget. Reads that
immediately follow each other (the records `engineFor` reads, those of `status`, an
erasure with the read before it) are one step. The document's revision is the flag
`fresh`: true from the read until somebody else commits.

`rotation` is `performRotation`: snapshot of key and queue, declare, upload and
complete, settle the queue, switch. The round it starts with is left to the poll's
rounds, which may run at that moment or not; the code goes on if it fails. The
`server` is what a device can tell of it: epoch in force, staged or not, the
operations of the journal, the wraps addressed to this device. `proven` is history.
Another device's rotation is one step that carries the journal whole; `SyncServer`
is where a rotation's own steps are.

Checkpoints are not in this queue, a pull is one page, and pins and fingerprints are
idealised: a wrap that exists is good.

### SyncIntake

`rows` is the server's list, operations and checkpoints under consecutive numbers;
`disk[d]` the cursor, the journal, the anchor and the stop; `round[d][r]` what one
call of `sync` has in hand between its awaits. A round drains the queue, asks for a
page, folds it (operations, then checkpoints against the anchor), commits, goes on while the
page was full, and writes a checkpoint of its own when enough has passed. The list
may lose its end and be numbered anew, get a hole, or hold a row this build cannot
take (`Flaws`); what the code reports is `past[d].alarmed`. An abandoned call
simply does not take its next step. The attempts a halt counts have no limit in the code and none in the
record; `Retries` bounds them in the guard of `FoldPage`.

The loop of `applyDelivery` is not written as a loop: what it has in hand after `k`
rows of the page is said of `k` (`Reached`, `Ids`, `Link`, `Verdict`), `Taken` is how many
rows come before the first one refused, and the results are those of `Taken` rows.
This is the same function, and one a prover can speak about.

### KeyRotation and AtomicRotation

`lead[l]` is the attempt of one device of the owner, from the snapshot of the queue to
the switch of its key; `staged` is the server's prepared epoch; `family` what is in force.
The sweep, the cancellation that follows any failure (and cancels whatever is
staged), a lost answer and a damaged row are steps. An attempt takes the list of devices from the screen, which may be
the first one or the present one, and wraps for every device on it but itself, the owner's other one
included (`Recipients`). That one follows along the wraps it has been given (`Linked`, `Accept`), across several
epochs where need be, and leads from there with a cursor at the beginning and the queue it had; where one wrap of the line is
missing, as after a lost answer to a completion, it never follows. All devices are pinned, and those
of the owner are not revoked here (`SyncServer` has that). The abstract specification has one step,
which raises the epoch and keeps whatever could be read; the refinement maps its
`epoch` to `family.epoch` and its `journal` to the operations of `family.rows`.

### EpochChain, JournalMemo

An epoch's key is made of the key before it and the attempt that made it, so a
line is a chain of parents. `Walk` is one pass of `resolveEpochChain`, and `Accept` what
the controller does with its answer. In `JournalMemo` a snapshot is the place in a
memo that it owns or has lost, with what it has already answered (`kept`); the
limits are 1 and 2 instead of thousands, because only their order matters.

### Calculation, JournalGate, Household

A budget is a set of entities of one record type and the identifier of the active
month's budget. Dates are a month of the count and a day; money is an integer.
`JournalGate` has one action, the arrival of an operation, and everything else is
`View`, a function of the set that arrived. `Household` has one action per
operation of the screens; every one of them is refused whole or saves a new state. `history` is
what no code keeps: what was imported, what was deleted, whether a copy was restored.
`OperationCodec` writes an entity as a row of named fields and reads it back.

### BudgetStore, Session, Login, Joining, Updates

`BudgetStore`: one document with a revision, the family's journal beside it, and for
every tab what it shows and what its writer queue is doing. A step is one IndexedDB
transaction with what its answer does at once. `Session`: pairs of tokens are
numbers, `server` and `disk` hold the rows the two sides keep, each tab has the session it renders and
two calls (poll and action). `Login` is the
server's side of signing in: mailed codes and the counters that ration them, accounts, the rows of devices,
and the access tokens on their way, each with what is signed in it; one action per route, refused requests
that write something included. Which sign-in a token came from, and which sign-ins are over, is history the
server does not keep. `Joining`: the code is its invite; the owner's device has the record of one
invite, its pins and verdicts; a joiner is outside, half in, or in. `Updates`: policy,
prompt and page of one tab; `page.late` marks input begun after an update was under way.

## 3. Runs

| Run | Question | Instance |
|---|---|---|
| `journal` | does what a device holds depend only on what it folded, is no honest edit lost, does everybody end alike? | 2 devices and a foreign author, one entity, 4 contents of which two share an identifier, stamps on both sides of the honest ceiling (5) and the skew |
| `server_queue` | numbering, epochs, the freeze and handed-over wraps through submits and cancelled, timed-out and completed rotations | 2 devices of the owner, 3 epochs, 2 operations |
| `server_members` | a batch over the quota, leftovers, orphaned invites, lost envelopes and endless rotations while people come and go | owner and one more account, 2 epochs, quota 1 and batches of 2 |
| `outbox_all` | what may leave the queue; does the live mark or the erasure of a key run ahead of the proof, with everything allowed to happen? | 2 operations, a write and the poll, 3 epochs, batches of one |
| `outbox_delivery` | is everything written numbered in the end? | 2 writes, one epoch, lossy network |
| `device` | fourteen properties of the eleven parts below | see below |

The parts of `device`:

| Part | Properties | Instance |
|---|---|---|
| intake | `NothingSkipped`, `AlarmsAreRight` | 2 devices, 2 rounds on one of them, 2 operations and 2 checkpoints, pages of 2, one fault |
| rotation | `RotationIsAtomic`, `CutsAreConsented` | 2 devices of the owner, 1 member, 3 epochs, 1 damaged row |
| chain | `EpochsAreConfirmed` | 2 senders, 2 tabs, 3 keys, 1 fault |
| budget | `EnteredIsKept` (`SavedIsKept`, `ShownIsStored`) | 2 tabs, 3 own entities and 1 of others, 3 revisions, 1 family |
| memo | `SnapshotsKeep` | 2 entries, 1 activation, 4 snapshots |
| gate | `GateShowsWholeBudgets` | an opened household of 4 operations and 14 that meet it, up to 6 of them at once |
| household | `BudgetStaysWhole`, `MoneyIsAccounted`, `WritesTravel` | one household in July, up to 3 writes, 2 overlapping files, 3 older copies |
| session | `SessionsAreSound` (`SessionGoesOn`) | 2 tabs, 3 pairs |
| login | `SessionsAreSound` (`AccessIsProven`) | 2 addresses, 2 devices, 3 codes, 3 moments |
| joining | `JoinersAreVouchedFor` | 2 joiners, 2 codes, 2 epochs |
| update | `EnteredIsKept` (`InputOutlastsUpdates`) | one page, unbounded |

### Bounds, and why they are enough

Journal and server: two devices are enough for every disagreement about a journal
(convergence is a property of pairs), and of four contents two compete for a register
while a third arrives late and two share an identifier. One entity is enough
because entities share only the clock, and the theorems hold for any number.
Three epochs are the least in which
an attempt can be cancelled, another declared and completed, and a retired key be
overwritten by the next. In `server_members` a batch of two exceeds the quota of one as
a whole, and an epoch's only place is taken by either of two operations. Two operations with
batches of one give the queue a tail that a batch leaves
behind. Two attempts per compare-and-set let the last attempt happen; the code has
four.

Parts of `device`: what is rare happens once, and not together with everything else
that is rare; each part's `...Bounds` operator in `MCDevice` says in a comment what that is. In
particular: the list is harmed while no round runs; a row is damaged (before the pages are
read or before the switch) or a device revoked in one rotation, not both, and with one attempt at a time; after the first change of
epoch an attempt begins when no other is before its switch; leaving and deleting everything come after the second
write and on one tab; a household's third write is only an import or its
undoing or is made in an opened month; in a session what has begun on the first tab is finished after the session
was ended. `MaxSum` is 80 instead of half the safe range, `MaxMoney` 5000,
`Limits` four transactions and four budgets instead of thousands, `Horizon` 4 months of the year's screen
instead of 12, `ShownDay` the 6th and the 31st; identifiers to be drawn are four.
In `Login` a moment stands for the time between two of the code's terms (5, 10, 15 minutes, an hour), the three longest alike;
a code has one attempt, an address one request, the source two.
These bring every limit within the reach of three writes, and the opposite side of each as well.

`CHECK_DEADLOCK FALSE` is set for the server, where all
accounts may be deleted, for the outbox, which after `Erased` really may have
nothing left to do, and for `device`, whose parts end at their bounds.

### Runs that find a disagreement

Each checks what a comment or document of the repository says, and TLC shows the
code doing something else. The findings in `PROJECT.json` quote the lines.

| Run | What happens |
|---|---|
| `outbox_lost` | `rewriteOutbox` deletes the old records, then adds the new ones in another transaction; the redo record described in its comment is never written. A crash in between loses saved operations. |
| `outbox_stranded` | what is enqueued while this device rotates the key stays under the old key, which is overwritten when the rotation ends. |
| `outbox_unanswered` | the new key is in memory only until completion is answered and membership read again; a lost answer leaves the owner's device outside the epoch in force. |
| `outbox_stops` | the erased key is a record holding null, and `engineFor` reads a field of it: no engine can be built again, so neither rounds nor journal writes happen. |
| `budget_seed` | whether a write is the seed of the journal is decided by the journal's absence. When an operation of somebody else is folded before the founder's first write, the founder's budget is never sent. |
| `session_writeback` | an action persists the session it was pressed with after its requests, over the pair a refresh has stored meanwhile; the next refresh uses a spent token and the device is signed out. |

`KeptUntilNumbered` delimits the first: an operation leaves the queue only numbered,
carried, or into a rewrite that holds it, so the rewrite is the one place it can be
lost from. The comment at `controller.ts:1018` also asks that the retired key be erased
only with an empty queue; the count and the erasure are separate transactions, and a
write that keeps an engine of the old epoch across a whole round can commit between
them. `ErasedOnceProven` checks the other half of that comment.

### What the models show besides

These were met while modelling. Those a property would stumble over are excluded in it by the mark
named; nothing else of the same behaviour is. The hazards of `PROJECT.json` that
end in such an exclusion say so in their note, and those wholly excluded name no property.

Storage and writes
- (`told.aside`) A tab that does not know of the family yet saves by plain
  compare-and-set, and the journal's next fold overwrites what was reported saved
  (`controller.ts` 437 and 946; the comment at `indexed-db.ts` 805 claims otherwise).
- A round or an enqueue in flight after `clear` creates the document and the sync records
  again (`indexed-db.ts` 1129 to 1146); `refreshAccess` persists the session again.
- `JournalMemo`: `held()` caches the live memo while it is current, so a snapshot read
  in pieces answers with a later journal, contrary to `journal.test.ts:2234`. No
  production code reads a snapshot that way.

Epochs, sessions and joining
- (`device.overlap`) Two tabs accepting an epoch at once: the late answer takes the device
  back to a lower epoch (`epoch-chain.ts` 186); the next poll heals it. A device that has no wrap
  for an epoch in between can never follow, and nothing calls `POST /keys`.
- `RotationHalted`'s comment (`rotation.ts` 115 to 121) speaks of going on with an attempt;
  `performRotation` draws a new one. If the first look fails because another device of the
  owner declared, the leader cancels that device's attempt. A 403 on the wrap for a
  revoked device fails the rotation.
- (`past.stale`) `issueInvite` (`controller.ts` 1598 to 1646) seals the key on the disk under the epoch on the
  screen; a device behind a rotation gives out a code whose key does not open the epoch.
- (`past.replaced`) The membership effect writes an empty invite record after several awaits (1258 to
  1262, 1286 to 1305): an invite issued meanwhile loses its binding key; so does the first invite when
  a second is issued before its joiner was checked. The table of pins is read, changed and
  written the same way.
- A lost answer to a join leaves the account a member without a key, and the code is
  spent; `createFamily` then answers `already_in_family`.
- The session's ref is set back by every render, so the single retry may leave with
  the old token, contrary to `controller.ts` 877 to 879; a failed `persistSession`
  drops the new pair with the old one spent; a lost answer to a refresh signs out. A code
  of the mail is spent, and the account made, before the login can still be refused for its device (`auth.ts` 234 to 277);
  a lost answer to it spends the code and leaves a device row nobody uses.
- `submitLoginCode` (`controller.ts` 1525 to 1528) writes the device's key and the session one after the other: two tabs
  signing in at once can leave the key of one with the session of the other.

Budget
- Two devices that open September from different months derive different identifiers,
  and the family has two budgets for one month, contrary to `rollover.ts` 67 to 76.
- `PLANNING_LIMITS.budgetLines` counts the lines of all months while every other limit is
  10 000: after some 33 months of 15 lines the planning screen refuses every edit.
- `archiveCategory` (`operations/model.ts` 457 to 481) refuses while any month has an active
  line of the category; `archiveFlexibleLine` switches off only the active month's and `openMonth` leaves the
  closed one's. After one month a category that ever had a limit cannot be archived, contrary to
  its message, `docs/DECISIONS.md` D-030 and `docs/PRODUCT_SPEC.md:107`.
- Editing and restoring a line compares names over both kinds of category, creating over one.
- Import: rows without a merchant are grouped under `#line` on the screen, but `draftFor`
  looks them up under the empty key: they can never be assigned. Two identical rows of
  overlapping files count as duplicates; `confirm` writes what was planned against the rendered budget.
- Copies: `MAX_NODES` (`storage/backup.ts` 8) refuses a copy of about 10 000 transactions,
  which every other limit allows; a restored copy over the operations' limits makes every later
  operation refused; a copy may have two budgets for one month.
- (`history.restored`) In a family a restored copy is written as creations under
  identifiers the journal has tombstoned, so what was deleted since never comes back
  (`App.tsx` 742 to 760, `docs/SYNC_ARCHITECTURE.md:334`); a copy from before a month was opened buries that
  month's derived identifiers for good.
- (`Large`) Forms take sums up to `MAX_SAFE_INTEGER`, the codec 10^10 minor units
  (`codec.ts` 279): such a budget is saved and, in a family, every later write that carries it refused. Dates before 1900 or after
  2199 and names of a restored copy can do the same.
- The gate's report on sums (`journal.ts` 861 to 973) does not measure balances of single
  months that transfers move back later, so `SumsAreSafe` leaves out accounts with transfers. "The monthly reserve of a
  commitment never exceeds its amount" fails below a rouble, which is rounded up.

Updates
- (`page.late`) Between the request to update and the reload a draft may be begun; then only the
  browser's own question protects it. Onboarding (`App.tsx` 635) and the family and data screens
  are not counted as unsaved input, so there a silent update is not cancelled,
  contrary to `update-policy.ts` and `DESIGN.md:225`. An answer "reloading" without a reload leaves the prompt hidden.

Elsewhere, outside of what the properties say: a queued checkpoint re-encrypted into the next epoch keeps its index and
the digest of the old chain (`engine.ts` 755); a push looks at the first 200 records (880);
somebody may join while a rotation is staged and is not among its recipients (`invites.ts` 290); overlapping rounds
can take the cursor back (`NothingSkipped` holds all the same: the journal keeps what was passed) and
overwrite the anchor: two checkpoints of one device then claim one index, contrary to the comment at 1173 to 1177, and
every other device reports a broken chain. `AlarmsAreRight` speaks of devices with one round at a time (`Serial`) only; `writeCheckpoint`'s `force` is never used.

## 4. Fairness

`journal`: the server keeps every envelope and devices keep polling, so an
operation a device has not folded is delivered to it eventually
(`EventuallyConverged`). `server_members`:
time passes (`WF(Tick)`), and some device polls (every 15 seconds while visible);
`RotationEnds` needs no more, because any member's request sweeps.
`outbox_delivery` and `outbox_stops`: the poll's timer fires while the application
is on the screen (`WF(StartRound)`), a promise that is pending is settled one day
(`WF(Round(t))`), and a network that is tried again and again delivers a submission
now and then (`SF(SubmitAccepted(Poll))`). Nothing is assumed of crashes, lost
answers, writes and rotations. The parts of `device` claim safety only.

## 5. Proofs

Checked by `tlapm` for every value of the constants, from the `ASSUME`s of the
modules only; where a module states no assumption about its bounds, the theorem does
(`Bounds` in `KeyRotationProofs`: epochs and batches are at least one; `Limits` in `LoginProofs`:
limits and terms are numbers, and a code is counted for a while), and
`PartsAssumption` of `MCDevice` has them again for the composition, and with them `Bounds` of
`JournalMemo`: ranks count from one, so that 0 is no operation, entries are not activations, and there is a snapshot. `BoundsAssumption` of `DevicePartsProofs` says
that the bounds on epochs, keys, pairs and invites are at least one. Every invariant was
run under TLC before it was proved. All modules prove within two minutes but
`DevicePartsProofs` and `MCDeviceProofs`, which take about a quarter of an hour each.

`JournalProofs`. The orders are strict, total and transitive on operations with
distinct contents; from that, folding one more operation into a register that holds
the best of a set gives the best of the larger set, including operations that are
already in it and registers restored from disk. `RegistersHoldBest` with the types
and the bound on the clock is inductive; `Convergence` follows because a set has at
most one best element, and `ImplausibleTakesNothing` because of how ranks order.
`StampsNotReused` needs that a device's own stamps never exceed its clock, and that
the clock never goes back. `TombstoneFinal` and `ClockNeverGoesBack` are action
properties from the same invariant. `ClockDominatesSeen` and `LocalEditTakesEffect` hold
only within a limit the code has too, so it stands in the theorems: `FewWritten`, no more
operations than `MAX_LAMPORT_SKEW` and the ceiling allow, the bound of the run as well.
They rest on a count: among honest devices no stamp and no clock is above the number
of operations ever written (`StampsCounted`), so a fold never meets a stamp beyond its horizon.

`SyncServerProofs`. `Good(db, numbered)` joins types, the epoch table, contiguous
numbering, the freeze, and two strengthenings that make it inductive: what is
queued has been numbered as it stands, and no epoch above the high-water mark has
history. There is one lemma per action; the sweep is a lemma of its own because
most actions begin with it, and the theorems for the four properties project from
`ServerInvariant`. `Keys(db)` stands beside `Good`: the invariants about keys, and
that nobody becomes owner but by founding the family, without which a staged epoch could be
left with a leader who is not one. The five invariants of `server_members` about keys
and people and `AcknowledgedKept` and `OwnerWrapNotReplaced` come from the
same lemma per action, which proves `Step(s, t)`: `Keys` afterwards, and what the
step may not take from the epoch in force.

`DevicePartsProofs`, the store. Every document that is written gets a revision that never was
and every family a key that never was (`Onward`), so what a tab or a write on its way knows of a
revision or of a key stays true while that one is in force (`OnwardKeeps`), whatever else moves: a write
that still finds the revision it expects started from the document's budget. From `Invariant`,
`SavedIsKept` (the journal that stands in for the document holds what was reported saved, too) and `ShownIsStored`.

`Subsequences`. The k-th element of what a filter keeps comes from the k-th
place kept; from it, that order, membership, counts and the elements themselves
carry over, and that an interval of places is a piece of the list. A place is counted with
`Cardinality` and not by recursion, so induction over the list is induction over
numbers, done once here.

`DeviceOutboxProofs`. `Invariant` adds to `TypeOK` and `LiveIsProven` what makes them inductive: no
key on the disk is ahead of the server, everything a call in flight remembers was
true when it was read and is of a kind that stays true (`Backed`: a batch that was numbered
stays in the journal, an epoch once proven stays proven), and the own rotation's
place fits the server (`Leading`). `KeptUntilNumbered` and
`ErasedOnceProven` are read off the step: every hand on the queue and on the retired key is
one of the actions.

`KeyRotationProofs`. `Good(l, attempt, family, staged)` says what one attempt in memory
knows at each of its places, whoever else acted since: above all, that while the
server's staged epoch is this attempt's, its load holds all that opens in the epoch in force
and what it sent is staged. That gives `Promised`, the step of `AtomicRotation`
(`RotationAtomic`: the initial states map to initial states, every step to a step or a
stutter), and `Consented`.

`LoginProofs`. `Invariant` says of codes that each code that was sent and still counts has
a place of its own among the requests its address made and among those of its source
(`Covered`), for a request is recorded before its code is made: so the limits on requests
bound the codes (`CodesAreRationed`), and forgetting an address takes its codes from both.
Of access it says that a token tells the sign-in it came from, a sign-in is of one
device, an account once deleted is held by no address again, and a token of a sign-in that is over has an old
serial or a revoked device. `AccessIsProven` follows, whoever signs in, refreshes, signs
out or deletes an account in whatever order.

`DevicePartsProofs`, the chain of epochs. `Walk` and `Ancestors` are recursive functions, and a
recursive function may be anything as long as nobody shows that one exists. So that comes first,
by the least number for which it would not (`WalkExists`, `LineExists`), and from it the two unfoldings
(`WalkUnfolds`, `AncestorsUnfold`). A key stands on an earlier key of a lower epoch, so
ancestors form a line in which any two keys are comparable and no epoch occurs
twice (`LineFacts`). `WalkGood` says of a walk as far as epoch `n` that what it holds is the key of its epoch and
comes from the device's key; that, if nothing was refused, every row so far is on its line; and that, where
the chain is complete, it stands on the line of the key in force and has passed every
key of that line up to `n`. `WalkOn` is the step to `n + 1`. `ChainInvariant` is what makes it applicable: a row and a
confirmation name keys that were made, the device holds the key of its epoch, and a request
still carries the key and epoch that the device has, unless two tabs asked at once.

`DevicePartsProofs`, the alarms. `AlarmInvariant` has three parts. `Once`: an operation stands in one queue or under one number,
wherever its row is (server, page, behind a cursor), so a delivery takes only what is new to the
anchor (`AllAdd`) and its set is the operations of all rows passed (`IdsAre`). `Alone`: a device with one round at a time has the anchor
that those rows make of it (`Anchored`), and what raised no alarm is borne out by them (`Reported`). `Honest`: with
nothing lost and nobody's rounds overlapping, each checkpoint counts a beginning of the rows before it and follows
its author's link, and the queue goes on from there. The link after `k` rows, `EndLink`, is that of the last
checkpoint among them; it joins over lists (`EndLinkJoined`), and the operations of a
beginning are a beginning of the operations (`OperationsPrefix`).

`DevicePartsProofs`, the others. `SyncIntake`: while the list is whole a page in flight is the rows that
come next after the cursor of the call (`CallGood`), however many of them run side by side,
a journal holds what a call's cursor has passed, and a fold takes a prefix of the page, so that
`NothingSkipped` follows even where a fold takes the stored cursor back. `Session`: until something excuses it a tab has
nothing newer than the disk but the one answer it is about to store.
`Updates`: the invariant ties prompt, attempt and page. `Joining`: the live
code is of the epoch in force and unused, each proof on the server belongs to the one code its joiner
heard, and an invite leaves the owner's disk only expired, replaced or judged.

`MCDeviceProofs`. The composition moves one part at a time, so a part's theorem is
a theorem of `MCSpec`, for nine of its fourteen properties.

`MCDeviceProofs`, the memo. What the undo log takes back is a recursive function (`Undone`), shown to
exist like the walk above; appending a step leaves every earlier place as it was (`UndoneAppend`), and so does
trimming the log at its front (`UndoneTrim`). `Continues(m, n)` says that what was to be found in a memo and has not
been trimmed is found after the fold, too; it is transitive, and every fold is such steps (`FoldFacts`).
`MemoInvariant` says that at either handle of a snapshot the memo holds what was folded into that snapshot (`Found`),
unless the place is forgotten, that the identifiers it would return are its own, that
who owns a memo stands at its end, and that a log that was trimmed still has `MAX_UNDO_STEPS` steps. An answer read
in two pieces (`pieces`) may be of two places, but never older than the snapshot. From it follow
`SnapshotsKeep` and the types of the memo.

Only model-checked: the types of the parts that have no theorem, and all of the gate
and the household. All liveness stays with TLC (`EventuallyConverged`, `RotationEnds`,
`EveryWriteNumbered`), for fairness is outside what the prover does.

## 6. Not modelled, and why

- Cryptography is idealised: a key opens what was sealed under it, digests are
  injective. Its correctness is a matter of vectors, not of states.
- HTTP, mail, the byte budget and the rate limits of the server, but those on codes, only refuse.
- The two writes by which a device keeps its key and session after signing in, the reading of a bank's file, the wording, layout and
  navigation of screens, percentages and statuses made of the figures.
- The schema upgrade of old databases and the spreadsheet export.
- Reports of the gate on tombstones, entries and stamps beyond their bounds: they withhold nothing.
- Android, the Excel template, release tools, fixtures and contracts: build scripts and generated artefacts.
- Texts, identifiers and encodings appear where they decide something (the stamp ceiling, optional fields,
  bounds of sums) and not otherwise. Names are compared by their normal form and stand for it.
- Other tabs under the same service worker: `Updates` is about one page.

## 7. Plan

Modelled so far is every part whose control the runs can reach. What is left is mostly proof, for which the modules
are written without recursive operators. In this order:

1. `JournalGate`: what is withheld, and that the rest is a budget.
2. The types of the parts that have no theorem.

Then larger compositions: checkpoints in the queue of `DeviceOutbox`, and the restore of the server's
database across `SyncIntake` and `EpochChain` at once.
