# DevWorkspace in TLA+

DevWorkspace ("devsync") shares encrypted files (`.env`, configuration) between
the developers of a team. A server keeps users, devices, teams, vaults and
versioned ciphertexts in PostgreSQL or SQLite. A command line and a terminal UI
hold the keys, encrypt, and talk to the server over signed HTTP requests. This
directory holds TLA+ modules of that system, TLC configurations that check
them on small instances, and TLAPS proofs about every module of the core: the
versioned file store, the vault keys, teams, onboarding, self-update, the
terminal UI and the rate limiter. Paths below are relative to the repository.

1. [The system](#1-the-system)
2. [Modules, and how they correspond to the code](#2-modules-and-how-they-correspond-to-the-code)
3. [Runs: what is checked, the bounds, what it shows](#3-runs)
4. [Fairness](#4-fairness)
5. [Proofs](#5-proofs)
6. [Where the code disagrees with what is said of it](#6-where-the-code-disagrees-with-what-is-said-of-it)
7. [Not modelled](#7-not-modelled)
8. [Plan](#8-plan)

`PROJECT.json` has the same in tables: components, runs, one mutant per
property of a passing run, the source lines of every definition, the findings,
the hazards at their lines and the theorems.

## 1. The system

| part | code | state | operations |
|---|---|---|---|
| file store | `internal/server/store/files.go`, `http/handlers_files.go` | tables `files`, `file_versions` | push, rm (a push of a tombstone), pull, history, list |
| vault keys | `store/vaults.go`, `http/handlers_vaults.go`, `client/actions/{vaults,files,common}.go` | `vault_grants`, `vault_key_shares`; the vault keys themselves, which only clients see | grant, revoke with rotation, fetching key shares; push, pull and checkout under a key |
| teams | `store/{teams,invites}.go`, `http/handlers_teams.go` | `teams`, `team_members`, `invite_tokens`, `vaults` | create, delete, invite, claim, set admin, list members; create vault |
| accounts and onboarding | `store/users.go`, `http/handlers_identity.go`; `client/{keystore,agent,config}`, `client/actions/{register,recover,onboard,device}.go`, `client/tui/wizard.go` | `users`, `devices`; keystore, agent session and `config.json` on each machine | init, register, recover, unlock, lock, link or revoke a device, first-run wizard |
| request authentication | `protocol/sign.go`, `http/auth.go` | none | signature, time window, device and role middleware |
| rate limiter | `http/ratelimit.go` | a map of visitors: token bucket and time of the last request per remote address | take a token, refill all, forget idle visitors |
| terminal UI | `client/tui/` | stack of views; goroutines of commands and the messages they will send | keys; push, pop and replace a view; results of commands |
| self-update | `client/commands/update*.go` | four files per binary (`dst`, `.old`, `.tmp`, `.new`), the Windows batch script | replace the installed binaries, the running one included |
| cryptography | `internal/crypto/` | none | sealed boxes, AES-GCM, argon2, recovery phrase |
| command line | `client/commands/` | none of its own | flags and prompts around `actions`; `setup` |
| migrations, configuration | `internal/db`, `server/config`, `cmd/` | schema version | run before the server listens |
| listings, audit trail | `store/audit.go`, list handlers | `audit_log` | append; read-only queries |

**How they interact.** A client command is a chain of HTTP requests with local
state between them: fetch the key share, fetch the current version, encrypt,
post. Each request is authenticated by middleware, which reads the device, the
user and sometimes the team's role, and then runs a handler that reads some of
it again. A handler is a sequence of SQL statements, some in one transaction
and some not; nothing but the database stands between two handlers. On
PostgreSQL a transaction is READ COMMITTED and `SELECT ... FOR UPDATE` locks a
row; on SQLite `SetMaxOpenConns(1)` makes a transaction own the only
connection. The client's three files are written by different commands at
different points of those chains. In the terminal UI every one of these
commands runs in a goroutine, and its result comes back as a message to an
event loop that has taken other keys meanwhile. The rate limiter stands before
`handleRegister` only. Self-update talks to GitHub and shares nothing with the
rest but the machine.

**What is hard**, and what makes each part correct:

- *File store.* Concurrent pushes of one path with the same base version, the
  first push of a path (no row to lock yet), answers lost after the commit, a
  pull whose two queries straddle a push or the deletion of the team.
  Correct when a push is an atomic compare-and-swap on the latest version,
  history is contiguous and never rewritten, `files.latest_version` and
  `files.deleted` agree with it, what was acknowledged stays, and what is
  logged happened.
- *Vault keys.* A rotation is computed by a client from a listing, a key and a
  version fetched in separate requests, and applied by a handler that runs one
  transaction per file. It races with pushes, removals, grants and other
  rotations, and may stop anywhere. Correct when a rotation changes no
  content and revives no file, a number names one key, nobody is granted a
  vault without a share, the revoked user does not get the new key, and no
  live file is left under a key nobody holds.
- *Teams.* Names are resolved to rows in the middleware and again in the
  handler; a team may be deleted and its name taken by somebody else in
  between. Tokens are single-use and claimed from several devices. Correct
  when members were invited into that very team, admins were appointed by an
  admin, a spent token has made a member, and a token is spent once.
- *Accounts and onboarding.* A registration has two tables on the server and
  three files on the machine, written on both sides of an answer that may be
  lost; keys are overwritten, restored and re-registered. Correct when a
  taken name has a device, the config names the account the device belongs
  to, the dashboard opens with one key everywhere, and revoked devices come
  back only by registering their own key.

- *Terminal UI.* Results go to the view that is on top when they arrive, keys
  are read while navigation messages are on their way, a sequence delivers its
  messages one by one, the session expires at any moment. Correct when the menu
  stays at the bottom of the stack, the dashboard needs an unlock, nothing is
  deleted without the dialog that names it, an answered dialog removes itself
  and nothing else, and no screen is busy for ever on a request that has a
  timeout.
- *Self-update.* A chain of renames that may fail or be killed anywhere, two
  runs on the same names, a script that acts after the run has ended. Correct
  when no binary is ever torn, an error puts the old one back, a killed run
  leaves a whole copy, "updated" is true whatever is published meanwhile, and
  what the script names gets into place.
- *Rate limiter.* Two critical sections on one map, one of them driven by a
  clock of its own; visitors are forgotten. Correct when forgetting is
  invisible to requests, the map does not keep growing, and what a window of
  time admits is bounded.

## 2. Modules, and how they correspond to the code

### VersionLog, the abstract specification

What the server promises about files, with no SQL: a log per path, and a push
that appends to it exactly if its base version is the log's length. "conflict"
is only said while the base is not the length; a push told "failed" has
appended nothing and never will; a push whose answer is lost may have done
either. `Drop` (the team is deleted) empties the logs for good.

### FileStore, the statements that implement it

One action per SQL statement of `Store.PushFile`, the tail of `handlePush`
(the audit row, the answer) and `Store.GetFileVersion`; `DropVault` is the
cascade of `DeleteTeam`.

| code (`store/files.go`) | action |
|---|---|
| `db.BeginTxx` | `Begin` (on SQLite it waits for the connection) |
| `SELECT id, latest_version ... FOR UPDATE` | `SelectNothing`, `SelectCurrent`, `SelectStale` |
| `INSERT INTO files` | `InsertFile`, `InsertFileFails` (unique key, or the vault is gone) |
| `INSERT INTO file_versions` | `InsertVersion` |
| `UPDATE files SET latest_version, deleted` | `UpdateFile` |
| `tx.Commit()` | `Commit`: the uncommitted writes `insFile`, `insVer`, `setLatest` reach the tables at once |
| `defer tx.Rollback()` with `ErrConflict` or another error | `Rollback(t, "conflict")` (409), `Rollback(t, "failed")` (500) |
| cancelled request, broken connection, crash | `Abort` before the commit, `LoseReply` after it |
| `s.store.LogEvent` (error ignored), `writeJSON` | `LogPush`, `Reply` |
| the two queries of `GetFileVersion` | `PullFile`, `PullVersion` |

`Engine` selects how statements interleave. On `"postgres"` a lock table holds
the rows that `FOR UPDATE` locked and the unique keys that an uncommitted
insertion holds (a second insertion of the same key waits, then fails if the
first one committed). On `"sqlite"` `conn` is the transaction that owns the
connection, and statements outside a transaction wait for it too. The content
of a version is abstracted to the push that wrote it.

`ImplementsVersionLog` is `VersionLog!Spec` under the mapping
`log[p] <- LogOf(p)` (the committed versions of `p` in order), `alive <- vault`,
`accepted <- Committed` (pushes past their commit).

### VaultKeys, client commands over the handlers

A *job* is one run of `Push`, `Rm`, `Pull`, `Checkout`, `Grant` or `Revoke`
of `client/actions`. Each request is an action, in the order the command sends
them: `FetchKey` (`fetchVaultKey`: the share of the highest version),
`ReadBase` (`currentVersion`), `CheckGrant` and `StorePush` (`handlePush`),
`Obtain` (`handlePull`, then decryption), `StoreGrant`, and for a revocation
`FetchVersion` (whose error the code ignores: `FetchVersionFails` then makes
version 0 + 1), `ListFiles`, `ReEncrypt` per live file, `PostRevoke`, and the
transactions of `handleRevoke` one after another: `RevokeGrant`,
`AddKeyShares`, `RotateFile` per file, `Revoked`. `Stop` ends a job between
any two of them. `PushFile` is a single compare-and-swap here, which is what
FileStore and its refinement proof justify. Encryption is the contract of
AES-GCM: a ciphertext opens under the key it was made with, and under no other.
`from` is a history variable (the version the local file came from); it is
written on a push and read only by `BaseIsEditedFrom`.

### Teams, handlers statement by statement

A request goes through `Authenticate` (`authed`, `activeAuthed`), for admin
routes `Resolve` and `CheckAdmin` (`teamAdminAuthed`), then `Lookup`, the
handler's own resolution of the same name, and the statements of its handler:
`InsertTeam`, `AddOwner` (a second statement whose error is ignored),
`DeleteTeam` with `Cascade`, `InsertToken`, the claim's transaction
(`SelectToken`, `MarkUsed`, `CommitClaim`), `TargetAdmin`, `ListMembers`,
`SetRole`, `InsertVault`, `GrantCreator`. `Expire` lets 24 hours pass for a
token. A team, a token or a vault is named by the id of the request that made
it, so that a team that takes a deleted team's name is a different team, as
its row is. `Stop` loses a request anywhere.

### Onboarding, a machine becomes a device

`keystore`, `session` and `config` are the three files of a client; `pc`,
`mode`, `who` and `key` are the command running on the machine. `LookupUser`,
`CreateUser`, `LookupDevice`, `Reactivate` and `AddDevice` are the statements
and branches of `handleRegister`; `SaveConfig`, `Unlock`, `CreateTeam` and
`CreateVault` continue the command in the client (`register` stops after the
first, a recovery after the second, the wizard runs them all and goes to its
retry screen on any error). `InitDevice`, `ForceInit`, `RemoveKeystore`,
`RestoreKeystore`, `StartRecover`, `StartRegister`, `Retry`, `Lock` and `Quit`
are what the user does. `RevokeDevice` is `handleLinkDevice` and
`ClaimActivates` the statement of a claim that activates a pending device. A
key stands for a recovery seed together with the key pair and fingerprint
derived from it.

### Tui, screens and goroutines

`stack` is `rootModel.stack`; a view is a record (which screen, what it is
about, its mode, what it lists, the command a dialog holds). `tasks` is the bag
of running goroutines: a plain `tea.Cmd` is a sequence of one item,
`tea.Sequence` one of several, and an item is a command still to run or a
message still to deliver. `Run` executes a command (`FetchList`, `Act`,
`DoUnlock`, `DoWizardInit`, `DoWizardSetup`, `DoRecover`), whose answer is any
the server may give. `Deliver` is `rootModel.Update` for a message: `Push`,
`Pop`, `Replace`, or `ToTop`, which gives it to the screen on top; a screen
that does not handle the type (`Accepts`) drops it. There is one operator per
screen (`FilesScreen`, `ConfirmScreen`, ...), for its keys and its messages.
`Press`, `StartFilter`, `Esc` and `CtrlC` are the user, `Expire` is the end of
the session. A *sitting* bounds what a user opens, how many goroutines run when
a key is read, and whether keys may overtake navigation (`"ahead"`) or not
(`"paced"`, a person who waits for the screen to change).

### SelfUpdate, system call by system call

Each call of `writeAtomic` is an action: `Clear` (remove `dst.old`), `MoveAway`
or `CannotMoveAway` (rename `dst`), `CreateTmp`, `CopyTmp`, `DiscardTmp`,
`Install` (rename `dst.tmp`), `Restore`, `Drop`; after a failed rename
`CreateNew`, `CopyNew` and `ReplaceSelfUnix` or `ReplaceSelfWindows`. Any of
them may fail: a removal leaves its file (the code does not look), a failed
`Restore` is forgotten as in the code, and any other failure takes the call's
error path. `Start` reads the latest release or, under `--dev`, the latest
commit, which is what the run announces (`tag`). `Fetch` gets the files (`ver`):
the archive of that very release, or a clone of whatever `main` is by then.
`NextEntry` is the loop over the archive (or its single turn under `--dev`),
`BadEntry` an archive that breaks off. `Publish` is a new release or commit,
`Crash` kills a run between two calls.

The batch script has one fixed path, so `script` is the binary that the file
names now, if there is a file. A process that executes it (`mover`, one for each
`replaceSelf`) is about to do `Move`, `Check` (`if exist`) or `Delete` (`del
"%~f0"`), and does it to what the file says at that moment; `Stop` is a process
that finds no file or no line. When the file is rewritten a process goes on at
its place in the new text (`ReadsOn`) or ends, and `cmd` may not be started at
all, which the code does not notice. A file's content is a version and whether it
is whole. What two runs that have one file open (`mixed`) leave in it is either
a whole binary or a mixture, which counts as torn (`Written`). On Windows a file that
another run has open is neither renamed nor replaced (`Open`).

### TokenBucket and RateLimit

`TokenBucket` is the abstract specification: a bucket per address, which starts
full and is never dropped. `RateLimit` is the middleware: `Admit` and `Refuse`
are a request's critical section, `Refill` one turn of the goroutine's loop
(`Pass` for each visitor), `Elapse` a second, `Restart` the loss of the map.
`Watch` starts the window in which admitted requests are counted (history). Under
`tokens[a] <- Tokens(a)`, a full bucket when there is no visitor,
`ImplementsTokenBucket` is the refinement.

### MC modules

`MCFileStore`, `MCVaultKeys`, `MCTeams`, `MCOnboarding`, `MCTui` and
`MCSelfUpdate` extend the modules with workloads (which commands, requests,
sittings or situations are looked at) and symmetry sets; TLC picks a workload in
the initial state, so one run covers several. Every command of a workload may
run at any time relative to every other, at most once, so a workload fixes
*what* happens and never *when*. `RateLimit` is small enough to be its own.

Every module has a `TypeOK`, which its proof module proves.

## 3. Runs

Every property of a passing run has a mutant: a plausible bug in the code
(operators named `Bug...` next to what they replace) under which TLC finds
that property violated.

| run | what runs | bounds | properties |
|---|---|---|---|
| `fs_postgres` | FileStore, PostgreSQL | 3 pushes, 1 pull, 1 path, bases 0..2; about 935 000 states | `VersionsContiguous`, `DeletedFlagCurrent`, `AckedPushStored`, `PullNeverDangles`, `AuditedIsStored`, `ImplementsVersionLog`, `HistoryKept` |
| `fs_sqlite` | FileStore, SQLite, fairness | 2 pushes, 1 pull, 2 paths, bases 0..1; about 211 000 states | `StaleIsConflict`, `RequestsEnd` |
| `vk_rotations` | four workloads: one rotation with a push, a removal, a pull and a grant; two admins rotate with a push and a grant to the revoked user, and a version fetch may fail; a restore after a rotation; an admin hands the vault over while somebody he revokes and he himself still push | 3 to 5 commands each, 4 users, 2 paths; about 764 000 states | `LabelsAgree`, `RotationKeepsContent`, `GrantedHasShare`, `KeyWithheld`, `LostIsOvertaken`, `UndecryptableIsOvertaken` |
| `tm_requests` | two workloads: on PostgreSQL a team is created, staffed, given a vault, deleted and its name taken; on SQLite one token is claimed from three devices | 8 and 6 requests, 1 and 2 faults; about 234 000 states | `MembersInvited`, `AdminsAppointed`, `SpentTokenJoined`, `TokenUsedOnce` |
| `on_accounts` | one machine does everything, a second registers, recovers, claims and locks | 2 names, 2 keys, 1 fault; about 833 000 states | `UserHasDevice`, `ConfigIsTrue`, `DashboardUsable`, `RevokedOnlyRecovered`, `OneFirstDevice` |
| `tui` | ten sittings, seven of a paced user and three of one who types ahead, fairness | 1 name of each kind, stack of 4, 2 or 3 goroutines at a key press; about 282 000 states | `DashboardUnlocked`, `MenuIsHome`, `Confirmed`, `PopsItselfPaced`, `BusyEnds` |
| `update` | ten situations: Unix or Windows, with the server's binary or without, runs apart or overlapping, the running binary locked or not; fairness | 2 runs, 2 binaries, 3 releases, 2 failing calls on Unix and on Windows without a lock while runs are apart, 1 or none elsewhere, 1 killed run; about 497 000 states | `OneWriter`, `NeverTorn`, `PutBack`, `CopySurvives`, `UpdatedIsNew`, `SwapsAfterExit` |
| `rate_limit` | RateLimit | 2 addresses, 3 tokens, a window of 3 seconds, 1 restart; about 146 000 states | `TypeOK`, `IdleIsRefilled`, `MapForgets`, `AdmittedBounded`, `ImplementsTokenBucket` |
| `vk_lost_update`, `vk_lost_key`, `on_wizard`, `tui_confirm` | the disagreements of section 6 | as small as shows them | one each, violated |

What they show, and why the bounds are enough for it:

- **fs_postgres.** Three pushes are the least that put one transaction behind
  a lock while another one has committed under it, and a base of 2 lets a
  path reach version 3, so that first pushes, conflicts, successive versions
  and tombstones all race. Paths do not interact on PostgreSQL (locks are per
  row), so one is enough; the proofs cover any number.
- **fs_sqlite.** The connection couples all paths, so there are two. Without
  symmetry, because liveness is checked. `StaleIsConflict` holds here and only
  here: a request serialised by the connection meets its conflict in the
  SELECT. The deletion of the vault is the one failure left.
- **vk_rotations.** What holds whatever a rotation races with and wherever it
  stops: a label is consistent with its key, content is preserved, granted
  users hold a share, the revoked user does not receive the new key, a reader
  who cannot decrypt was overtaken or reads past a rotation. `LostIsOvertaken`
  separates the ways of losing a file: unless an admin revokes himself or two
  rotations make the same version number, only what is under a version that a
  rotation has overtaken can be lost; what is under the newest key stays
  readable. `vk_lost_key` shows what happens when two versions are the same, and
  the hand-over is the workload in which a late push loses a file although all
  versions differ. Two paths let one file move on while the other is rotated.
- **tm_requests.** Two generations of one name are the least in which a stale
  resolution finds another row. The fault falls on any one statement, the
  ignored error of `AddTeamMember` included. Two claims of the addressee and
  one of a stranger cover both ways of claiming a token wrongly.
- **on_accounts.** Two keys and two names are the least with a second device,
  a taken name, an overwritten key and a recovery of the first. The second
  machine has the commands that interact with the first. Requests of one
  machine are sequential, as in the client, so the interleavings that matter
  are between machines.
- **tui.** Every screen is opened in some sitting, together with the screens it
  can exchange results with. Two goroutines at a key press allow a late result
  of a screen that has been left besides the one that is asked for; three are
  tried where the screens are few. A stack of 4 is deeper than any path but
  vaults, files, picker, unlock. One vault, team or device is enough for all
  but the wrong name in a list: the lists' contents are arbitrary, and a result
  that belongs to another screen is another screen's type here.
- **update.** Two runs show both overlap and what a run finds after a killed or
  failed one; the third release falls between a run's two reads or between two
  runs. Two failing calls are the least that leave no binary at `dst`: one to
  fail the update, one to fail putting the old binary back. Runs overlap on
  Windows too, there without a failing call: two writers of one `dst.new` and
  scripts of several processes are what it is about. Each property names the
  cases it exempts, all of which happen (section 6): `OneWriter`, `NeverTorn` and
  `CopySurvives` are about Unix; `PutBack` exempts killed runs, a failure beside
  an overlapping run and the failed restore; `CopySurvives` ends when a run begins
  that finds a binary missing; `UpdatedIsNew` exempts what an overlapping run or a
  script has got hold of; `SwapsAfterExit` exempts a script that is overwritten
  for the other binary or deleted by a process past its last check, and a lock
  that is held by a run waiting for the network.
- **tui_confirm.** The trace is y, then esc before the pop of that y: esc removes
  the dialog at once and the pop removes the list below it. Leaving the program
  with an answer on its way is not counted (`AnswerPopsDialog` is about steps
  within one run of the UI).
- **rate_limit.** A bucket of 3 with refills of 2 overflows and runs dry; a
  visitor is forgotten after 3 seconds, and a refill may be a second late, the
  latest RateAssumption allows. The proofs cover the code's own numbers.

Bounds are constants (`MaxBase`, `MaxFaults`, the sets of jobs, requests,
commands, keys, sittings and situations), each marked where it is declared.
Deadlock is checked in every run: `AllAnswered`, `AllDone` and `Over` are the
stuttering of a workload that is over, enabled only when all of it has ended.

## 4. Fairness

- `FileStore!FairSpec`: weak fairness on the steps of every push the server
  has taken and of every pull. net/http runs each request in a goroutine, the
  database executes the statements it is sent, and both queues (row locks, the
  pool of one connection) are served. Nothing is assumed about `Arrive`,
  `Abort`, `LoseReply` or `DropVault`. `RequestsEnd` needs nothing more: a
  transaction that holds the lock or the connection always reaches its end.
- `Onboarding!FairSpec`: weak fairness on the steps of a command that has
  started, and strong fairness on `Retry` for every name. The second is the most
  a user can do (never give up, try every name again and again), and is stated
  so that `on_wizard` refutes more than impatience: it excludes faults
  (`MaxFaults = 0`) and leaving the program, and the wizard still never
  finishes.
- `Tui!Spec`: weak fairness on `TimedStep`, the next step of some goroutine other
  than one that is to register a device. The Go runtime schedules goroutines,
  Bubble Tea's loop takes every message sent to it, and a signed request gives up
  after 30 seconds (`api/client.go:38`). `PostUnsigned`, which sends
  `/register`, has no timeout (`client.go:112`): a set-up or a recovery may wait
  for ever, so it is given no fairness, and `BusyEnds` says that its screen, and
  no other, may stay busy with it. Keys, the expiry and everything else owe
  nothing. `BusyEnds` is stated for a paced user: with type-ahead a screen can be
  covered by a dialog that takes its result, and then it stays "loading" until it
  is left.
- `SelfUpdate!Spec`: weak fairness on the system calls of each run that has got
  its files, and on the lines of each process of the script. Nobody has to start
  a run or publish a release, and `Fetch` is unfair: `http.Get` and `git clone`
  have no timeout (`update.go:40,58,119,140`). A run that is killed (`Crash`) owes
  nothing any more.
- All other runs check safety, and state no fairness.

## 5. Proofs

`FileStore_proofs` and `FileStoreRefinement` prove, for every set of pushes,
pulls and paths, every `MaxBase` and both engines:

| theorem | says |
|---|---|
| `Invariance` | `Spec => []IInv` |
| `TypeCorrect` | `Spec => []TypeOK` |
| `HistoryContiguous` | versions of a path are 1..latest, each once |
| `DeletedFlagTrue` | `files.deleted` agrees with the latest version |
| `AckedIsDurable` | an acknowledged push is the version after its base, and stays |
| `PullFindsLatest` | a pull of the latest version never loses it between its queries |
| `AuditTrue` | the audit log names only stored pushes |
| `HistoryNeverRewritten` | no step rewrites or removes a version while the vault exists (`HistoryKept`) |
| `LosersGetConflict` | on SQLite, a push that loses a race is told 409 and never 500 (`StaleIsConflict`) |
| `Refinement` | `Spec => ImplementsVersionLog` |

`RateLimit_proofs` proves, for any set of addresses and all constants that satisfy
`RateAssumption`:

| theorem | says |
|---|---|
| `TypeCorrect` | `Spec => []TypeOK`: a bucket never overflows |
| `AlwaysRefilled` | a bucket owes an idle visitor at most the refill that is due (`IdleIsRefilled`) |
| `Forgotten` | the map holds recent visitors only (`MapForgets`) |
| `Bounded` | what a window admits (`AdmittedBounded`) |
| `Implements` | `Spec => ImplementsTokenBucket` |

`VaultKeys_proofs` proves, for every set of commands, users, paths and workloads:

| theorem | says |
|---|---|
| `Inductive`, `TypeCorrect` | `Spec => []IInv`, `Spec => []TypeOK` |
| `LabelsAlwaysAgree` | a key has one version, on every share and every file version (`LabelsAgree`) |
| `RotationNeverEdits` | what a rotation adds is the content before it, of a live file (`RotationKeepsContent`) |
| `GrantsHaveShares` | a granted user has a share (`GrantedHasShare`) |
| `RevokedKeyWithheld` | the key of a revocation reaches the revoked user by a later grant only (`KeyWithheld`) |
| `LossIsOvertaking` | which files can be lost (`LostIsOvertaken`) |
| `UndecryptableOnlyOvertaken` | why a reader fails to decrypt (`UndecryptableIsOvertaken`) |

`Teams_proofs`, for every set of requests, users, devices and names and both engines:

| theorem | says |
|---|---|
| `Inductive`, `TypeCorrect` | `Spec => []IInv`, `Spec => []TypeOK` |
| `OnlyInvitedMembers` | members created the team or were invited into it (`MembersInvited`) |
| `OnlyAppointedAdmins` | admins created the team or were promoted by an admin (`AdminsAppointed`) |
| `SpentTokensJoined` | a spent token has made a member (`SpentTokenJoined`) |
| `TokensUsedOnce` | on SQLite a token is accepted once (`TokenUsedOnce`) |

`Onboarding_proofs`, for every set of machines, names and keys and any number of faults:

| theorem | says |
|---|---|
| `Inductive`, `TypeCorrect` | `Spec => []IInv`, `Spec => []TypeOK` |
| `UsersHaveDevices` | a taken name has a device (`UserHasDevice`) |
| `ConfigsAreTrue` | the config names the user its device belongs to (`ConfigIsTrue`) |
| `DashboardsUsable` | keystore, agent and config are about one key (`DashboardUsable`) |
| `RevokedStayRevoked` | only its own registration brings a revoked device back (`RevokedOnlyRecovered`) |
| `FirstDevices` | two first registrations of a name do not both get an active device (`OneFirstDevice`) |

`SelfUpdate_proofs`, for every number of runs, releases, failing calls and killed
runs, on both platforms, overlap included:

| theorem | says |
|---|---|
| `Inductive`, `TypeCorrect` | `Spec => []IInv`, `Spec => []TypeOK` |
| `OneWriterEach` | on Unix one run at a time writes a `dst.tmp` (`OneWriter`) |
| `NeverStartsTorn` | on Unix the installed binary is whole at every moment (`NeverTorn`) |
| `ErrorsPutBack` | a failing call puts the old binary back; it takes a second one, that of putting it back, to leave it missing (`PutBack`) |
| `CopiesSurvive` | on Unix a killed or failed run that nobody overlaps leaves a whole copy, until a run begins that finds a binary missing (`CopySurvives`) |
| `SaysUpdatedWhenDone` | "updated to" names what is installed, or with `--dev` a commit that is not newer (`UpdatedIsNew`) |

`Tui_proofs`, for all listings the server may send, all sittings and every depth of
the stack:

| theorem | says |
|---|---|
| `Inductive`, `TypeCorrect` | `Spec => []IInv`, `Spec => []TypeOK` |
| `DashboardsUnlocked` | the menu appears only after an unlock (`DashboardUnlocked`) |
| `MenuStays` | the menu lies under everything from then on (`MenuIsHome`) |
| `AnswersPopDialogs` | an answer pops its own dialog, for a paced user (`PopsItselfPaced`) |

Every inductive invariant was checked by TLC, on the workloads of the runs above,
before it was proved.

The proofs assume what the modules declare of their constants, and TLC evaluates
these assumptions on every run. Beyond types and distinct ids they say:
`MaxBase` is a natural number and `NoTx` no push (FileStore); the vault starts
with a granted user (VaultKeys: its creator); the token a claim names is the id
of a request (Teams: a token that nobody made is not found, which any id of
another operation stands for); there are at least two releases and a binary in use is locked
on Windows only (SelfUpdate);
`RateAssumption` below.

**The argument for FileStore.** None of the properties is inductive. `VersionsContiguous`
is kept by `Commit` only if nobody moved `latest_version` since the SELECT of
this transaction, so the invariant must say who may be between SELECT and
COMMIT (`LockInv`: on PostgreSQL the owner of the row lock or of the new
unique key, on SQLite the owner of the connection, and in either case the
vault's row is still there) and what such a transaction has read and written
(`TxInv`: `latest = seen = base`, the row it inserts is still absent, the
version it inserted is `base + 1`). `StoreInv` ties the tables to the
transactions: while the vault lives, the versions are exactly the rows written
by committed pushes. `AckedPushStored` and `AuditedIsStored` follow from that,
with `audit \subseteq Committed`. `PullInv` keeps the version that a pull has
read in its first query within 1..latest, which gives `PullNeverDangles`.
Then

    IInv == TypeOK /\ LockInv /\ TxInv /\ StoreInv /\ DeletedFlagCurrent
            /\ audit \subseteq Committed /\ PullInv /\ PullNeverDangles

holds initially and is kept by every action, one lemma per action or group of
actions (`Rollback` is shared by all the early returns). For the refinement,
`Commit` is `Accept`, the commit of a deleted vault cannot happen, a rollback
with 409 is `Refuse` (the base is not the length of the log at that moment),
other endings are `Fail`, `LoseAnswer` or `Acknowledge`, `DropVault` is `Drop`,
and everything else stutters; `LogLength` and the lemmas about
`VersionAt` carry the CHOOSE in the mapping.

`StaleIsConflict` needs one thing more, and only on SQLite: between the SELECT
that found no row and the INSERT of a first push the path still has none
(`NothingInserted`), because the connection is the transaction's own
(`LockInv`). On PostgreSQL nothing locks an absent row, so the loser of two first
pushes fails.

**The argument for RateLimit.** `RateAssumption` says when forgetting is safe:
`refillRate * idleLimit >= maxTokens * maxDelay`, where `maxDelay` is the longest
time between two refills. With 20 tokens, 2 per refill and 600 seconds the loop
may be up to 60 seconds late, although it sleeps for one. The inductive
invariant is the conjunction of the four invariants of the run. `IdleIsRefilled`
is the part that carries the refinement: since a visitor's last request the
refills have brought `refillRate` for every `maxDelay` seconds but the last
`since`, so that one that is idle for more than `idleLimit` has a full bucket
when the loop meets it (`ForgottenIsFull`), and dropping it is what a refill does
to a bucket that is kept (`RefillTokens`). `AdmittedBounded` counts tokens:
`admitted + Tokens` never exceeds a full bucket, one more for every restart, and
`refillRate` for every refill, of which s seconds see at most s + 1 because the
loop sleeps at least a second. The products are nonlinear; lemmas `Monotone`,
`Distributes` and `Cancel` are all the steps use of them.

**The argument for VaultKeys.** `KeysInv` says that a new key is new and that
every share, every stored row and every fetched key is the first key or one that
some rotation made, with the version that rotation gave it; `LabelsAgree`
follows, and `KeyWithheld` from it, since the only share a revocation makes is
its caller's own, and whoever grants the key passes on one he fetched.
`RotationInv` carries `RotationKeepsContent`: what a rotation has listed was
there and live, and what it has re-encrypted is the content of the listed
version unless the file has moved on, in which case the push of the rotation is
a conflict. The hard one is `LostIsOvertaken`. While
versions are distinct and nobody revokes himself, rotations follow each other
(`Chain`): the versions in use are 1 to the newest without a gap, a rotation
being prepared has the next one, hence there is one such rotation at most, and
its user is granted and holds the newest key. So the newest key always has a
granted holder: a revocation by another user in between would have made the same
version. Nothing less is inductive, because a revoked admin's rotation goes on.

**The argument for Teams.** `Stage` says for every statement which requests may
execute it and what they have looked up. `TeamsInv` is about identity: what
refers to a team refers to one that was inserted; members and tokens refer to one
that is still there; a request that looked its team up twice found one team, or
the first is gone, because a deleted team never comes back under its id.
`ClaimInv` keeps the claim's transaction together: between its SELECT and its
COMMIT the token still belongs to the team it found, if that team lives, and on
SQLite the claim owns the one connection, so that no other claim of the token has
been accepted (`TokensUsedOnce`). `EntitledInv` keeps the middleware's finding up
to the statement that uses it, which is what `AdminsAppointed` is about.

**The argument for Onboarding.** A command running on a machine fixes `keystore`,
`who` and `key` (`Machine`): nothing touches the keystore under it. From the
server's answer on the device belongs to the user, then the config says so, then
the agent's key is the keystore's, in that order and each for as long as the
command goes on. That other machines do not disturb it rests on one fact about
the server: accounts stay, and a device never changes its account
(`AccountsStay`). The three action properties follow by looking at the one
statement that can perform the step.

**The argument for SelfUpdate.** Nothing locks the files. `FilesInv` is why runs
may overlap on Unix: while a run is between `MoveAway` and `Install` or
`Restore`, `dst` is missing, so another run's rename fails and it does not get to
`dst.tmp`; and what is about to be renamed to `dst` is whole, because on Unix a
run that writes `dst.tmp` shares it with nobody (`MixedInv`). Only a missing
`dst` keeps the second run out, so on Windows, where the script of an earlier run
may put `dst` back meanwhile, neither holds.

`PutBack` has two halves. Where runs do not overlap, `BackupInv` says that the
run at work has its `dst.old` and comes to `Restore` only after a call has failed,
so that a `dst` left missing means a second failure; `AloneInv` says that nobody
else works beside it. Where they do overlap and nothing has failed, backups may be
deleted by the other run, and `BringingInv` takes over: for every missing binary
some run is on its way to `Install` with a `dst.tmp` that it has written or is
about to write. `CopySurvives` needs the rest of `AloneInv`: unless a run began
while a binary was missing, what is missing is what the one run at work is
replacing, so no `Clear` deletes a last copy. `RunsInv` ties the version a run
installs to the one it announces, `ProgressInv` says what a run has done so far,
entry by entry, and `NewInv` who has written a `dst.new` and whether all of it.
Steps are classified by their effect on one run's files (`Steps`), and each part
is shown for each effect. Proving it showed that an earlier run's script may move
over a binary the half-written `dst.new` of a third, killed run, which two runs
do not show: `UpdatedIsNew` exempts any content another run has left.

**The argument for Tui.** A message is given to whichever screen is on top, so
the invariant cannot speak of the screen that asked. `HomeInv` is about the
messages: whatever leads to the menu (a replacement, or the good result of an
unlock, a set-up or a recovery) has its unlock behind it, wherever it is
delivered. `PacedInv` is about navigation: while the answer to a dialog is on its
way, the dialog is on top, this answer is the only navigation under way and there
is one copy of it. No key is read meanwhile, and a dialog lets every result fall.
What a screen may do is one lemma (`ScreenEffect`): it stays what it is, with the
command it holds, and starts at most one goroutine, whose destructive command is
the dialog's own.

**What is only model-checked.** Liveness (`RequestsEnd`, `WizardFinishes`,
`BusyEnds`, `SwapsAfterExit`) and anything about ENABLED, which TLAPS does not
reach. `Confirmed`, which counts the copies of a command in a bag: the
cardinality of a bag is a sum over a finite set, and facts about it need
induction over that set. Every other property of the passing runs has a theorem.
No module declares a RECURSIVE operator, and no claim is made by induction over
data.

## 6. Where the code disagrees with what is said of it

Each is a run in which TLC finds the behaviour.

| run | code | what happens |
|---|---|---|
| `vk_lost_update` | `client/actions/files.go:54` | "BaseVersion is the version the client edited from (optimistic lock)" (`protocol/dto.go:155`). `Push` and `Rm` ask for the newest version just before posting it as the base, so an edit of version 1 overwrites somebody's version 2 and no conflict is seen. |
| `vk_lost_key` | `http/handlers_vaults.go:142` | "Rotation: new sealed shares to survivors + re-encrypted files under new key version" (line 140). Two revocations run by one admin make the same version; the second share is dropped by `ON CONFLICT DO NOTHING`, its files are stored under a key no device holds. |
| `on_wizard` | `client/tui/wizard.go:95` | "Auto-create a starter team + vault so push/pull work instantly" (line 94). Team names are unique on the server; the second user's wizard is refused for ever. |
| `tui_confirm` | `client/tui/confirm.go:24` | "When confirmed it pops itself and runs cmd" (line 10). The dialog stays until its `popMsg` comes back through the event loop. An esc typed before that removes it at once, and the pop then removes the parent view; a second y does so by a pop of its own, and runs the command again. |

Met while modelling, visible in the modules, with no run of their own:

- On PostgreSQL the loser of two first pushes fails on the unique key and is
  answered 500, not 409 (`store/files.go:32`); `StaleIsConflict` is therefore
  a property of SQLite only.
- On PostgreSQL two devices of the addressee may both have a claim accepted:
  `ClaimInviteToken` reads the token without a lock (`store/invites.go:32`), so
  `TokenUsedOnce` is a property of SQLite only. The membership is the same.
- `handleCreateTeam` ignores the error of adding the creator
  (`handlers_teams.go:27`): the team then has no admin and its name is taken.
- Handlers resolve the team's name again although the middleware put the team
  in the context to spare them that (`http/auth.go:108`); `AdminsAppointed`
  says what remains true: an admin was promoted by an admin of that team, or
  of one of the same name that is gone.
- A claim's upsert sets the role to member, so an admin who claims a second
  invitation is demoted (`store/invites.go:70`).
- A file pushed for the first time while a rotation is under way is not in its
  list and stays under the old key.
- `handleLinkDevice` is said to let an active device revoke
  (`handlers_identity.go:164`); its route is only `authed`, so a pending or
  revoked device of the account may too. `RevokeDevice` follows the route.
- `Checkout` takes the key of the highest version only (`actions/common.go:54`),
  so a version from before a rotation does not open although the share of its
  key is still stored; "history is retained for recovery"
  (`commands/files.go:189`). `UndecryptableIsOvertaken` says that this, and being
  overtaken, are the only ways to fail.
- Registering a pending device a second time takes the branch for a recovery and
  activates it (`handlers_identity.go:74`), where line 16 says "otherwise
  pending".
- Outside Windows, where `devsync-server` is not installed beside `devsync`, an
  update replaces `devsync`, then fails to rename the missing server, takes that
  for a locked executable and ends in "cannot replace running binary; restart
  after manual swap with ...new", a file it has just removed (`update.go:251`,
  `update_notwindows.go:11`).
- After a killed run `devsync.old` is the only copy, and the next run's first
  act on that binary is to delete it (`update.go:222`); the server's binary is
  lost if that run fails as well.
- Every error path of `writeAtomic` puts the old binary back and ignores the error
  of that (`update.go:229,235,240,244`): `dst` then stays missing, no message says
  so, and the next run deletes `dst.old` before it has anything to put in place.
- `update --dev` announces the commit it has read (`update.go:40,111`, also as the
  built binary's version) and installs whatever `main` is when it clones
  (line 58).
- On Windows both fallbacks of a run write one `devsync-update.bat`; the script
  of an earlier run may move an older release over a newer one, or a `.new` that
  a killed run has left half-written. A process that is past its `if exist`
  deletes the script a later run has written, and that run's `.new` is not moved.
  The error of starting `cmd` is ignored (`update_windows.go:21`), so a run may
  say "updated" with nobody to move its `.new`.
- When two updates overlap on Windows, a script may put `dst` back while a run
  writes `dst.tmp`; another run then gets past its rename and opens the same
  `dst.tmp`.
- `/register` is posted without a timeout (`api/client.go:112`): a wizard or a
  recovery whose server does not answer stays busy until it is left.
- When two updates overlap, one may delete the other's backup, and a failure of
  the other then leaves no binary at `dst`.
- The results that carry a list name no vault or team (`tui/files.go:33`): a slow
  answer for the vault just left fills the screen of the next one.
- The wizard makes the key when the form is sent; after esc the message with the
  recovery phrase is dropped (`tui/wizard.go:122`), and it is shown nowhere else.
- The rate limiter's key is the address with its port, so a new connection has a
  full bucket (`ratelimit.go:41`, against "per IP" in line 18).
- A recovery that saved its keystore and failed to register cannot be repeated,
  because a key exists; a registration finishes it.
- Nothing keeps an admin from revoking himself (`commands/vaults.go:62`,
  `handleRevoke`). The new key is sealed to the caller's own devices
  (`actions/vaults.go:117`), so after such a rotation its files are under a key
  that no granted user holds. `LostIsOvertaken` exempts it.
- Versions may all be distinct and a file still be lost: ann revokes dan and then
  grants cho, who gets the new key only; cho revokes ann; a push that ann had
  begun under the old key is stored by a device whose request was let in before.
  Nobody who is granted holds that key. This is the overtaken version of
  `LostIsOvertaken`.

## 7. Not modelled

- **Cryptography**: library calls. Their contract is what VaultKeys and
  Onboarding use. The bytes of recovery phrases and key files are not state.
- **Signatures, time window, limit on the body**: a request in the models was
  signed by the device it names.
- **Link signatures** in `handleRegister`: no client sends one.
- **Sizes**: contents have none.
- **Torn or interleaved writes** of the client's files: each is written at
  once here. `agent.session.tmp` is shared by concurrent writers; a torn session
  does not parse and reads as locked.
- **Rendering of the terminal UI**: what screens draw, scrolling, the window's
  size, typed text and its checks, status lines and progress messages.
- **`checkUpdate`**, the daily hint that there is a release: it changes nothing
  but its own cache file. What an update does between its first answer from the
  network and its first file operation (download, or clone and build) is one step
  that may fail or never end.
- **Linearity of time in RateLimit**: whole seconds, and a request takes none.
- **Command line**: prompts, flags and wording around `client/actions`.
  `setup` is a chain of the modelled operations.
- **Migrations, configuration, server start**: goose, a third-party runner,
  runs once before the server listens. The constraints of the schema
  (uniqueness, references, cascades) are in the modules that meet them.
- **Listings**: queries that change nothing. Those that a command decides by
  (`ListFiles`, the members that `handleSetAdmin` looks through) are modelled.
- **Several devices per user in VaultKeys**: a user stands for one active
  device there. Teams and Onboarding have several.

## 8. Plan

What is left, in this order; each step keeps what is there.

1. **VaultKeys with devices**: several devices per user, one of them pending,
   and its activation between the fetch of a key and the grant; the invariant
   (`KeysInv`, `Chain`) restated per device.
2. **Abstract specifications**: what a vault promises its readers (VaultKeys) and
   what a claim promises an invitee (Teams), with refinement proofs, as
   VersionLog is for FileStore.
3. **Sizes and AgentSession**: the limits on plaintext, ciphertext and body as
   arithmetic; two writers of one temporary file, `Cached` removing a session
   that was just renewed.
4. **Confirmed without counting**: the same property stated goroutine by
   goroutine, which a proof reaches.
