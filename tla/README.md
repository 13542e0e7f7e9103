# zoom-notifier in TLA+

zoom-notifier receives Zoom webhooks, keeps track of who is in which meeting, and announces joins and
leaves in Slack channels and IRC rooms. It serves several Slack workspaces ("tenants") from one SQLite
database. This directory models it in TLA+, checks the models with TLC on small instances and proves their
main invariants with TLAPS. Paths below are relative to the root of the repository's source.

## 1. The system

```
 Zoom --webhook--> internal/zoom.Handler ----statements----> SQLite (internal/store/sqlite)
                      |  one goroutine per request              ^        ^          ^
                      | Dispatch(tenant, topic, ...)            |        |          |
                      v                                         |        |          |
              internal/notify.Dispatcher --settings (6 reads)---+   slash commands  REST API
                 |          |          \                            and modals      internal/api
          Slack sender   IRC relay   zoom.APIClient                 internal/slack  OAuth, setup page
                                     (token cache, in memory)

 browser --> internal/setup (first run) --writes--> config.toml --read at the next start--> cmd/zoom-notifier
```

A process is either the wizard or the service: `main` loads the configuration and serves the wizard when it is
incomplete. Webhooks reach the handler through a rate limiter of their sender's address.

Everything that happens concurrently is an HTTP request in a goroutine of its own. They share the database,
the dispatcher's map of Zoom clients and each client's token. Every store operation is one SQLite statement
in autocommit mode; the only explicit transaction is the one that encrypts legacy secrets at startup. So two
requests interleave between any two statements, and a handler that reads, decides and writes decides on
values that may have changed. The connection sets no busy timeout, so a statement can fail while another
connection writes; and store calls carry the context of the request, which ends when the client hangs up.

### Inventory

| Component | Source | State | Operations | What is hard | What makes it correct |
|---|---|---|---|---|---|
| Webhook handler and live meeting state | `internal/zoom/handler.go`, `types.go`, `crc.go`; `internal/store/sqlite/meetings.go`, `tenants.go` | tables `active_meetings`, `participants`; per request: event, tenants still to do | `ProcessWebhook` for started, ended, joined, left and URL validation; `UpsertMeeting`, `AddParticipant`, `SetParticipantLeft`, `DeleteParticipantsForMeeting`, `DeleteMeeting` | several statements per event and none in a transaction; events delivered twice or out of order; failed statements that are only logged; tenants deleted or relinked in the middle; restart in the middle | no orphan rows; each row caused by an event; the tables show who is in; what was answered was announced to every tenant |
| Notification dispatcher | `internal/notify/dispatcher.go` | map tenant -> Zoom client under a mutex; per call: what was read so far | `Dispatch`, `getOrCreateZoomClient`, `getMeetingLink` | six reads, no transaction; settings change in between; client cache is never invalidated; one failed send must not stop the others | what is sent agrees with settings that really were in force |
| Filters, subscriptions, IRC and Zoom settings | `internal/store/sqlite/filters.go`, `subscriptions.go`, `irc.go`, `zoom_creds.go` | one table each | create, list, update, delete, upsert; `CheckFilter` | `CheckFilter` is two statements; LIKE and its special characters | the first matching filter by id governs; a pattern selects the topics it occurs in |
| Zoom API client | `internal/zoom/api_client.go` | cached token and expiry under a mutex | `GetAccessToken`, `GetMeetingJoinLink` | the lock is held over a request; expiry counted by the client's clock; token used after the unlock | no request outlives its token; one refresh per token |
| Tenants and admins | `internal/store/sqlite/tenants.go`, `admins.go` | tables `tenants`, `tenant_admins` | create, update, delete, defaults, API key; add, remove, list, check | tenant rows are read, changed and written back whole | no lost update; a workspace keeps an admin |
| Slash commands and modals | `internal/slack/commands.go`, `modals.go`, `modal_handlers.go`, `interactions.go`, `http_commands.go` | none of its own | subscribe, unsubscribe, filters, suffix, link, settings, admins, api-key, status, whois | check-then-act on subscriptions and admins; the modal carries values read when it was opened | at most one subscription per channel and meeting; only admins change settings |
| REST API | `internal/api/server.go`, `middleware.go`, `probes.go` | none of its own | tenant, defaults, admins, subscriptions, filters, IRC, meetings, API key, credentials | the same tables without the checks of the commands | a tenant's key reaches that tenant only |
| Slack installation, tenant setup page | `internal/slack/oauth.go`, `tenant_setup.go` | OAuth state in a cookie; per page: tenant read at the start | install, callback, setup form | two installs at once; reinstall overwrites; two statements of which the second may fail | the installer is an admin of an installed tenant |
| Encryption at rest | `internal/secrets/secrets.go`, `internal/store/sqlite/sqlite.go` | ciphertext columns | seal, open, encrypt legacy rows | key added later; wrong key; stop in the middle | what is read was supplied, or an error; nothing plain once there is a key; nothing lost |
| IRC relay | `internal/irc/relay.go` | per call: connection, goroutine, timer, a channel of one | `Send`, its callbacks | the library reconnects by itself, and may be dialing when it is told to quit; JOIN comes again for everybody; join timeout against a late join | a message is heard at most once; a call that has returned says nothing more |
| Slack sender | `internal/slack/sender.go` | none | `Send` | nothing | |
| Server start and shutdown | `cmd/zoom-notifier/main.go` | process | choose, validate, open, migrate, encrypt, serve, close | what runs is cut when the process ends | a webhook is answered, or its process ends |
| First-run setup wizard | `internal/setup/*` | one form in memory, a config file | pages, store the secret, save | the form is shared by all requests without a lock; it is checked and read again; the file is truncated and written | no service runs on half a file; a Save ends the setup; the key stays |
| Configuration | `internal/config/config.go` | the file, the environment | `Load`, `Validate`, `NeedsSetup` | a file that is read while, or after, it was half written | as the wizard |
| HTTP middleware | `internal/middleware/*` | the library's token bucket | limit, recover, log | a webhook that is refused | the two limits (10 a second, 50 at once) |
| Probes, metrics, pages, generated API code | `internal/api/probes.go`, `generated.go`, `internal/metrics/`, `cmd/zoom-notifier/pages.go` | none | input and output | nothing | |

The hazards that follow from this are listed line by line in `PROJECT.json`, with the properties that would
notice each, or the reason why none does.

## 2. Modules

| Module | Models | Checked by | Proved in |
|---|---|---|---|
| `MeetingState` | webhook goroutines over `tenants`, `active_meetings`, `participants` | `MCMeetingState` | `MeetingStateProofs` |
| `Attendance` | abstract specification: a board of who is in, without tenants, goroutines and rows | as a property of `MeetingState` | |
| `MeetingQueries` | the requests that show who is in, over `MeetingState` | `MCMeetingQueries` | `MeetingStateProofs` |
| `Dispatch` | one tenant's dispatches against all requests that change what they read | `MCDispatch` | `DispatchProofs` |
| `FilterMatch` | `escapeLike` and the LIKE clause of `CheckFilter` | `MCFilterMatch` | `FilterMatchProofs` |
| `ZoomClient` | the token cache, its mutex, time and timeouts | `MCZoomClient` | `ZoomClientProofs` |
| `SettingsData` | the rows of a tenant's settings and the requests that change them | with `TenantSettings` | |
| `Settings` | abstract specification: each request is one atomic step | as a property of `TenantSettings` | |
| `TenantSettings` | commands, modals, REST calls, OAuth callback and setup page, statement by statement | `MCTenantSettings` | `TenantSettingsProofs` |
| `Vault` | abstract specification: secrets as if nothing were ever encrypted | as a property of `Secrets` | |
| `Secrets` | cipher, startup migration, restarts with and without a key, requests that carry secrets | `MCSecrets` | `SecretsProofs` |
| `SetupWizard` | configuration file, wizard, and the start that chooses between wizard and service | `MCSetupWizard` | `SetupWizardProofs` |
| `IrcRelay` | one IRC connection per message, its goroutine and callbacks | with `Server` | |
| `Server` | webhook handlers that send to IRC, what the limiter and a shutdown do to them; composed with `IrcRelay` | `MCServer` | `ServerProofs` |

How they meet: the last step of a join or leave in `MeetingState` (`Dispatch(h)`, counted in `calls`) is the
`Call(d)` of `Dispatch`; `FetchLink` of `Dispatch` is a `Call` ... `LinkDone` of `ZoomClient`; and `Contains`,
the relation between patterns and topics that `Dispatch` takes as a constant, is what `FilterMatch` looks into.
`TenantSettings` and `Dispatch` share the settings tables: what is the last statement of a request in the former
is a change that a dispatch may see in the latter. `Secrets` looks at the same requests for what becomes of the
secret columns, which the other modules take as readable. `Server` runs `IrcRelay` below the handlers: its
`NextSend(d)` is the `Send` of an IRC subscription in `Dispatch`, of which it keeps only that it waits for the
connection. `SetupWizard` decides which key the processes of `Secrets` are started with.

### MeetingState

*State.* The tables are `tenants` and `linked` (those whose `zoom_account_id` is the account that sends),
`owner[m]` (the `tenant_id` of the row of meeting `m`), `participants` (rows with id, meeting, name and leave
time) and `lastId` (the AUTOINCREMENT sequence). `handler[h]` is a goroutine: the event it works on, the
tenants its loop has left, the one it is at, and the next statement. `log`, `running` and `inRoom` are Zoom:
the truth that the tables are compared with. A leave time is the position of the leave in `log`.

*Actions.* `Deliver` is the request up to the loop over the tenants (`GetTenantByZoomAccount`, with its early
returns); `NextTenant` and `Return` are the loop; `UpsertMeeting`, `AddParticipant`, `SetParticipantLeft`,
`DeleteParticipantsForMeeting` and `DeleteMeeting` are one statement each; `Dispatch` is the call of the
dispatcher. Each statement takes effect or fails, and the handler goes on either way, as in the code.
Foreign keys refuse an insert without its parent, and a deletion cascades. `Crash` is a stop and restart:
goroutines vanish, tables stay. `CreateTenant`, `DeleteTenant`, `UpdateTenant` are requests from elsewhere.

*Abstractions.* One Zoom account. The join time, topic and other texts are left out, as no statement decides
on them. The loop takes its tenants in any order, as the query has no ORDER BY.

*Properties.* `NoOrphans`, `RowsHaveCause`, `OwnerStable`, `LeaveWrittenOnce` and `AnsweredMeansTold` hold whatever the
order of events. `AnsweredMeansTold` says that a join or leave that Zoom got its answer for was announced to every
tenant, by one of its deliveries or by several: a restart ends the handlers of some, and the answer is given by the
last. It needs that no statement fails (a failed lookup is answered too, and nobody is told) and that the tenants stay.
That nobody is told twice is not so, and no property says it: an event that is delivered again is announced again.
`ShowsWhoIsIn` (the tables are the truth once a meeting is settled) holds when Zoom keeps the order of a meeting's
events, repeats those it got no answer for, and no two people share a name. `EveryTenantIsTold` is liveness.

*Specification.* `Attendance` is a board: what happened (`news`), what of it came in and was answered, the meetings
that are on and the names in them. Each step of the board is one towards an event that came in last of its meeting and
is not answered yet (`Work`), and an event is answered only when the board shows it (`Answer`). `KeepsAttendance` says
that the tables implement it, with an active meeting for each row of `active_meetings` and the names of the open rows
of `participants`. It says more than `ShowsWhoIsIn`: also while handlers run, nobody appears or disappears but for the
event at hand. The second tenant of the account, a repeated delivery or one after a restart runs the
same statements once more, and what it repeats is a stutter on the board.

### MeetingQueries

`status`, `whois` and the API's list of participants are each a statement that finds meetings and one that finds
the people in them. `query[q]` is such a goroutine between the two, `Answer` its end. Which meetings `whois`
selects is left open. `MeetingQueries` extends `MeetingState`: its steps are those of `MeetingState`, or leave all
of its variables alone. `AnswersAreCurrent`: for every meeting an answer speaks of and every name, if all webhooks
that decide whether the name is in were answered before the request came, the answer is what they say. It
constrains no more than that: of a meeting that ends, or ends and begins again, while the request runs it says nothing,
as a webhook came that the request could not know of.

### Dispatch

*State.* The tenant's settings as tables, the cached Zoom `client`, and per goroutine the position in
`Dispatch` and everything read so far. `moments[d]` records every state of the settings that dispatch `d`
lived through, `sends[d]` the `Send` calls it made: the properties compare the two.

*Actions.* One for each statement of `Dispatch` (`CountFilters` and `MatchFilter` are the two of
`CheckFilter`), with each early return; `FetchLink` for the client cache and the link; `Send` for one turn of
the loop over the subscriptions, an IRC one reading the IRC configuration anew; and one action for each store
operation that changes a setting, `DeleteTenant` with its cascade. `subs` are the enabled rows of `subscriptions`, with
their targets: `UpdateSubscription` may send one elsewhere, disable it, or enable one that was not.

*Properties.* `Owed` says what given settings ask for, from the commands' documentation and not from the way
`Dispatch` computes it. `OneChangeIsAtomic`: although six reads are not a transaction, a dispatch that saw at
most one change sends each subscription what the settings before or after it ask for. With two changes that
is not so, and nobody promises it. It has one exception: when the last filter is deleted between count and match, a
topic is dropped that no filter ever excluded. It does not look at the client that `FetchLink` uses, which may be made
from credentials that were replaced: whether there is a link depends on Zoom either way. `PassedWhileAllowed` holds for any
number of changes; it is about what passes, and says nothing of what is dropped.

### FilterMatch

Texts are sequences over two cases of a letter, another letter and the three characters LIKE gives a meaning to. `Like`
gives, for each position of the pattern, the positions of the text from which on the rest matches; it follows SQLite's
definition with ESCAPE. The result is compared with a substring search that ignores case (`OccursIn`), as README and
comment promise.

### ZoomClient

`now` is a clock. A request ends at its timeout: `Tick` waits for it. Zoom issues the token at any moment
between the request and the answer, and counts its lifetime from there; the client counts it from the answer.
The lock is held over the request for a token, and released before the token is used.

### SettingsData, Settings, TenantSettings

*State.* The rows of one tenant in `tenants`, `tenant_admins`, `meeting_filters`, `subscriptions` and
`zoom_credentials`, and the two AUTOINCREMENT sequences. `worker[w]` is a goroutine: its request, the kind
of statement it is at ("read", "write", or "then" for the second write of a request that has two) and the
row it holds in memory. `issued` and `retired` record API keys, `clash` whether two requests that disturb
each other have been under way together.

*Actions.* `Begin` is the request up to its first statement on the settings: `IsAdmin` for a command,
`GetTenant` by key for the REST API and the setup page, nothing for the OAuth callback and the creation of
a tenant. A modal has the shape of the command it stands for, names its filter by id, and is authorised when
it is opened; its submission does not ask again. `GetTenant`, `FindFilter`, `CheckDuplicate` and
`FindSubscription` read, with the early returns of a row that is not there or already there; the other actions
are the writing statements, among them `UpdateTenantDefaults`, `UpdateTenant` and `UpdateFilter`, which write
every column of their statement back, changed or not. A first installation goes on from `CreateTenant`, a later one from
`UpdateTenant`, to `AddAdmin`; the setup page from `UpdateTenant` to `UpsertZoomCredentials`. Any statement may
fail, which ends the request where it is. Inserts without their tenant are refused by the foreign key, an
UPDATE or DELETE of a row that is gone does nothing, `DeleteTenant` cascades.

*Abstractions.* One tenant: every statement names its tenant or the id of a row that was looked up in it. The IRC
settings are one upsert and an action of `Dispatch`. A subscription's meeting and the case of a pattern are left
out. Requests that only read are left out.

*Specification.* `Settings` has one action per effect, made by someone who may make it at that moment; the
setup page and the callback have two effects each. `Changes(r)` and `RestsOn(r)` say which cells of the tables
a request writes, and which it has read when it writes, its own authority included; one request `Disturbs`
another if the first meets the second. Requests that do not disturb each other overlap at will.

*Properties.* `AtomicUnlessClash`: until two requests that disturb each other overlap, every statement is a step of
`Settings` or changes nothing. What can be lost is therefore what `Disturbs` admits: a change of the suffix by a
concurrent change of the link alone, one of two changes of the same filter, a subscription found absent twice, an
installation that another one was quicker than, a modal's change of a filter that has gone or by somebody who is no
admin any more. Once two such requests overlap, the property says nothing of what follows until both are over. A rotated
key is not among it: `RetiredStaysRetired` holds whatever overlaps, as no UPDATE but the rotation names the key's
column. `AnAdminRemains` says when a workspace may lose its last admin: by the API key, with the tenant, or when two
requests crossed, such as two admins who remove each other.

### Vault, Secrets

*State.* `cells` is the database: the columns `bot_token` and `api_key` of a tenant, the `client_secret` of its Zoom
credentials and the `password` of its IRC server, each NULL, empty, a plain text, or a text sealed with a key.
`phase` and `cipher` are the process and its key, `txn` and `next` the migration's transaction and the column it
has come to. `work[w]` is a request's goroutine, with the bot token it holds to write back. `supplied` and
`keysUsed` are history.

*Actions.* `Start(c)` opens the store with a key or none; with one, `EncryptColumn` seals the plain values of a column,
`Commit` ends the transaction and the service begins. `Stop` is a signal, a crash, `--migrate-only` or a failed
migration: the transaction is rolled back and requests are cut off. The requests are those that store secrets or
decide on them: `Authenticate` opens the tenant's row to compare the key, `LookUp` is the `GetTenant` of the OAuth
callback and of the API's deletion, `List` opens every tenant's row for the setup page; `Insert`, `Write`, `Delete`
and `SetAccount` are the writing statements, each sealing with the process's key; `Fail` is a statement that fails.

*Abstractions.* A sealed value is the pair of key and text: AES-GCM opens what was sealed with the same key and
refuses everything else. A text never begins with `enc:v1:`. (If one did, it would be stored as it is without a key,
and be unreadable with one or without.) Whether the bearer token is the right one is left open. One IRC server per
tenant. Requests that stop on missing form fields are left out.

*Specification.* In `Vault` nothing is sealed and there are no restarts: a request supplies texts, puts back the token
it had read, or forgets the tenant. `PutBack` is there because the setup page writes the whole tenant row: it may
bring back the token of before a concurrent re-installation, as `TenantSettings` says too.

*Properties.* `NeverGarbage` and `WrongKeyDoesNoHarm` are about a process with the wrong key, `OneKeyOpensAll` about
one that was started without key at times, `SealedWhileServing` about all four columns, whatever was written
when. `WrongKeyDoesNoHarm` rests on every writing request having opened the row first; it is about the secret
columns, and the other columns of such a tenant can still change. `KeepsSecrets` is the
refinement. `ReinstallRecovers` is a statement of the documentation that does not hold, for the same reason that
`WrongKeyDoesNoHarm` does.

### SetupWizard

*State.* `file` is `config.toml`: its lines, whether they parse, and who wrote it. `wizard` is the number of the
running wizard, or 0; an encryption key is the number of the wizard that generated it. `form` is `h.data`, `req[r]` a
request to the wizard, with the fields it has still to store, or the text it is about to write. `service` is the
configuration of the running service, `sealed` the keys in use in the database. `drafts`, `saved` and `spoiled` are
history.

*Actions.* `LaunchWizard(env)` and `Serve(env)` are the two branches of `main`; `StopWizard` and `StopService` end
a process at any point. `PostPage` and `SaveZoomSecret` are requests that store their fields one by one (`Store`);
`PostSave`, `CheckRequired`, `Render`, `Truncate`, `Write` are `handleSave` and `WriteConfig`. The form has no
lock: `Collide` are two stores that cross, `Crossed` a read that crosses a store, and either may yield a text
nobody sent (`Mixed`) or, for a read, a panic. `WriteShort` is a full disk or a stop: `os.WriteFile` has
truncated the file, and the first lines of the text are in it. Two writes at once overlay each other; the result may
not parse.

*Abstractions.* The three Slack settings are one, and so are Zoom's client id and secret; "path" stands for all that
the advanced page asks and nothing decides on. A browser posts one page after the other, in one tab; Save may be
clicked twice, and the script of the Zoom page sends the secret at any time.

*Properties.* `ServesAsDrafted` rests on the order of the lines in the template and on what the environment cannot
replace: Zoom's account has no variable and comes after path and key, so that a prefix that would be taken for
complete has both. `SavedIsReady` is what README promises: after a Save that was answered and met no other, the next
start serves. `OneWizardKeepsTheKey` says when secrets could be sealed with a key that is in no file: when a
second wizard ran, or a write was cut short or crossed.

### IrcRelay, Server

*State.* `call[s]`, `conn[s]`, `joined[s]`, `watcher[s]` and `quit[s]` are one `Send`: where the call is, its
connection, the channel the JOIN callback fills, the goroutine that waits for it, and whether Quit was called.
`heard[s]` counts the messages the server took. In `Server`, `handler[d]` and `turn[d]` are the handler of webhook `d`
and the number of its sends, `process` the service.

*Actions.* `Connect` and `StartWatcher` are `Send`, which then sits in the library's Loop: `LoopAsks` is its look at
whether Quit was called, `LoopWakes` the end of a connection, `Reconnect` the end of a dial. `ReceiveJoined` or `GiveUp`
are the `select` of the goroutine, `Privmsg` and `QuitAfterMessage` what follows; `Welcome` and `Join` the callbacks.
`Drop` and `CloseAfterQuit` are the network and the server. `Accept` and `Refuse` are the limiter, `NextSend` and
`Answer` the handler, `Signal` and `Exit` the end of `main`: `ListenAndServe` returns as soon as `Shutdown` is called, and
`main` ends whatever still runs.

*Abstractions.* A message that is written while the connection breaks may be lost (`Privmsg`). go-ircevent and tollbooth
are external. Loop is taken to ask for Quit before it waits and when a connection ends, but not while it dials, so
that a dial under way when Quit is called may end in a connection that nobody closes; a library that asks once more has
fewer behaviours. The limiter lets any webhook pass or refuses it: the bucket's arithmetic is the library's.
Each call has a connection of its own, and what a server does with two of one nick is left out.

*Properties.* `HeardOnce`: the relay joins again after each reconnection, and sees others join, and still speaks once.
`ReturnedMeansSilent`: goroutine and timer end before the call does, so that nothing is said after it; a connection may
be left behind, but only one that was made again after a loss. `HandlersEnd` is liveness: a channel that is never joined
delays a webhook's answer and does not keep it, nor does a connection that is lost, or made again, at the wrong moment.

## 3. Runs

| Run | Question | Result |
|---|---|---|
| `meetings_any_order` | Can any order of webhooks, a failed statement and two tenant requests leave a row without parent or cause, or hand a meeting to another tenant? Is every tenant told all the same? | No; yes |
| `meetings_in_order` | With order and repetition as Zoom documents them, do the tables show who is in, through a restart and with two meetings at once? On the way there, do they ever step back (the refinement of `Attendance`)? Is anything answered that was not announced to all, or a leave time rewritten? | They do; no; no |
| `meetings_shown` | Do `status`, `whois` and the API, in two statements, show what was answered to Zoom before? | They do; only what came later may be seen or missed |
| `dispatch_one_change` | One setting of any kind changes while a dispatch runs, before or after another dispatch filled the client cache, and a statement fails: is what it sends, and its filter verdict, what some settings that were in force ask for? | Yes |
| `filter_plain` | Does a pattern without special characters select the topics it occurs in? | Yes, also when the topic has such characters |
| `filter_literal` | "so the pattern is treated as a literal substring" (`escapeLike`) | Violated: the topic is escaped, not the pattern |
| `tenant_settings` | Three requests of any kind, two at a time, one statement failing: does each take effect as one step unless it is disturbed? Can a replaced key come back, or the last admin vanish? | It does; no; only if two requests crossed |
| `secrets_at_rest` | Three starts with either of two keys or none, stopped anywhere, and two requests at once: is anything read that nobody supplied, left in the clear, unreadable with the only key there ever was, harmed by a wrong key, or lost? | No |
| `secrets_lost_key` | "Recovery means every workspace reinstalls the Slack app" (README, on a lost key) | Violated: the callback opens the old row first and fails on it |
| `zoom_tokens` | Does a request outlive its token? Is a fresh token replaced? | No; no |
| `setup_wizard` | Two wizards, requests that race for form and file, writes cut short: can a service run on half a file, setup go on after a Save, or one wizard lose the key in use? | No |
| `server` | Two webhooks with IRC messages, servers that refuse, drop or never let join, dials that end after Quit, a signal: is a message heard twice, or anything said after the call has returned, and is every webhook answered? | No; it is, or its process ends (a connection can be left behind, without a word) |

*Bounds and why they are enough.*

- Meetings: two goroutines are what it takes for any pair of statements to cross. In any order, two events are any pair
  of a join, a leave and an end, and two tenant requests a tenant that comes, goes or changes its account in the middle;
  a failed statement can hit any of it, and that these properties hold for any number of events, restarts and requests
  is proved. Four events in order hold a full start-join-leave-join or start-join-leave-end, or two meetings with two
  each; two deliveries are one repetition; one restart can hit any point. Two tenants are what it takes to contend for a
  meeting. (Two tenants, two events in any order, each delivered twice, and a restart were run for `AnsweredMeansTold`
  as well, with the same result.) Goroutines are interchangeable, and so are meetings where all start alike (`SYMMETRY`;
  not in the run with liveness).
- Queries: one request reads while two tenants share one meeting, with four events of two people, each delivered up
  to twice. An answer concerns each meeting and name by itself; two meetings (one tenant, four events, no repetition), and a
  restart in the middle (three events), were run as well, with the same result, and left out for time.
- Dispatch: two filters make an order, and a third can be created in the middle; two suffixes, tokens, servers and
  credentials are an old and a new value; two meetings are one that the subscriptions and filters name and one they do
  not; one subscription is for each kind of channel, and one of them has a second target to move to. One change while
  the goroutine dispatches once or several times, from every initial setting of a list that has each kind in it.
  `PassedWhileAllowed` is proved for any number of changes.
- Settings: two goroutines make any overlap of two requests; the third request comes before, after or in the
  place of the first one that ends. The requests are each operation once or twice with values that differ from what is
  there, on a tenant with one row in each table and on none at all; two commands that change the same thing
  are there from two admins. The theorems hold for any number of goroutines and requests.
- Filters: patterns up to two characters and topics up to three, any of six characters: each special
  character meets each other one, at both ends and in the middle.
- Secrets: two tenants, as the setup page opens the rows of both; two keys are the right and the wrong one, three
  starts an old key, another or none in between, and the old one again; two requests overlap, or follow each other
  across a restart. The first database is one of before encryption, made by Slack or by hand. Keys and goroutines
  are interchangeable (`SYMMETRY`).
- Setup: two requests are what it takes to race for a field or the file, five posts a way through the pages with
  one page or one Save too many; two wizards and three starts a key that is replaced. The environment is empty, or
  has a variable for all there is one for but the key; the first file is absent, or has a key and lacks Slack.
- Server: a delivery of two messages, the second incomplete, and one of one message: a handler that goes on after a
  call, and one beside it. Two connections are lost per call: the second loss can be of a connection that was made
  again, before or after the message, before or after Quit, or after the call.
- Token: one unit of time is ten seconds, so that the constants are those of the source (30, 10 and 60 s);
  lifetimes of 90 and 120 s instead of an hour bring the expiry within reach, and the clock runs for two
  of them. Three goroutines: one fetches, one waits, one uses.

`CHECK_DEADLOCK FALSE` stands in all configurations: the bounds on events, changes and time end every
behaviour, and the service may rest.

*Fairness.* Two runs assume any. In `meetings_any_order`, `WF_vars(HandlerStep(h))`: a goroutine that has a request
runs to its end. The Go scheduler is preemptive, no handler waits for another one, and each statement and
each `Send` returns (a statement fails rather than waits; the HTTP clients and the IRC join have timeouts).
Nothing obliges Zoom to deliver, an administrator to act or a statement to succeed, and no restart occurs in
that run: a goroutine that is lost in one is not resumed. Restarts are part of `meetings_in_order`.
In `server`, handlers and the goroutines of `Send` go on while they can, which includes the timer of ten seconds; a
dial ends, first or repeated; a server closes the connection after QUIT; and `main` returns after a signal. Nothing
obliges a server to welcome the relay or to let it join: `HandlersEnd` holds by the timer, and by Loop, which finds
Quit called when its connection or its dial has ended.

## 4. Proofs

All theorems hold for every value of the constants that the named assumptions allow, but for the four about
who is in a meeting, which say what else they assume; none bounds the number
of goroutines, tenants, meetings, filters or callers. What TLC checks on small instances and TLAPS proves in
general is the same definition.

- `MeetingStateProofs`. `TypeCorrect` carries `HandlersOK` along with the types: a goroutine's event is in
  the log, it was delivered at least as often as its try says, the tenant it works for is not among those it
  has left to do, and it is at a statement that belongs to its event. Without that a statement could write a row for an
  event that was never sent. `ReferentialIntegrity` follows from the foreign keys alone, and needs the cascade
  of both deletions. `LeaveIsFinal` needs `IdsFresh` (ids are at most `lastId` and identify the row). `RowsAreCaused`
  and `OwnerIsFinal` follow step by step. `NobodyIsForgotten` assumes nothing of the order of events. It needs
  `AnnouncedOK`: a goroutine is at a statement of its event, and of the tenants it is not at and has not left to do it
  has told each (`Telling`); so whoever answers has told all, and calls are never unmade (`ToldStays`).
- `MeetingStateProofs`, who is in. `TablesAreFaithful` assumes `Undisturbed`: Zoom keeps a meeting's events in order
  (`InOrder`), no statement fails, and the tenants neither change nor are none. Each part is needed: handlers of two
  events are not ordered, a failed statement is logged and not repeated, and the deletion of a tenant takes
  its meetings away. Restarts, repeated and concurrent deliveries, other meetings and the number of tenants stay
  arbitrary. The invariant `Faithful` says that of a meeting only the last event sent can be unanswered, and only on
  that one do goroutines work (`EventsInOrder`); that a goroutine that has served one tenant has its event in the
  tables, where the other tenants, another delivery and a restart leave it (`Progress`, `Reflects`); and that the tables
  show the last of what was answered about each name and each meeting (`NamesShown`, `ActiveShown`). `WhoIsInIsShown`
  adds what the log says of Zoom itself (`LogTellsAll`), for which no meeting may have begun before the log
  (`NoneBefore`) and no two people may share a name (`NamesDiffer`; the table knows names only, so that whoever
  leaves first takes the other along). `AnswersShowWhoIsIn` needs neither; it adds that a request knows only of
  what was answered, and that a meeting it did not find had nobody in it by what it knows (`QueriesOK`).
  TLC checked these invariants on the instances of `meetings_in_order` and `meetings_shown`.
- `MeetingStateProofs`, refinement. `ImplementsAttendance` is the refinement under `Undisturbed` alone. The four
  effects a statement can have (`Opens`, `Enters`, `Quits`, `Ends`) say it without tenant and rows, and each is
  a step towards its event (`EffectIsToward`). If the event was answered before, the tables reflect it already,
  because it is still the last of its meeting (`AnsweredIsReflected`, from `Faithful`), and the statement changes
  nothing that is shown (`ShownRests`); otherwise it is a `Work` of the board. `Return` is an `Answer`, as the
  goroutine has served every tenant, of which there is at least one; the first delivery is a `Report`, the others
  are stutters.
- `DispatchProofs`. `TypeCorrect` is inductive with `ReadFirst`: at "send" the tenant was read, at "link" the
  credentials were. `NeverPassedExcluded` needs two more facts: `moments` holds the present settings while a
  dispatch runs (`LivesNow`), and a verdict "allowed" has its witness in `moments` (`Witnessed`). A dispatch
  that passes does so on one read, which sees the present settings.
  `OneChangeSeemsAtomic` needs that what a dispatch has read so far agrees with settings it has lived through:
  the present ones, or, if there was one change since it began, those before it, which differ from the present ones in
  one table only or by the deletion of the tenant (`Consistent`). So one more read agrees with one of the two, and
  what was sent to each subscription is what one of them asks for (`Served`). There is one lemma for each
  statement.
- `FilterMatchProofs`. `PlainPatternSelectsItsTopics` is about what recursive functions compute, and rests on
  induction over a set of naturals (`SetInduction`, from the well-foundedness of `<`): each function has the table
  its definition asks for (`LikeIs`, `FlattenIs`); column by column, a plain pattern between two percent signs matches
  where it stands (`LikeOpenBothEnds`); and character by character, escaping a topic neither adds nor hides
  an occurrence of a pattern that has no special characters (`EscapeKeepsPlain`).
- `ZoomClientProofs`. `TokenLasts` needs that a request on its way was sent at most its timeout ago and that
  the client's expiry is late by at most the token request (`TimesOK`); the assumption that the buffer covers
  both timeouts is the one the source's constants meet (60 >= 30 + 10). `SingleFlight` needs that whoever
  asks for a token does so while the cached one is stale (`StaleWhileAsking`), which the mutex keeps true.
- `TenantSettingsProofs`. `TypeCorrect` is inductive with `RowFits`: the row a goroutine holds is of the table
  it will write to, has the id or pattern the request names, and its id was given out. Without that a row of one
  table could be written to another, or two rows share an id. `KeysStayRetired` needs `KeysOK`: the tenant's key and
  those generated and not yet written were never replaced and differ from each other.
- `TenantSettingsProofs`, refinement. `Atomicity` is the theorem: until requests clash, `TenantSettings` implements
  `Settings`. Its invariant is that no two requests under way disturb each other and that each is `Fresh`: whoever made
  it may still make it, the columns it will write back unchanged are what they were, and what it looked for is
  still there or still absent. A statement keeps that for the others because it changes only the cells its
  request may change (`Footprint`), none of which they rest on. `AdminsRemain` follows from the same invariant:
  whoever removes an admin by command is one at that moment, and removes somebody else.

- `SecretsProofs`. `Inv` joins to the types: every column says something that was supplied for it, and what is sealed
  was sealed with a key that was used (`CellsOK`); the migration's rows say the same as the tables, and the columns it
  has passed have no plain values left (`MigrationOK`); a request that is about to write has seen its tenant's row
  open, and the token it holds was supplied (`WorkOK`). `ReadsAreGenuine`, `NoPlainSecrets` and `OneKeySuffices`
  follow. `UnreadableStays` needs more (`Whole`): a tenant that is not there has no column left, so that an insert
  meets nothing it could overwrite. `Implements` classifies each statement of a request as a supply, a put back, a
  deletion or nothing (`ServeEffect`), and maps these to the steps of `Vault`; all else is a stutter, as
  sealing, whatever the key, does not change what a column says (`SealOpens`).

- `SetupWizardProofs`. `NoHalfFile` needs `FInv`: a page is stored only while nothing is saved (`Todos`, `Apart`), a
  wizard keeps its key (`OwnKey`), a rendered text agrees with the form in path and key until it is written
  (`Rendered`), and a file that reaches to the account has the path and the key of one text, also in the
  middle of a write over another one (`Whole`). `SaveEndsSetup` needs that the form `handleSave` has checked stays
  complete until it is rendered (`Checked`), as the only store that may come in between is that of a secret that is
  not empty; `Ready` and `Kept` carry this to the text and to the file. `KeyIsKept` counts wizards (`Numbered`) and
  needs that a key in use is in the file or about to be written there again (`OneKey`).
- `ServerProofs`. `Courses` says for each call how far its goroutine, connection and message can be while the call is
  where it is; `SpeaksOnce` follows, and `SilentAfterReturn` with what is known of a call whose Quit came first: its
  goroutine is done, and a connection it still has was made after a loss (`Lost`).

Only model-checked: `EveryTenantIsTold` and `HandlersEnd`, as liveness is beyond the prover; every other property of the
passing runs is a theorem. `TablesAreFaithful`, `WhoIsInIsShown`, `AnswersShowWhoIsIn` and `ImplementsAttendance` have
the hypotheses named above; the others use the named assumptions on the constants only.

## 5. Findings

Two statements of the documentation and comments do not hold of the code, each shown by a run above, and
one of them is a bug.

- `escapeLike` is applied to the left side of LIKE (`internal/store/sqlite/filters.go:127`). A pattern with `%`
  or `_` selects too much, and a pattern that contains `_` literally misses its topic. Fixing it means
  escaping the pattern.
- After a lost key the documented recovery, a re-installation, answers 500: `HandleCallback` reads the tenant before it
  writes, and `decryptTenant` fails on the old row (`internal/slack/oauth.go:174`); so does the API's deletion of the
  tenant. What helps today is deleting the rows by hand. This is a divergence, as refusing to touch what cannot be
  read is also what keeps a start with the wrong key harmless.

Seen while reading, without a run of its own.

- Meetings. An event that is delivered again is announced again, to every tenant: neither handler nor dispatcher
  recognises it. A join that is handled after the end of its meeting brings the meeting back, and nothing removes it, while
  the design document says "cleared on meeting end": the handlers of two events are not ordered, and `MeetingState` with
  `InOrder = FALSE` does the same. A join delivered twice leaves two open rows (the design document says upsert); a
  leave closes the open rows of everybody of that name in the meeting, although an open row is documented as "still in
  meeting" (`store.Participant`); the backfill on restart and the welcome message of the design document do not exist.
- Dispatch. The client made from the first Zoom credentials stays when they are replaced
  (`internal/notify/dispatcher.go:176`), while the comment at line 185 speaks of the tenant's credentials. The two
  queries of `CheckFilter`, whose comment calls it a single pass, let an event be dropped when the last filter is
  deleted between them. `Send` of the relay returns nil also when nothing was sent (the join timed out, the connection
  broke), ignores its context, and delays the answer to Zoom by the IRC server's pace; two webhooks of one tenant at
  once connect under one nick. When a connection is lost and the ten seconds end while the library dials, Quit comes
  before the new connection, which stays when `Send` has returned (`IrcRelay` models it so; the library's source is not
  in this repository).
- Settings. `CreateTenant` inserts the suffix and the link flag that its callers leave at Go's zero values
  (`internal/store/sqlite/tenants.go:22`, `internal/slack/oauth.go:165`, `internal/api/server.go:113`), so the defaults
  of migration 000002 reach no tenant that is created after it. The installer is not made an admin when `AddAdmin` fails
  (only logged) or when two first installations meet and the second `CreateTenant` is refused, while README:146 says the
  installer is; two concurrent `subscribe` commands make two subscriptions of one channel, and each event is then sent
  twice; of two concurrent changes of suffix and link, by command, modal or PUT of the defaults, one is written over by
  what the other had read; two admins who remove each other at once leave none; `PATCH` of a filter replaces both
  overrides by what was sent, by nothing if they were not, while the comment at `internal/api/server.go:350` tells sent
  fields from others.
- Shutdown. `main` returns as soon as `ListenAndServe` does (`cmd/zoom-notifier/main.go:278`) and closes the store: the
  requests that `Shutdown` would wait for, up to ten seconds, are cut off, though the comment at line 261 and
  the design plan call it graceful.
- Setup. The wizard keeps running when it has saved; a second Save that crosses the first, a full disk or a stop
  leaves a part of the file or two texts in one, as `os.WriteFile` truncates first. A wizard that starts over an
  incomplete or unreadable file writes a new encryption key into it, and what was sealed with the old one is lost.
  `zoom.account_id` has no variable, so a deployment by variables alone always meets the wizard. Zoom's client secret
  is dropped when the client id is empty; an empty database path is a temporary database.
- Secrets. One tenant whose row cannot be opened makes the setup page fail for every tenant, and the webhooks of its
  account.

## 6. Plan

In the order of importance; each step with its runs, then its proofs.

1. *Done*: `MeetingState`, `Dispatch`, `FilterMatch`, `ZoomClient`, and `TenantSettings` with the installation
   and the setup page, as a refinement of `Settings`.
2. *Done*: `Secrets`, as a refinement of `Vault`.
3. *Done*: `SetupWizard`; `IrcRelay` and `Server`; `MeetingQueries`.
4. *Done*: proofs of every safety and action property of the passing runs, and of the refinements of `Settings`,
   `Vault` and `Attendance`.
5. Next: the composition of `MeetingState`, `Dispatch` and `ZoomClient` through the calls named in section 2.

## 7. Not modelled

The layout of messages, modals, pages and the app manifest; the Slack sender (one HTTP request without state; its
outcome is a `Send` of `Dispatch`); the check of Slack's signature, the OAuth state cookie and the exchange of the code
(input checks and a request before the first statement); requests that only show settings; recovery from panics and
request logging; probes and metrics (output); `internal/api/generated.go` (generated from `api/openapi.yaml`); the
migrations, but for the foreign keys and the AUTOINCREMENT columns the models rely on.
