------------------------------ MODULE SetupWizard ------------------------------
(* The first run (internal/setup, internal/config, the first half of main): a  *)
(* process that finds its configuration incomplete serves the wizard, which    *)
(* keeps one form in memory for all requests and writes the file; a process    *)
(* that finds it complete serves.  The file, and the secrets in the database,  *)
(* outlive the processes.  An encryption key is the number of the wizard that  *)
(* generated it.  With --config, an unreadable file ends the process instead   *)
(* (no step here).                                                             *)
EXTENDS Naturals, Sequences

CONSTANTS Values, Blank, Mixed,   \* texts: submitted ones, "", the outcome of a data race
          DefaultPath,            \* "./zoom-notifier.db"
          Absent,                 \* no such line in the file
          NoService, Requests,
          Forms,                  \* Forms[p]: what may be posted on page p
          Environments,           \* what may be exported when a process starts
          HandWritten,            \* lines of the file before the first start
          MaxPosts, MaxWizards, MaxStarts

Settings == {"url", "path", "encryption_key", "webhook_secret", "account_id",
             "client", "slack", "api_key"}
Required == {"webhook_secret", "account_id", "slack", "api_key"}

(* Variant: account_id is bound to a variable as well.  *)
AlsoAccount == {"webhook_secret", "account_id", "slack", "api_key", "encryption_key"}

(* BindEnv: the settings an environment variable overrides.  *)
FromEnv == {"webhook_secret", "slack", "api_key", "encryption_key"}

(* Variant: the section of the database comes last.  *)
DatabaseLast == <<"url", "webhook_secret", "account_id", "client", "slack", "api_key",
                  "path", "encryption_key">>

(* configTemplate.  "slack" stands for the three settings of its section, which *)
(* are submitted and required together, "client" for Zoom's client_id and its   *)
(* secret, "path" for what else the advanced page asks and nothing decides on.  *)
configTemplate == <<"url", "path", "encryption_key", "webhook_secret", "account_id",
                    "client", "slack", "api_key">>

Wizards == 1..MaxWizards
Texts   == Values \cup {Blank, Mixed, DefaultPath} \cup Wizards
NoLines == [s \in Settings |-> Absent]

(* The settings each page stores, in the handler's order.  *)
Stores(p) ==
  CASE p = "server-url" -> <<"url">>
    [] p = "zoom"       -> <<"webhook_secret", "account_id", "client">>
    [] p = "slack"      -> <<"slack">>
    [] p = "advanced"   -> <<"path", "api_key">>
    [] p = "secret"     -> <<"webhook_secret">>    \* /setup/api/save-zoom-secret
Pages == {"server-url", "zoom", "slack", "advanced", "secret"}
Form  == [Settings -> Values \cup {Blank}]

ASSUME SetupAssumption ==
  /\ Values \cap Wizards = {}
  /\ {Blank, Mixed, DefaultPath} \cap (Values \cup Wizards) = {}
  /\ Blank # Mixed /\ DefaultPath \notin {Blank, Mixed}
  /\ Absent \notin Texts
  /\ Forms \in [Pages -> SUBSET Form]
  /\ Environments \subseteq Form
  /\ HandWritten \subseteq [Settings -> Values \cup {Blank, Absent}]
  /\ MaxPosts \in Nat /\ MaxWizards \in Nat /\ MaxStarts \in Nat

VARIABLES
  file,      \* config.toml: its lines, whether they parse, the wizard that wrote them (0: by hand)
  wizard,    \* the number of the running wizard, or 0
  launched,  \* the number of wizards so far
  form,      \* h.data
  req,       \* the wizard's request goroutines
  service,   \* the configuration of the running service, or NoService
  sealed,    \* keys that secrets in the database are encrypted with
  drafts,    \* history: what was rendered for the file
  saved,     \* history: the file stands as the last Save, alone, left it
  spoiled,   \* history: a write of the file was cut short or crossed another
  posts, starts

vars == <<file, wizard, launched, form, req, service, sealed, drafts, saved, spoiled, posts, starts>>
bounds == <<posts, starts>>

-----------------------------------------------------------------------------
(* Configuration.                                                              *)

Default(s) == IF s = "path" THEN DefaultPath ELSE Blank

(* Load.  A variable that is set wins; a file that does not parse counts as    *)
(* absent, as read errors are ignored.                                         *)
Load(f, env) ==
  [s \in Settings |->
     IF s \in FromEnv /\ env[s] # Blank THEN env[s]
     ELSE IF f.readable /\ f.lines[s] # Absent THEN f.lines[s] ELSE Default(s)]

NeedsSetup(cfg) == \E s \in Required : cfg[s] = Blank

(* log.format, which Validate also looks at, is "text" unless a hand says otherwise.  *)
Validate(cfg) == \A s \in Required : cfg[s] # Blank

-----------------------------------------------------------------------------
(* The form has no lock.  A string is two words: where two stores of different *)
(* texts cross, or a read crosses a store, one text's address may be kept or   *)
(* seen with the other's length.  "Mixed" is any such text; what has a length  *)
(* and no address, or is too short, makes the read panic.                      *)

Storing(q, s) == req[q].step = "store" /\ Head(req[q].todo) = s

(* The form as seen by a request whose read crosses the store of request q.  *)
Crossed(q) == [s \in Settings |->
  IF Storing(q, s) /\ req[q].form[s] # form[s] /\ Blank \notin {req[q].form[s], form[s]}
  THEN Mixed ELSE form[s]]

Views == {form} \cup {Crossed(q) : q \in Requests}

-----------------------------------------------------------------------------
NoForm == [s \in Settings |-> Blank]
Idle   == [step |-> "idle", page |-> "none", form |-> NoForm, todo |-> <<>>, draft |-> NoLines]

(* NewHandler: a fresh form with generated keys and the defaults.  *)
NewForm(n) == [s \in Settings |->
  IF s \in {"encryption_key", "api_key"} THEN n ELSE Default(s)]

Draft(lines, n) == [author |-> n, path |-> lines["path"], key |-> lines["encryption_key"]]

Init ==
  /\ \E lines \in HandWritten :
       /\ file = [lines |-> lines, readable |-> TRUE, author |-> 0]
       /\ drafts = {Draft(lines, 0)}
  /\ wizard = 0 /\ launched = 0
  /\ form = NewForm(Blank)
  /\ req = [r \in Requests |-> Idle]
  /\ service = NoService /\ sealed = {}
  /\ saved = FALSE /\ spoiled = FALSE
  /\ posts = 0 /\ starts = 0

-----------------------------------------------------------------------------
(* Processes.                                                                  *)

(* Two wizards listen on the same address: the second one fails.  *)
LaunchWizard(env) ==
  /\ starts < MaxStarts /\ launched < MaxWizards
  /\ NeedsSetup(Load(file, env))
  /\ wizard = 0
  /\ wizard' = launched + 1 /\ launched' = launched + 1
  /\ form' = NewForm(launched + 1)
  /\ starts' = starts + 1
  /\ UNCHANGED <<file, req, service, sealed, drafts, saved, spoiled, posts>>

(* Variant: the wizard is stopped and its requests are not.  *)
StopWizardOnly ==
  /\ wizard # 0
  /\ wizard' = 0
  /\ UNCHANGED <<file, launched, form, req, service, sealed, drafts, saved, spoiled, bounds>>

(* A signal or a crash.  main returns as soon as Shutdown is called, and takes *)
(* the requests with it; a write is cut short by WriteShort, before.           *)
StopWizard ==
  /\ wizard # 0
  /\ wizard' = 0
  /\ spoiled' = (spoiled \/ \E r \in Requests : req[r].step = "write")
  /\ req' = [r \in Requests |-> Idle]
  /\ UNCHANGED <<file, launched, form, service, sealed, drafts, saved, bounds>>

(* The other branch of main: validate, open the database, serve.  *)
Serve(env) ==
  /\ starts < MaxStarts
  /\ service = NoService
  /\ LET cfg == Load(file, env)
     IN  /\ ~NeedsSetup(cfg) /\ Validate(cfg)
         /\ service' = [cfg |-> cfg, author |-> file.author, env |-> env["encryption_key"]]
  /\ starts' = starts + 1
  /\ UNCHANGED <<file, wizard, launched, form, req, sealed, drafts, saved, spoiled, posts>>

(* The service encrypts a secret in the database.  *)
Seal ==
  /\ service # NoService
  /\ sealed' = sealed \cup ({service.cfg["encryption_key"]} \ {Blank})
  /\ UNCHANGED <<file, wizard, launched, form, req, service, drafts, saved, spoiled, bounds>>

StopService ==
  /\ service # NoService
  /\ service' = NoService
  /\ UNCHANGED <<file, wizard, launched, form, req, sealed, drafts, saved, spoiled, bounds>>

-----------------------------------------------------------------------------
(* Requests to the wizard.  A browser posts the page it shows, and shows the   *)
(* next one when it has the answer, but a Save may be sent twice; the script   *)
(* of the Zoom page sends the secret by itself, at any time.                   *)

Under(steps) == \E q \in Requests : req[q].step \in steps /\ req[q].page # "secret"

Arrive(r, page, f, step, todo) ==
  /\ wizard # 0 /\ posts < MaxPosts
  /\ req[r].step = "idle"
  /\ req' = [req EXCEPT ![r] = [Idle EXCEPT !.step = step, !.page = page, !.form = f, !.todo = todo]]
  /\ posts' = posts + 1
  /\ UNCHANGED <<file, wizard, launched, form, service, sealed, drafts, saved, spoiled, starts>>

(* Only advanced leaves a blank setting, the admin key, as it is.  *)
PostPage(r, page, f) ==
  /\ page # "secret" /\ ~Under({"store", "check", "render", "open", "write"})
  /\ Arrive(r, page, f, "store",
            IF page = "advanced" /\ f["api_key"] = Blank THEN <<"path">> ELSE Stores(page))

(* Variant: without the check of an empty secret.  *)
SaveAnySecret(r, f) == Arrive(r, "secret", f, "store", Stores("secret"))

SaveZoomSecret(r, f) ==
  /\ f["webhook_secret"] # Blank
  /\ Arrive(r, "secret", f, "store", Stores("secret"))

(* The request has assigned one field of h.data.  *)
Stored(rq) == IF Len(rq.todo) = 1 THEN Idle ELSE [rq EXCEPT !.todo = Tail(@)]

Store(r) ==
  /\ req[r].step = "store"
  /\ LET s == Head(req[r].todo)
     IN  form' = [form EXCEPT ![s] = req[r].form[s]]
  /\ req' = [req EXCEPT ![r] = Stored(@)]
  /\ UNCHANGED <<file, wizard, launched, service, sealed, drafts, saved, spoiled, bounds>>

(* Two stores that cross.  *)
Collide(q, r) ==
  /\ q # r
  /\ \E s \in Settings :
       /\ Storing(q, s) /\ Storing(r, s)
       /\ req[q].form[s] # req[r].form[s]
       /\ form' = [form EXCEPT ![s] = Mixed]
  /\ req' = [req EXCEPT ![q] = Stored(@), ![r] = Stored(@)]
  /\ UNCHANGED <<file, wizard, launched, service, sealed, drafts, saved, spoiled, bounds>>

PostSave(r) == ~Under({"store"}) /\ Arrive(r, "save", NoForm, "check", <<>>)

(* handleSave: the required fields are looked at ...  *)
CheckRequired(r) ==
  /\ req[r].step = "check"
  /\ req' = [req EXCEPT ![r] =
               IF \E s \in Required : form[s] = Blank THEN Idle ELSE [@ EXCEPT !.step = "render"]]
  /\ UNCHANGED <<file, wizard, launched, form, service, sealed, drafts, saved, spoiled, bounds>>

(* The lines of the template; Zoom's credentials only when they are given.  *)
Lines(view) ==
  [s \in Settings |-> IF s = "client" /\ view[s] = Blank THEN Absent ELSE view[s]]

(* Variant: the key is generated when the file is written.  *)
RenderNewKey(r) ==
  /\ req[r].step = "render"
  /\ \E k \in Wizards :
       LET lines == [Lines(form) EXCEPT !["encryption_key"] = k]
       IN  /\ req' = [req EXCEPT ![r].step = "open", ![r].draft = lines]
           /\ drafts' = drafts \cup {Draft(lines, wizard)}
  /\ UNCHANGED <<file, wizard, launched, form, service, sealed, saved, spoiled, bounds>>

(* ... and read once more by WriteConfig, which renders into a buffer, unless  *)
(* a read panics and the server aborts the request.                            *)
Render(r) ==
  /\ req[r].step = "render"
  /\ \E view \in Views :
       \/ /\ req' = [req EXCEPT ![r].step = "open", ![r].draft = Lines(view)]
          /\ drafts' = drafts \cup {Draft(Lines(view), wizard)}
       \/ /\ \E s \in Settings : view[s] = Mixed
          /\ req' = [req EXCEPT ![r] = Idle]
          /\ UNCHANGED drafts
  /\ UNCHANGED <<file, wizard, launched, form, service, sealed, saved, spoiled, bounds>>

(* os.WriteFile truncates the file, or fails and leaves it alone ...  *)
Truncate(r) ==
  /\ req[r].step = "open"
  /\ \/ /\ req' = [req EXCEPT ![r].step = "write"]
        /\ file' = [lines |-> NoLines, readable |-> TRUE, author |-> wizard]
        /\ saved' = FALSE
     \/ /\ req' = [req EXCEPT ![r] = Idle]
        /\ UNCHANGED <<file, saved>>
  /\ UNCHANGED <<wizard, launched, form, service, sealed, drafts, spoiled, bounds>>

(* The first n lines of a draft over what is there.  *)
Overlay(draft, n) ==
  [s \in Settings |-> IF \E i \in 1..n : configTemplate[i] = s THEN draft[s] ELSE file.lines[s]]

(* Over another text, or cut inside a line, the result may not parse; neither  *)
(* may a text made by a race.                                                  *)
Intact(draft, n) ==
  /\ \A s \in Settings : Overlay(draft, n)[s] # Mixed
  /\ file.readable
  /\ file.lines = draft \/ (file.lines = NoLines /\ n = Len(configTemplate))

Overlaid(draft, n) ==
  {new \in [lines : {Overlay(draft, n)}, readable : BOOLEAN, author : {wizard}] :
     Intact(draft, n) => new.readable}

Alone(r) == \A q \in Requests \ {r} : req[q].step \notin {"render", "open", "write"}

(* ... and writes the whole buffer ...  *)
Write(r) ==
  /\ req[r].step = "write"
  /\ file' \in Overlaid(req[r].draft, Len(configTemplate))
  /\ saved' = (Alone(r) /\ file.lines = NoLines /\ file.readable)
  /\ spoiled' = (spoiled \/ file.lines # NoLines)
  /\ req' = [req EXCEPT ![r] = Idle]
  /\ UNCHANGED <<wizard, launched, form, service, sealed, drafts, bounds>>

(* ... or only its beginning: the disk is full or the process stops.  *)
WriteShort(r) ==
  /\ req[r].step = "write"
  /\ \E n \in 0..(Len(configTemplate) - 1) : file' \in Overlaid(req[r].draft, n)
  /\ spoiled' = TRUE /\ saved' = FALSE
  /\ req' = [req EXCEPT ![r] = Idle]
  /\ UNCHANGED <<wizard, launched, form, service, sealed, drafts, bounds>>

-----------------------------------------------------------------------------
ProcessStep ==
  \/ \E env \in Environments : LaunchWizard(env) \/ Serve(env)
  \/ StopWizard
  \/ Seal
  \/ StopService

RequestStep(r) ==
  \/ \E page \in Pages \ {"secret"} : \E f \in Forms[page] : PostPage(r, page, f)
  \/ \E f \in Forms["secret"] : SaveZoomSecret(r, f)
  \/ PostSave(r)
  \/ Store(r)
  \/ \E q \in Requests : Collide(q, r)
  \/ CheckRequired(r)
  \/ Render(r)
  \/ Truncate(r)
  \/ Write(r)
  \/ WriteShort(r)

Next == ProcessStep \/ \E r \in Requests : RequestStep(r)

Spec == Init /\ [][Next]_vars

-----------------------------------------------------------------------------
(* Properties.                                                                 *)

LineSet == [Settings -> Texts \cup {Absent}]
Request == [step : {"idle", "store", "check", "render", "open", "write"},
            page : Pages \cup {"none", "save"}, form : Form, todo : Seq(Settings),
            draft : LineSet]
Service == [cfg : [Settings -> Texts], author : {0} \cup Wizards, env : Texts]

(* Every variable has its type, and requests exist in a running wizard only.  *)
TypeOK ==
  /\ file \in [lines : LineSet, readable : BOOLEAN, author : {0} \cup Wizards]
  /\ wizard \in {0} \cup Wizards /\ launched \in {0} \cup Wizards
  /\ form \in [Settings -> Texts]
  /\ req \in [Requests -> Request]
  /\ \A r \in Requests : req[r].step = "store" => req[r].todo # <<>>
  /\ wizard = 0 => \A r \in Requests : req[r].step = "idle"
  /\ service \in Service \cup {NoService}
  /\ sealed \subseteq Texts
  /\ drafts \subseteq [author : {0} \cup Wizards, path : Texts \cup {Absent}, key : Texts \cup {Absent}]
  /\ saved \in BOOLEAN /\ spoiled \in BOOLEAN
  /\ posts \in 0..MaxPosts /\ starts \in 0..MaxStarts

(* A service never runs on half a file: whatever was written only in part, and *)
(* whatever the environment adds to it, the database it opens and the key it   *)
(* opens it with are those of one text the wizard had rendered.                *)
ServesAsDrafted ==
  service # NoService =>
    \E d \in drafts :
      /\ d.author = service.author
      /\ service.cfg["path"] = IF d.path = Absent THEN DefaultPath ELSE d.path
      /\ service.cfg["encryption_key"] =
           IF service.env # Blank THEN service.env ELSE IF d.key = Absent THEN Blank ELSE d.key

(* "Once running, the setup wizard will no longer appear": after a Save that   *)
(* was answered and met no other, the next start serves, although the Zoom     *)
(* secret may have been stored between handleSave's check and its rendering.   *)
SavedIsReady ==
  saved /\ (\A s \in Settings : file.lines[s] # Mixed) =>
    \A env \in Environments : ~NeedsSetup(Load(file, env))

(* The wizard goes on running when it has saved, and may save again.  As long  *)
(* as it is the only one there ever was, and no write was cut short, the key   *)
(* that generated secrets are encrypted with is in the file.                   *)
OneWizardKeepsTheKey ==
  launched <= 1 /\ ~spoiled /\ wizard = 0 =>
    \A k \in sealed \cap Wizards : file.lines["encryption_key"] = k
=============================================================================
