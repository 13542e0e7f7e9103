--------------------------- MODULE SetupWizardProofs ---------------------------
(* Theorems about SetupWizard, for any number of requests, posts and starts.   *)
EXTENDS SetupWizard, SequenceTheorems, TLAPS

(* The steps of handleSave.  *)
Saving == {"check", "render", "open", "write"}

(* What a request has still to store.  *)
Todo(rq) ==
  /\ \A i \in 1..Len(rq.todo) : rq.todo[i] # "encryption_key"
  /\ rq.page = "secret" =>
       /\ \A i \in 1..Len(rq.todo) : rq.todo[i] = "webhook_secret"
       /\ rq.form["webhook_secret"] # Blank

(* A page is stored while nothing is saved; the secret is stored at any time.  *)
Todos == \A r \in Requests : req[r].step = "store" => Todo(req[r])
Apart ==
  /\ \A q, r \in Requests : req[q].step = "store" /\ req[q].page # "secret" => req[r].step \notin Saving
  /\ \A r \in Requests : req[r].step \in Saving => req[r].page # "secret"

(* A running wizard keeps the key it generated.  *)
OwnKey == wizard # 0 => form["encryption_key"] = wizard

(* A rendered text has the path and the key of the form, which stay until it   *)
(* is written.                                                                 *)
Rendered(r) ==
  req[r].step \in {"open", "write"} =>
    /\ req[r].draft["path"] = form["path"]
    /\ req[r].draft["encryption_key"] = form["encryption_key"]
    /\ Draft(req[r].draft, wizard) \in drafts

(* A file that reaches to the account has the path and the key of one text.    *)
(* While it is written, they are those of the form.                            *)
Whole ==
  /\ file.lines["account_id"] # Absent => Draft(file.lines, file.author) \in drafts
  /\ (\E r \in Requests : req[r].step = "write") =>
       /\ file.author = wizard
       /\ file.lines["account_id"] # Absent =>
            /\ file.lines["path"] = form["path"]
            /\ file.lines["encryption_key"] = form["encryption_key"]

FInv == Todos /\ Apart /\ OwnKey /\ (\A r \in Requests : Rendered(r)) /\ Whole

-----------------------------------------------------------------------------
(* Type correctness.                                                           *)

(* The constants are texts.  *)
LEMMA Constants ==
  /\ NoLines \in LineSet /\ NoForm \in Form /\ Form \subseteq [Settings -> Texts]
  /\ \A s \in Settings : Default(s) \in Texts
  /\ Blank \in Texts /\ Mixed \in Texts /\ Wizards \subseteq Texts
  /\ HandWritten \subseteq LineSet
  BY SetupAssumption DEF NoLines, LineSet, NoForm, Form, Texts, Default

(* What the file and the environment hold is text.  *)
LEMMA LoadType ==
  ASSUME TypeOK, NEW env \in Environments
  PROVE  Load(file, env) \in [Settings -> Texts] /\ env["encryption_key"] \in Texts
<1>1. env \in [Settings -> Texts]
  BY Constants, SetupAssumption
<1>2. ASSUME NEW s \in Settings
      PROVE  (IF s \in FromEnv /\ env[s] # Blank THEN env[s]
              ELSE IF file.readable /\ file.lines[s] # Absent THEN file.lines[s]
              ELSE Default(s)) \in Texts
  BY <1>1, <1>2, Constants DEF TypeOK, LineSet
<1>3. QED
  BY <1>1, <1>2 DEF Load, Settings

(* So is every draft and the form it is made from.  *)
LEMMA LinesType ==
  ASSUME TypeOK, NEW view \in Views
  PROVE  view \in [Settings -> Texts] /\ Lines(view) \in LineSet
<1>1. view \in [Settings -> Texts]
  BY Constants DEF Views, Crossed, TypeOK
<1>2. QED
  BY <1>1 DEF Lines, LineSet

(* A request that is through.  *)
LEMMA IdleType == Idle \in Request /\ Idle.step = "idle" /\ Idle.page = "none"
  BY Constants DEF Idle, Request

(* The initial states are typed.  *)
LEMMA TypeInit == Init => TypeOK
<1> SUFFICES ASSUME Init PROVE TypeOK
  OBVIOUS
<1>1. PICK lines \in HandWritten :
        /\ file = [lines |-> lines, readable |-> TRUE, author |-> 0]
        /\ drafts = {Draft(lines, 0)}
  BY DEF Init
<1>2. lines \in LineSet
  BY Constants
<1>3. file \in [lines : LineSet, readable : BOOLEAN, author : {0} \cup Wizards]
  BY <1>1, <1>2
<1>4. drafts \subseteq [author : {0} \cup Wizards, path : Texts \cup {Absent}, key : Texts \cup {Absent}]
  BY <1>1, <1>2 DEF Draft, LineSet, Settings
<1>5. form \in [Settings -> Texts]
  BY Constants DEF Init, NewForm
<1>6. req \in [Requests -> Request] /\ \A r \in Requests : req[r].step = "idle"
  BY IdleType DEF Init
<1>7. posts \in 0..MaxPosts /\ starts \in 0..MaxStarts
  BY SetupAssumption DEF Init
<1>8. wizard = 0 /\ launched = 0 /\ service = NoService /\ sealed = {}
  BY DEF Init
<1>9. saved \in BOOLEAN /\ spoiled \in BOOLEAN
  BY DEF Init
<1>10. QED
  BY <1>3, <1>4, <1>5, <1>6, <1>7, <1>8, <1>9 DEF TypeOK

(* What the steps of processes change.  *)
LEMMA TypeProcess ==
  ASSUME TypeOK, ProcessStep
  PROVE  TypeOK'
<1>1. ASSUME NEW env \in Environments, LaunchWizard(env) PROVE TypeOK'
  <2>1. launched + 1 \in Wizards /\ starts + 1 \in 0..MaxStarts
    BY <1>1, SetupAssumption DEF LaunchWizard, TypeOK, Wizards
  <2>2. NewForm(launched + 1) \in [Settings -> Texts]
    BY <2>1, Constants DEF NewForm
  <2>3. QED
    BY <1>1, <2>1, <2>2 DEF LaunchWizard, TypeOK
<1>2. CASE StopWizard
  <2>1. req' \in [Requests -> Request] /\ \A r \in Requests : req'[r].step = "idle"
    BY <1>2, IdleType DEF StopWizard
  <2>2. spoiled' \in BOOLEAN /\ wizard' = 0
    BY <1>2 DEF StopWizard, TypeOK
  <2>3. QED
    BY <1>2, <2>1, <2>2 DEF StopWizard, TypeOK, bounds
<1>3. ASSUME NEW env \in Environments, Serve(env) PROVE TypeOK'
  <2>1. service' \in Service
    BY <1>3, LoadType DEF Serve, Service, TypeOK
  <2>2. starts + 1 \in 0..MaxStarts
    BY <1>3, SetupAssumption DEF Serve, TypeOK
  <2>3. QED
    BY <1>3, <2>1, <2>2 DEF Serve, TypeOK
<1>4. CASE Seal
  <2>1. service \in Service
    BY <1>4 DEF Seal, TypeOK
  <2>2. service.cfg["encryption_key"] \in Texts
    BY <2>1 DEF Service, Settings
  <2>3. QED
    BY <1>4, <2>2 DEF Seal, TypeOK, bounds
<1>5. CASE StopService
  BY <1>5 DEF StopService, TypeOK, bounds
<1>6. QED
  BY <1>1, <1>2, <1>3, <1>4, <1>5 DEF ProcessStep

(* A request that has stored one setting is typed.  *)
LEMMA StoredType ==
  ASSUME NEW rq \in Request, rq.step = "store", rq.todo # <<>>
  PROVE  /\ Stored(rq) \in Request
         /\ Stored(rq).step = "store" => Stored(rq).todo # <<>>
         /\ Stored(rq) = Idle \/ Stored(rq) = [rq EXCEPT !.todo = Tail(rq.todo)]
<1>1. CASE Len(rq.todo) = 1
  BY <1>1, IdleType DEF Stored
<1>2. CASE Len(rq.todo) # 1
  <2>1. rq.todo \in Seq(Settings) /\ Len(rq.todo) \in Nat /\ Len(rq.todo) # 0
    BY EmptySeq DEF Request
  <2>2. Tail(rq.todo) \in Seq(Settings) /\ Tail(rq.todo) # <<>>
    <3>1. Tail(rq.todo) \in Seq(Settings) /\ Len(Tail(rq.todo)) = Len(rq.todo) - 1
      BY <2>1, HeadTailProperties
    <3>2. Len(Tail(rq.todo)) # 0
      BY <1>2, <2>1, <3>1
    <3>3. QED
      BY <3>1, <3>2, EmptySeq
  <2>3. QED
    BY <1>2, <2>2 DEF Stored, Request
<1>3. QED
  BY <1>1, <1>2

(* What a page stores.  *)
LEMMA StoresType ==
  ASSUME NEW p \in Pages
  PROVE  /\ Stores(p) \in Seq(Settings) /\ Stores(p) # <<>>
         /\ \A i \in 1..Len(Stores(p)) : Stores(p)[i] # "encryption_key"
<1>1. CASE p = "server-url"
  BY <1>1 DEF Stores, Settings
<1>2. CASE p = "zoom"
  BY <1>2 DEF Stores, Settings
<1>3. CASE p = "slack"
  BY <1>3 DEF Stores, Settings
<1>4. CASE p = "advanced"
  BY <1>4 DEF Stores, Settings
<1>5. CASE p = "secret"
  BY <1>5 DEF Stores, Settings
<1>6. QED
  BY <1>1, <1>2, <1>3, <1>4, <1>5 DEF Pages

(* An arriving request is typed.  *)
LEMMA ArriveType ==
  ASSUME TypeOK, NEW r \in Requests, NEW page \in Pages \cup {"save"}, NEW f \in Form,
         NEW step \in {"store", "check"}, NEW todo \in Seq(Settings),
         step = "store" => todo # <<>>, Arrive(r, page, f, step, todo)
  PROVE  TypeOK'
<1> DEFINE rq == [Idle EXCEPT !.step = step, !.page = page, !.form = f, !.todo = todo]
<1>1. rq \in Request /\ rq.step = step /\ rq.todo = todo
  BY IdleType DEF Request
<1>2. req' = [req EXCEPT ![r] = rq]
  BY DEF Arrive
<1> HIDE DEF rq
<1>3. req' \in [Requests -> Request] /\ \A q \in Requests : req'[q].step = "store" => req'[q].todo # <<>>
  BY <1>1, <1>2 DEF TypeOK
<1>4. posts + 1 \in 0..MaxPosts
  BY SetupAssumption DEF Arrive, TypeOK
<1>5. QED
  BY <1>3, <1>4 DEF Arrive, TypeOK

(* What is on the file after the first n lines of a draft.  *)
LEMMA OverlaidLines ==
  ASSUME NEW draft, NEW n, NEW new \in Overlaid(draft, n)
  PROVE  /\ new.author = wizard /\ new.readable \in BOOLEAN
         /\ new = [lines |-> new.lines, readable |-> new.readable, author |-> new.author]
         /\ new.lines = Overlay(draft, n)
         /\ Intact(draft, n) => new.readable
  BY DEF Overlaid

(* It is typed.  *)
LEMMA OverlaidType ==
  ASSUME TypeOK, NEW r \in Requests, NEW n, NEW new \in Overlaid(req[r].draft, n)
  PROVE  new \in [lines : LineSet, readable : BOOLEAN, author : {0} \cup Wizards]
<1>1. req[r].draft \in LineSet /\ file.lines \in LineSet
  BY DEF TypeOK, Request
<1>2. new.lines \in LineSet
  <2>1. new.lines = Overlay(req[r].draft, n)
    BY OverlaidLines
  <2>2. Overlay(req[r].draft, n) \in LineSet
    BY <1>1 DEF LineSet, Overlay
  <2>3. QED
    BY <2>1, <2>2
<1>3. QED
  BY <1>2, OverlaidLines DEF TypeOK

(* A step that changes one request to a typed one, in a running wizard.  *)
LEMMA TypeOfReq ==
  ASSUME TypeOK, NEW r \in Requests, NEW rq \in Request, req' = [req EXCEPT ![r] = rq],
         rq.step = "store" => rq.todo # <<>>
  PROVE  /\ req' \in [Requests -> Request]
         /\ \A q \in Requests : req'[q].step = "store" => req'[q].todo # <<>>
  BY DEF TypeOK

(* A request that goes on to another step, with a draft or without, has its type.  *)
LEMMA GoOnType ==
  ASSUME NEW rq \in Request, NEW lines \in LineSet
  PROVE  /\ [rq EXCEPT !.step = "open", !.draft = lines] \in Request
         /\ [rq EXCEPT !.step = "write"] \in Request
  BY DEF Request

(* A request is not at work in a wizard that is not there.  *)
LEMMA Running ==
  ASSUME TypeOK, NEW r \in Requests, req[r].step # "idle"
  PROVE  wizard \in Wizards
  BY DEF TypeOK

(* What the steps of requests change.  *)
LEMMA TypeRequest ==
  ASSUME TypeOK, NEW r \in Requests, RequestStep(r)
  PROVE  TypeOK'
<1>1. ASSUME NEW page \in Pages \ {"secret"}, NEW f \in Forms[page], PostPage(r, page, f)
      PROVE  TypeOK'
  <2> DEFINE todo == IF page = "advanced" /\ f["api_key"] = Blank THEN <<"path">> ELSE Stores(page)
  <2>1. f \in Form
    BY SetupAssumption
  <2>2. todo \in Seq(Settings) /\ todo # <<>>
    <3>1. <<"path">> \in Seq(Settings) /\ <<"path">> # <<>>
      BY DEF Settings
    <3>2. QED
      BY <3>1, StoresType
  <2>3. Arrive(r, page, f, "store", todo)
    BY <1>1 DEF PostPage
  <2> HIDE DEF todo
  <2>4. QED
    BY <2>1, <2>2, <2>3, ArriveType
<1>2. ASSUME NEW f \in Forms["secret"], SaveZoomSecret(r, f) PROVE TypeOK'
  <2>1. f \in Form /\ "secret" \in Pages
    BY SetupAssumption DEF Pages
  <2>2. QED
    BY <1>2, <2>1, ArriveType, StoresType DEF SaveZoomSecret
<1>3. CASE PostSave(r)
  <2>1. <<>> \in Seq(Settings)
    OBVIOUS
  <2>2. QED
    BY <1>3, <2>1, ArriveType, Constants DEF PostSave
<1>4. CASE Store(r)
  <2>1. Stored(req[r]) \in Request /\ (Stored(req[r]).step = "store" => Stored(req[r]).todo # <<>>)
    BY <1>4, StoredType DEF Store, TypeOK
  <2>2. Head(req[r].todo) \in Settings /\ req[r].form \in [Settings -> Texts]
    BY <1>4, HeadTailProperties, Constants DEF Store, TypeOK, Request
  <2>3. form' \in [Settings -> Texts]
    BY <1>4, <2>2 DEF Store, TypeOK
  <2>4. req' = [req EXCEPT ![r] = Stored(req[r])] /\ wizard # 0
    BY <1>4, Running DEF Store, Wizards
  <2>5. QED
    BY <1>4, <2>1, <2>3, <2>4, TypeOfReq DEF Store, TypeOK, bounds
<1>5. ASSUME NEW q \in Requests, Collide(q, r) PROVE TypeOK'
  <2>1. PICK s \in Settings : Storing(q, s) /\ Storing(r, s) /\ form' = [form EXCEPT ![s] = Mixed]
    BY <1>5 DEF Collide
  <2>2. /\ Stored(req[r]) \in Request /\ (Stored(req[r]).step = "store" => Stored(req[r]).todo # <<>>)
        /\ Stored(req[q]) \in Request /\ (Stored(req[q]).step = "store" => Stored(req[q]).todo # <<>>)
    BY <2>1, StoredType DEF Storing, TypeOK
  <2>3. form' \in [Settings -> Texts]
    BY <2>1, Constants DEF TypeOK
  <2>4. /\ req' \in [Requests -> Request]
        /\ \A o \in Requests : req'[o].step = "store" => req'[o].todo # <<>>
    BY <1>5, <2>2 DEF Collide, TypeOK
  <2>5. wizard # 0
    BY <2>1, Running DEF Storing, Wizards
  <2>6. QED
    BY <1>5, <2>3, <2>4, <2>5 DEF Collide, TypeOK, bounds
<1>6. CASE CheckRequired(r)
  <2> DEFINE rq == IF \E s \in Required : form[s] = Blank THEN Idle
                   ELSE [req[r] EXCEPT !.step = "render"]
  <2>1. rq \in Request /\ rq.step # "store" /\ req' = [req EXCEPT ![r] = rq]
    BY <1>6, IdleType DEF CheckRequired, TypeOK, Request
  <2>2. wizard # 0
    BY <1>6, Running DEF CheckRequired, Wizards
  <2> HIDE DEF rq
  <2>3. QED
    BY <1>6, <2>1, <2>2, TypeOfReq DEF CheckRequired, TypeOK, bounds
<1>7. CASE Render(r)
  <2>1. PICK view \in Views :
          \/ /\ req' = [req EXCEPT ![r].step = "open", ![r].draft = Lines(view)]
             /\ drafts' = drafts \cup {Draft(Lines(view), wizard)}
          \/ req' = [req EXCEPT ![r] = Idle] /\ UNCHANGED drafts
    BY <1>7 DEF Render
  <2>2. Lines(view) \in LineSet
    BY LinesType
  <2> DEFINE rq == [req[r] EXCEPT !.step = "open", !.draft = Lines(view)]
  <2>3. rq \in Request /\ rq.step = "open"
    <3>1. req[r] \in Request
      BY DEF TypeOK
    <3>2. rq \in Request
      BY <2>2, <3>1, GoOnType
    <3>3. QED
      BY <3>1, <3>2 DEF Request
  <2>4. req' = [req EXCEPT ![r] = rq] \/ req' = [req EXCEPT ![r] = Idle]
    BY <2>1 DEF TypeOK
  <2> HIDE DEF rq
  <2>5. wizard \in Wizards /\ wizard # 0
    BY <1>7, Running DEF Render, Wizards
  <2>6. drafts' \subseteq [author : {0} \cup Wizards, path : Texts \cup {Absent}, key : Texts \cup {Absent}]
    BY <2>1, <2>2, <2>5 DEF TypeOK, Draft, LineSet, Settings
  <2>7. /\ req' \in [Requests -> Request]
        /\ \A q \in Requests : req'[q].step = "store" => req'[q].todo # <<>>
    BY <2>3, <2>4, IdleType, TypeOfReq
  <2>8. QED
    BY <1>7, <2>5, <2>6, <2>7 DEF Render, TypeOK, bounds
<1>8. CASE Truncate(r)
  <2>1. wizard \in Wizards /\ wizard # 0
    BY <1>8, Running DEF Truncate, Wizards
  <2> DEFINE rq == [req[r] EXCEPT !.step = "write"]
  <2>2. rq \in Request /\ rq.step = "write"
    <3>1. req[r] \in Request /\ req[r].draft \in LineSet
      BY DEF TypeOK, Request
    <3>2. rq \in Request
      BY <3>1, GoOnType
    <3>3. QED
      BY <3>1, <3>2 DEF Request
  <2>3. req' = [req EXCEPT ![r] = rq] \/ req' = [req EXCEPT ![r] = Idle]
    BY <1>8 DEF Truncate, TypeOK
  <2> HIDE DEF rq
  <2>4. /\ req' \in [Requests -> Request]
        /\ \A q \in Requests : req'[q].step = "store" => req'[q].todo # <<>>
    BY <2>2, <2>3, IdleType, TypeOfReq
  <2>5. file' \in [lines : LineSet, readable : BOOLEAN, author : {0} \cup Wizards]
    <3>1. file' = [lines |-> NoLines, readable |-> TRUE, author |-> wizard] \/ file' = file
      BY <1>8 DEF Truncate
    <3>2. NoLines \in LineSet /\ wizard \in {0} \cup Wizards
      BY <2>1, Constants
    <3>3. CASE file' = [lines |-> NoLines, readable |-> TRUE, author |-> wizard]
      BY <3>2, <3>3
    <3>4. CASE file' = file
      BY <3>4 DEF TypeOK
    <3>5. QED
      BY <3>1, <3>3, <3>4
  <2>6. saved' \in BOOLEAN
    BY <1>8 DEF Truncate, TypeOK
  <2>7. QED
    BY <1>8, <2>1, <2>4, <2>5, <2>6 DEF Truncate, TypeOK, bounds
<1>9. CASE Write(r) \/ WriteShort(r)
  <2>1. wizard # 0
    BY <1>9, Running DEF Write, WriteShort, Wizards
  <2>2. /\ req' \in [Requests -> Request]
        /\ \A q \in Requests : req'[q].step = "store" => req'[q].todo # <<>>
    BY <1>9, IdleType, TypeOfReq DEF Write, WriteShort
  <2>3. file' \in [lines : LineSet, readable : BOOLEAN, author : {0} \cup Wizards]
    BY <1>9, OverlaidType DEF Write, WriteShort
  <2>4. saved' \in BOOLEAN /\ spoiled' \in BOOLEAN
    BY <1>9 DEF Write, WriteShort, TypeOK
  <2>5. QED
    BY <1>9, <2>1, <2>2, <2>3, <2>4 DEF Write, WriteShort, TypeOK, bounds
<1>10. QED
  BY <1>1, <1>2, <1>3, <1>4, <1>5, <1>6, <1>7, <1>8, <1>9 DEF RequestStep

(* Type correctness: every variable keeps its type, and requests exist in a    *)
(* running wizard only.                                                        *)
THEOREM TypeCorrect == Spec => []TypeOK
<1>1. TypeOK /\ [Next]_vars => TypeOK'
  <2>1. CASE UNCHANGED vars
    BY <2>1 DEF vars, bounds, TypeOK
  <2>2. QED
    BY <2>1, TypeProcess, TypeRequest DEF Next
<1>2. QED
  BY <1>1, TypeInit, PTL DEF Spec

-----------------------------------------------------------------------------
(* What is on the file.                                                        *)

(* A step that begins no request keeps pages and saves apart.  *)
LEMMA ApartKept ==
  ASSUME Todos, Apart,
         \A q \in Requests : req'[q].step = "store" =>
           req[q].step = "store" /\ req'[q].page = req[q].page /\ Todo(req'[q]),
         \A q \in Requests : req'[q].step \in Saving =>
           req[q].step \in Saving /\ req'[q].page = req[q].page
  PROVE  Todos' /\ Apart'
<1>1. Todos'
  BY DEF Todos, Todo
<1>2. Apart'
  BY DEF Apart
<1>3. QED
  BY <1>1, <1>2

(* A request that has stored one setting has less to do.  *)
LEMMA StoredTodo ==
  ASSUME NEW rq \in Request, rq.step = "store", rq.todo # <<>>, Todo(rq)
  PROVE  /\ Stored(rq).step \notin Saving
         /\ Stored(rq).step = "store" => Stored(rq).page = rq.page /\ Todo(Stored(rq))
<1>1. CASE Stored(rq) = Idle
  BY <1>1, IdleType DEF Saving
<1>2. CASE Stored(rq) = [rq EXCEPT !.todo = Tail(rq.todo)]
  <2>1. /\ Stored(rq).step = "store" /\ Stored(rq).page = rq.page /\ Stored(rq).form = rq.form
        /\ Stored(rq).todo = Tail(rq.todo)
    BY <1>2 DEF Request
  <2>2. rq.todo \in Seq(Settings) /\ Len(Tail(rq.todo)) = Len(rq.todo) - 1
    BY HeadTailProperties DEF Request
  <2>3. \A i \in 1..Len(Tail(rq.todo)) : i + 1 \in 1..Len(rq.todo) /\ Tail(rq.todo)[i] = rq.todo[i + 1]
    BY <2>2
  <2>4. QED
    BY <2>1, <2>3 DEF Todo, Saving
<1>3. QED
  BY <1>1, <1>2, StoredType

(* No store touches the key, and none the path while a request saves.  *)
LEMMA FormKept ==
  ASSUME TypeOK, Todos, Apart, NEW r \in Requests, NEW s, Storing(r, s), NEW v,
         form' = [form EXCEPT ![s] = v]
  PROVE  /\ form'["encryption_key"] = form["encryption_key"]
         /\ (\E q \in Requests : req[q].step \in Saving) => form'["path"] = form["path"]
<1>1. req[r].todo \in Seq(Settings) /\ req[r].todo # <<>> /\ req[r].step = "store"
  BY DEF Storing, TypeOK, Request
<1>2. 1 \in 1..Len(req[r].todo) /\ s = req[r].todo[1]
  BY <1>1, EmptySeq DEF Storing
<1>3. s # "encryption_key" /\ (req[r].page = "secret" => s = "webhook_secret")
  BY <1>1, <1>2 DEF Todos, Todo
<1>4. (\E q \in Requests : req[q].step \in Saving) => req[r].page = "secret"
  BY <1>1 DEF Apart
<1>5. QED
  BY <1>3, <1>4 DEF TypeOK, Settings

(* A step that renders and writes nothing, and stores neither key nor path     *)
(* under a save, keeps drafts and file as they are.                            *)
LEMMA FileKept ==
  ASSUME TypeOK, OwnKey, \A r \in Requests : Rendered(r), Whole,
         UNCHANGED <<file, wizard, drafts>>,
         form'["encryption_key"] = form["encryption_key"],
         (\E q \in Requests : req[q].step \in Saving) => form'["path"] = form["path"],
         \A q \in Requests : req'[q].step \in {"open", "write"} => req'[q] = req[q]
  PROVE  OwnKey' /\ (\A r \in Requests : Rendered(r)') /\ Whole'
<1>1. OwnKey'
  BY DEF OwnKey
<1>2. ASSUME NEW r \in Requests PROVE Rendered(r)'
  BY DEF Rendered, Saving, Draft
<1>3. Whole'
  BY DEF Whole, Saving, Draft
<1>4. QED
  BY <1>1, <1>2, <1>3

(* The initial states satisfy the invariant.  *)
LEMMA FInit == Init => FInv
<1> SUFFICES ASSUME Init PROVE FInv
  OBVIOUS
<1>1. \A r \in Requests : req[r].step = "idle"
  BY IdleType DEF Init
<1>2. Todos /\ Apart /\ \A r \in Requests : Rendered(r)
  BY <1>1 DEF Todos, Apart, Rendered, Saving
<1>3. Draft(file.lines, file.author) \in drafts
  BY DEF Init
<1>4. OwnKey /\ Whole
  BY <1>1, <1>3 DEF Init, OwnKey, Whole
<1>5. QED
  BY <1>2, <1>4 DEF FInv

(* The steps of processes keep it.  *)
LEMMA FProcess == ASSUME TypeOK, FInv, ProcessStep PROVE FInv'
<1> USE DEF FInv
<1>1. ASSUME NEW env \in Environments, LaunchWizard(env) PROVE FInv'
  <2>1. \A r \in Requests : req'[r].step = "idle"
    BY <1>1 DEF LaunchWizard, TypeOK
  <2>2. Todos' /\ Apart' /\ (\A r \in Requests : Rendered(r)')
    BY <2>1 DEF Todos, Apart, Rendered, Saving
  <2>3. form'["encryption_key"] = launched + 1
    BY <1>1 DEF LaunchWizard, NewForm, Settings
  <2>4. OwnKey' /\ Whole'
    BY <1>1, <2>1, <2>3 DEF LaunchWizard, OwnKey, Whole, Draft
  <2>5. QED
    BY <2>2, <2>4
<1>2. CASE StopWizard
  <2>1. \A r \in Requests : req'[r].step = "idle"
    BY <1>2, IdleType DEF StopWizard
  <2>2. Todos' /\ Apart' /\ (\A r \in Requests : Rendered(r)')
    BY <2>1 DEF Todos, Apart, Rendered, Saving
  <2>3. OwnKey' /\ Whole'
    BY <1>2, <2>1 DEF StopWizard, OwnKey, Whole, Draft
  <2>4. QED
    BY <2>2, <2>3
<1>3. ASSUME UNCHANGED <<file, wizard, form, req, drafts>> PROVE FInv'
  BY <1>3 DEF Todos, Todo, Apart, OwnKey, Rendered, Whole, Draft
<1>4. QED
  BY <1>1, <1>2, <1>3 DEF ProcessStep, Serve, Seal, StopService

(* An arriving request stores a page or the secret, or begins to save.  *)
LEMMA FArrive ==
  ASSUME TypeOK, FInv, NEW r \in Requests, NEW page, NEW f \in Form, NEW step, NEW todo,
         Arrive(r, page, f, step, todo),
         \/ /\ step = "check" /\ page # "secret"
            /\ \A q \in Requests : req[q].step = "store" => req[q].page = "secret"
         \/ /\ step = "store"
            /\ \A i \in 1..Len(todo) : todo[i] # "encryption_key"
            /\ page # "secret" => \A q \in Requests : req[q].step \notin Saving
            /\ page = "secret" =>
                 (\A i \in 1..Len(todo) : todo[i] = "webhook_secret") /\ f["webhook_secret"] # Blank
  PROVE  FInv'
<1> DEFINE rq == [Idle EXCEPT !.step = step, !.page = page, !.form = f, !.todo = todo]
<1>1. rq.step = step /\ rq.page = page /\ rq.form = f /\ rq.todo = todo
  BY DEF Idle
<1>2. req' = [req EXCEPT ![r] = rq] /\ req[r].step = "idle"
  BY DEF Arrive
<1> HIDE DEF rq
<1>3. req'[r] = rq /\ \A q \in Requests \ {r} : req'[q] = req[q]
  BY <1>2 DEF TypeOK
<1>4. Todos'
  BY <1>1, <1>3 DEF FInv, Todos, Todo
<1>5. Apart'
  BY <1>1, <1>3 DEF FInv, Apart, Saving
<1>6. OwnKey' /\ (\A q \in Requests : Rendered(q)') /\ Whole'
  <2>1. \A q \in Requests : req'[q].step \in {"open", "write"} => req'[q] = req[q]
    BY <1>1, <1>3
  <2>2. QED
    BY <2>1, FileKept DEF Arrive, FInv
<1>7. QED
  BY <1>4, <1>5, <1>6 DEF FInv

(* The lines of the template before the account are the path and the key.  *)
LEMMA Template ==
  /\ Len(configTemplate) = 8
  /\ configTemplate[2] = "path" /\ configTemplate[3] = "encryption_key"
  /\ \A i \in 1..8 : configTemplate[i] = "account_id" => i = 5
  BY DEF configTemplate

(* Over a file whose path and key are the draft's, if it has an account, a     *)
(* draft leaves such a file again, whole or in part.                           *)
LEMMA OverlayWhole ==
  ASSUME NEW draft, NEW n \in 0..Len(configTemplate), NEW new \in Overlaid(draft, n),
         file.lines["account_id"] # Absent =>
           /\ file.lines["path"] = draft["path"]
           /\ file.lines["encryption_key"] = draft["encryption_key"]
  PROVE  new.lines["account_id"] # Absent =>
           /\ new.lines["path"] = draft["path"]
           /\ new.lines["encryption_key"] = draft["encryption_key"]
<1> SUFFICES ASSUME new.lines["account_id"] # Absent
             PROVE  /\ new.lines["path"] = draft["path"]
                    /\ new.lines["encryption_key"] = draft["encryption_key"]
  OBVIOUS
<1>1. \A s \in Settings :
        new.lines[s] = IF \E i \in 1..n : configTemplate[i] = s THEN draft[s] ELSE file.lines[s]
  <2>1. new.lines = Overlay(draft, n)
    BY OverlaidLines
  <2>2. QED
    BY <2>1 DEF Overlay
<1>2. {"path", "encryption_key", "account_id"} \subseteq Settings
  BY DEF Settings
<1>3. CASE n >= 5
  <2>1. 2 \in 1..n /\ 3 \in 1..n
    BY <1>3
  <2>2. QED
    BY <1>1, <1>2, <2>1, Template
<1>4. CASE ~(n >= 5)
  <2>1. new.lines["account_id"] = file.lines["account_id"]
    <3>1. ~(\E i \in 1..n : configTemplate[i] = "account_id")
      BY <1>4, Template
    <3>2. QED
      BY <1>1, <1>2, <3>1
  <2>2. QED
    BY <1>1, <1>2, <2>1
<1>5. QED
  BY <1>3, <1>4

(* The steps of requests keep the invariant.  *)
LEMMA FRequest == ASSUME TypeOK, FInv, NEW r \in Requests, RequestStep(r) PROVE FInv'
<1>1. ASSUME NEW page \in Pages \ {"secret"}, NEW f \in Forms[page], PostPage(r, page, f)
      PROVE  FInv'
  <2> DEFINE todo == IF page = "advanced" /\ f["api_key"] = Blank THEN <<"path">> ELSE Stores(page)
  <2>1. f \in Form
    BY SetupAssumption
  <2>2. \A i \in 1..Len(todo) : todo[i] # "encryption_key"
    BY StoresType
  <2>3. Arrive(r, page, f, "store", todo)
    BY <1>1 DEF PostPage
  <2>4. \A q \in Requests : req[q].step \notin Saving
    <3>1. \A q \in Requests : req[q].page # "secret" => req[q].step \notin Saving
      BY <1>1 DEF PostPage, Under, Saving
    <3>2. QED
      BY <3>1 DEF FInv, Apart
  <2> HIDE DEF todo
  <2>5. QED
    BY <2>1, <2>2, <2>3, <2>4, FArrive
<1>2. ASSUME NEW f \in Forms["secret"], SaveZoomSecret(r, f) PROVE FInv'
  <2>1. f \in Form /\ f["webhook_secret"] # Blank
    BY <1>2, SetupAssumption DEF Pages, SaveZoomSecret
  <2>2. \A i \in 1..Len(Stores("secret")) : Stores("secret")[i] = "webhook_secret"
    BY DEF Stores
  <2>3. QED
    BY <1>2, <2>1, <2>2, FArrive DEF SaveZoomSecret
<1>3. CASE PostSave(r)
  <2>1. \A q \in Requests : req[q].step = "store" => req[q].page = "secret"
    BY <1>3 DEF PostSave, Under
  <2>2. QED
    BY <1>3, <2>1, FArrive, Constants DEF PostSave
<1>4. CASE Store(r)
  <2>1. Todo(req[r]) /\ req[r].step = "store" /\ req[r] \in Request /\ req[r].todo # <<>>
    BY <1>4 DEF Store, FInv, Todos, TypeOK
  <2>2. /\ Stored(req[r]).step \notin Saving
        /\ Stored(req[r]).step = "store" => Stored(req[r]).page = req[r].page /\ Todo(Stored(req[r]))
    BY <2>1, StoredTodo
  <2>3. req'[r] = Stored(req[r]) /\ \A q \in Requests \ {r} : req'[q] = req[q]
    BY <1>4 DEF Store, TypeOK
  <2>4. Todos' /\ Apart'
    BY <2>1, <2>2, <2>3, ApartKept DEF FInv, Todos
  <2>5. /\ form'["encryption_key"] = form["encryption_key"]
        /\ (\E q \in Requests : req[q].step \in Saving) => form'["path"] = form["path"]
    BY <1>4, FormKept DEF Store, Storing, FInv
  <2>6. \A q \in Requests : req'[q].step \in {"open", "write"} => req'[q] = req[q]
    BY <2>2, <2>3 DEF Saving
  <2>7. QED
    BY <1>4, <2>4, <2>5, <2>6, FileKept DEF Store, FInv
<1>5. ASSUME NEW q \in Requests, Collide(q, r) PROVE FInv'
  <2>1. PICK s \in Settings : Storing(q, s) /\ Storing(r, s) /\ form' = [form EXCEPT ![s] = Mixed]
    BY <1>5 DEF Collide
  <2>2. ASSUME NEW o \in {q, r}
        PROVE  /\ req[o].step = "store" /\ Stored(req[o]).step \notin Saving
               /\ Stored(req[o]).step = "store" => Stored(req[o]).page = req[o].page /\ Todo(Stored(req[o]))
    BY <2>1, StoredTodo DEF Storing, FInv, Todos, TypeOK
  <2>3. /\ \A o \in {q, r} : req'[o] = Stored(req[o])
        /\ \A o \in Requests \ {q, r} : req'[o] = req[o]
    BY <1>5 DEF Collide, TypeOK
  <2>4. Todos' /\ Apart'
    BY <2>2, <2>3, ApartKept DEF FInv, Todos
  <2>5. /\ form'["encryption_key"] = form["encryption_key"]
        /\ (\E o \in Requests : req[o].step \in Saving) => form'["path"] = form["path"]
    BY <2>1, FormKept DEF FInv
  <2>6. \A o \in Requests : req'[o].step \in {"open", "write"} => req'[o] = req[o]
    BY <2>2, <2>3 DEF Saving
  <2>7. QED
    BY <1>5, <2>4, <2>5, <2>6, FileKept DEF Collide, FInv
<1>6. CASE CheckRequired(r)
  <2>1. \A q \in Requests : req'[q].step \in {"open", "write", "store"} => req'[q] = req[q]
    BY <1>6, IdleType DEF CheckRequired, TypeOK, Request
  <2>2. \A q \in Requests : req'[q].step \in Saving => req[q].step \in Saving /\ req'[q].page = req[q].page
    BY <1>6, IdleType DEF CheckRequired, TypeOK, Request, Saving
  <2>3. Todos' /\ Apart'
    BY <2>1, <2>2, ApartKept DEF FInv, Todos
  <2>4. QED
    BY <1>6, <2>1, <2>3, FileKept DEF CheckRequired, FInv
<1>7. CASE Render(r)
  <2>1. PICK view \in Views :
          \/ /\ req' = [req EXCEPT ![r].step = "open", ![r].draft = Lines(view)]
             /\ drafts' = drafts \cup {Draft(Lines(view), wizard)}
          \/ req' = [req EXCEPT ![r] = Idle] /\ UNCHANGED drafts
    BY <1>7 DEF Render
  <2>2. /\ \A q \in Requests \ {r} : req'[q] = req[q]
        /\ \/ /\ req'[r].step = "open" /\ req'[r].page = req[r].page /\ req'[r].draft = Lines(view)
              /\ drafts' = drafts \cup {Draft(Lines(view), wizard)}
           \/ req'[r] = Idle /\ drafts' = drafts
    BY <2>1 DEF TypeOK, Request
  <2>3. Todos' /\ Apart'
    <3>1. \A q \in Requests : req'[q].step = "store" => req'[q] = req[q]
      BY <2>2, IdleType
    <3>2. \A q \in Requests : req'[q].step \in Saving => req[q].step \in Saving /\ req'[q].page = req[q].page
      BY <1>7, <2>2, IdleType DEF Render, Saving
    <3>3. QED
      BY <3>1, <3>2, ApartKept DEF FInv, Todos
  <2>4. view["path"] = form["path"] /\ view["encryption_key"] = form["encryption_key"]
    <3>1. ASSUME NEW q \in Requests PROVE ~Storing(q, "path") /\ ~Storing(q, "encryption_key")
      <4>1. SUFFICES ASSUME NEW s, Storing(q, s) PROVE s \notin {"path", "encryption_key"}
        OBVIOUS
      <4>2. req[q].todo \in Seq(Settings) /\ req[q].todo # <<>> /\ req[q].step = "store"
        BY <4>1 DEF Storing, TypeOK, Request
      <4>3. 1 \in 1..Len(req[q].todo) /\ s = req[q].todo[1]
        BY <4>1, <4>2, EmptySeq DEF Storing
      <4>4. req[q].page = "secret"
        BY <1>7, <4>2 DEF Render, FInv, Apart, Saving
      <4>5. QED
        BY <4>2, <4>3, <4>4 DEF FInv, Todos, Todo
    <3>2. QED
      BY <3>1 DEF Views, Crossed, Settings
  <2>5. Lines(view)["path"] = form["path"] /\ Lines(view)["encryption_key"] = form["encryption_key"]
    BY <2>4 DEF Lines, Settings
  <2>6. UNCHANGED <<file, wizard, form>> /\ drafts \subseteq drafts'
    BY <1>7, <2>2 DEF Render
  <2>7. ASSUME NEW q \in Requests PROVE Rendered(q)'
    BY <2>2, <2>5, <2>6, IdleType DEF FInv, Rendered, Draft
  <2>8. OwnKey' /\ Whole'
    BY <2>2, <2>6, IdleType DEF FInv, OwnKey, Whole, Draft
  <2>9. QED
    BY <2>3, <2>7, <2>8 DEF FInv
<1>8. CASE Truncate(r)
  <2>1. /\ \A q \in Requests \ {r} : req'[q] = req[q]
        /\ \/ /\ req'[r].step = "write" /\ req'[r].page = req[r].page /\ req'[r].draft = req[r].draft
              /\ file'.lines = NoLines /\ file'.author = wizard
           \/ req'[r] = Idle /\ file' = file
    BY <1>8 DEF Truncate, TypeOK, Request
  <2>2. UNCHANGED <<wizard, form, drafts>> /\ req[r].step = "open"
    BY <1>8 DEF Truncate
  <2>3. Todos' /\ Apart'
    <3>1. \A q \in Requests : req'[q].step = "store" => req'[q] = req[q]
      BY <2>1, IdleType
    <3>2. \A q \in Requests : req'[q].step \in Saving => req[q].step \in Saving /\ req'[q].page = req[q].page
      BY <2>1, <2>2, IdleType DEF Saving
    <3>3. QED
      BY <3>1, <3>2, ApartKept DEF FInv, Todos
  <2>4. \A q \in Requests : Rendered(q)'
    BY <2>1, <2>2, IdleType DEF FInv, Rendered, Draft
  <2>5. NoLines["account_id"] = Absent
    BY DEF NoLines, Settings
  <2>6. OwnKey' /\ Whole'
    BY <2>1, <2>2, <2>5, IdleType DEF FInv, OwnKey, Whole, Draft
  <2>7. QED
    BY <2>3, <2>4, <2>6 DEF FInv
<1>9. CASE Write(r) \/ WriteShort(r)
  <2>1. req'[r] = Idle /\ \A q \in Requests \ {r} : req'[q] = req[q]
    BY <1>9 DEF Write, WriteShort, TypeOK
  <2>2. UNCHANGED <<wizard, form, drafts>> /\ req[r].step = "write"
    BY <1>9 DEF Write, WriteShort
  <2>3. PICK n \in 0..Len(configTemplate) : file' \in Overlaid(req[r].draft, n)
    BY <1>9, Template DEF Write, WriteShort
  <2>4. Todos' /\ Apart'
    <3>1. \A q \in Requests : req'[q].step \in Saving \cup {"store"} => req'[q] = req[q]
      BY <2>1, IdleType DEF Saving
    <3>2. QED
      BY <3>1, ApartKept DEF FInv, Todos, Saving
  <2>5. \A q \in Requests : Rendered(q)'
    BY <2>1, <2>2, IdleType DEF FInv, Rendered, Draft
  <2>6. file'.author = wizard
    BY <2>3, OverlaidLines
  <2>7. file'.lines["account_id"] # Absent =>
          /\ file'.lines["path"] = req[r].draft["path"]
          /\ file'.lines["encryption_key"] = req[r].draft["encryption_key"]
    BY <2>2, <2>3, OverlayWhole DEF FInv, Whole, Rendered
  <2>8. OwnKey' /\ Whole'
    BY <2>2, <2>6, <2>7 DEF FInv, OwnKey, Whole, Rendered, Draft
  <2>9. QED
    BY <2>4, <2>5, <2>8 DEF FInv
<1>10. QED
  BY <1>1, <1>2, <1>3, <1>4, <1>5, <1>6, <1>7, <1>8, <1>9 DEF RequestStep

(* The invariant holds in every reachable state.  *)
LEMMA FInductive == Spec => []FInv
<1>1. TypeOK /\ FInv /\ [Next]_vars => FInv'
  <2>1. ASSUME UNCHANGED vars, FInv PROVE FInv'
    BY <2>1 DEF vars, FInv, Todos, Todo, Apart, OwnKey, Rendered, Whole, Draft
  <2>2. QED
    BY <2>1, FProcess, FRequest DEF Next
<1>2. QED
  BY <1>1, FInit, TypeCorrect, PTL DEF Spec

(* A service runs on the path and the key of one text that was rendered, or    *)
(* written by hand, whatever writes of the file crossed or were cut short and  *)
(* whatever was exported when it started.                                      *)
THEOREM NoHalfFile == Spec => []ServesAsDrafted
<1>1. Init => ServesAsDrafted
  BY DEF Init, ServesAsDrafted
<1>2. TypeOK /\ FInv /\ ServesAsDrafted /\ [Next]_vars => ServesAsDrafted'
  <2> SUFFICES ASSUME TypeOK, FInv, ServesAsDrafted, [Next]_vars PROVE ServesAsDrafted'
    OBVIOUS
  <2>1. ASSUME NEW env \in Environments, Serve(env) PROVE ServesAsDrafted'
    <3> DEFINE cfg == Load(file, env)
    <3>1. cfg["account_id"] # Blank
      BY <2>1 DEF Serve, NeedsSetup, Required
    <3>2. file.readable /\ file.lines["account_id"] # Absent
      BY <3>1 DEF Load, FromEnv, Settings, Default
    <3>3. Draft(file.lines, file.author) \in drafts
      BY <3>2 DEF FInv, Whole
    <3>4. /\ cfg["path"] = IF file.lines["path"] = Absent THEN DefaultPath ELSE file.lines["path"]
          /\ cfg["encryption_key"] =
               IF env["encryption_key"] # Blank THEN env["encryption_key"]
               ELSE IF file.lines["encryption_key"] = Absent THEN Blank ELSE file.lines["encryption_key"]
      BY <3>2 DEF Load, FromEnv, Settings, Default
    <3>5. service' = [cfg |-> cfg, author |-> file.author, env |-> env["encryption_key"]]
          /\ UNCHANGED drafts
      BY <2>1 DEF Serve
    <3> HIDE DEF cfg
    <3>6. QED
      BY <3>3, <3>4, <3>5 DEF ServesAsDrafted, Draft
  <2>2. ASSUME service' = service \/ service' = NoService, drafts \subseteq drafts'
        PROVE  ServesAsDrafted'
    BY <2>2 DEF ServesAsDrafted
  <2>3. QED
    BY <2>1, <2>2
       DEF Next, ProcessStep, RequestStep, LaunchWizard, StopWizard, Seal, StopService, PostPage,
           SaveZoomSecret, PostSave, Arrive, Store, Collide, CheckRequired, Render, Truncate,
           Write, WriteShort, vars
<1>3. QED
  BY <1>1, <1>2, TypeCorrect, FInductive, PTL DEF Spec
-----------------------------------------------------------------------------
(* What a Save leaves.                                                         *)

(* No required setting of a text is missing.  *)
Complete(text) == \A s \in Required : text[s] \notin {Blank, Absent}

(* The form that handleSave has checked stays complete until it is rendered,   *)
(* and so is what it renders, and the file when it is written alone.           *)
Checked == \A r \in Requests : req[r].step = "render" => \A s \in Required : form[s] # Blank
Ready(r) == req[r].step \in {"open", "write"} => Complete(req[r].draft)
Kept == saved /\ (\A s \in Settings : file.lines[s] # Mixed) => file.readable /\ Complete(file.lines)

RInv == Checked /\ (\A r \in Requests : Ready(r)) /\ Kept

(* A step that renders and writes nothing, and blanks nothing that was checked, *)
(* keeps the invariant.                                                        *)
LEMMA RKept ==
  ASSUME RInv, UNCHANGED <<file, saved>>,
         \A q \in Requests : req'[q].step = "render" => req[q].step = "render",
         \A q \in Requests : req'[q].step \in {"open", "write"} => req'[q] = req[q],
         (\E q \in Requests : req[q].step = "render") =>
           \A s \in Required : form[s] # Blank => form'[s] # Blank
  PROVE  RInv'
<1>1. Checked'
  BY DEF RInv, Checked
<1>2. ASSUME NEW r \in Requests PROVE Ready(r)'
  BY DEF RInv, Ready, Complete
<1>3. Kept'
  BY DEF RInv, Kept, Complete
<1>4. QED
  BY <1>1, <1>2, <1>3 DEF RInv

(* While a form is being saved, only a secret is stored, and no empty one.  *)
LEMMA OnlySecret ==
  ASSUME TypeOK, FInv, NEW q \in Requests, req[q].step = "render",
         NEW r \in Requests, NEW s, Storing(r, s)
  PROVE  s = "webhook_secret" /\ req[r].form[s] # Blank
<1>1. req[r].todo \in Seq(Settings) /\ req[r].todo # <<>> /\ req[r].step = "store"
  BY DEF Storing, TypeOK, Request
<1>2. 1 \in 1..Len(req[r].todo) /\ s = req[r].todo[1]
  BY <1>1, EmptySeq DEF Storing
<1>3. req[r].page = "secret"
  BY <1>1 DEF FInv, Apart, Saving
<1>4. QED
  BY <1>1, <1>2, <1>3 DEF FInv, Todos, Todo

(* The initial states satisfy the invariant.  *)
LEMMA RInit == Init => RInv
<1> SUFFICES ASSUME Init PROVE RInv
  OBVIOUS
<1>1. \A r \in Requests : req[r].step = "idle"
  BY IdleType DEF Init
<1>2. saved = FALSE
  BY DEF Init
<1>3. QED
  BY <1>1, <1>2 DEF RInv, Checked, Ready, Kept

(* The steps of processes keep it.  *)
LEMMA RProcess == ASSUME TypeOK, RInv, ProcessStep PROVE RInv'
<1>1. ASSUME NEW env \in Environments, LaunchWizard(env) PROVE RInv'
  <2>1. \A r \in Requests : req[r].step = "idle"
    BY <1>1 DEF LaunchWizard, TypeOK
  <2>2. UNCHANGED <<file, saved, req>>
    BY <1>1 DEF LaunchWizard
  <2>3. QED
    BY <2>1, <2>2, RKept
<1>2. CASE StopWizard
  <2>1. \A r \in Requests : req'[r].step = "idle"
    BY <1>2, IdleType DEF StopWizard
  <2>2. UNCHANGED <<file, saved, form>>
    BY <1>2 DEF StopWizard
  <2>3. QED
    BY <2>1, <2>2, RKept
<1>3. ASSUME UNCHANGED <<file, saved, form, req>> PROVE RInv'
  BY <1>3, RKept
<1>4. QED
  BY <1>1, <1>2, <1>3 DEF ProcessStep, Serve, Seal, StopService

(* An arriving request renders nothing yet.  *)
LEMMA RArrive ==
  ASSUME TypeOK, RInv, NEW r \in Requests, NEW page, NEW f, NEW step \in {"store", "check"}, NEW todo,
         Arrive(r, page, f, step, todo)
  PROVE  RInv'
<1> DEFINE rq == [Idle EXCEPT !.step = step, !.page = page, !.form = f, !.todo = todo]
<1>1. rq.step = step
  BY DEF Idle
<1>2. req' = [req EXCEPT ![r] = rq] /\ UNCHANGED <<file, saved, form>>
  BY DEF Arrive
<1> HIDE DEF rq
<1>3. req'[r].step = step /\ \A q \in Requests \ {r} : req'[q] = req[q]
  BY <1>1, <1>2 DEF TypeOK
<1>4. QED
  BY <1>2, <1>3, RKept

(* The whole template leaves nothing of what was there.  *)
LEMMA OverlayAll ==
  ASSUME NEW draft
  PROVE  \A s \in Settings : Overlay(draft, Len(configTemplate))[s] = draft[s]
<1>1. Len(configTemplate) = 8
  BY DEF configTemplate
<1>2. \A s \in Settings : \E i \in 1..8 : configTemplate[i] = s
  <2>1. /\ configTemplate[1] = "url" /\ configTemplate[2] = "path"
        /\ configTemplate[3] = "encryption_key" /\ configTemplate[4] = "webhook_secret"
        /\ configTemplate[5] = "account_id" /\ configTemplate[6] = "client"
        /\ configTemplate[7] = "slack" /\ configTemplate[8] = "api_key"
    BY DEF configTemplate
  <2>2. {1, 2, 3, 4, 5, 6, 7, 8} \subseteq 1..8
    OBVIOUS
  <2>3. QED
    BY <2>1, <2>2 DEF Settings
<1>3. QED
  BY <1>1, <1>2 DEF Overlay

(* The steps of requests keep the invariant.  *)
LEMMA RRequest == ASSUME TypeOK, FInv, RInv, NEW r \in Requests, RequestStep(r) PROVE RInv'
<1>1. ASSUME NEW page \in Pages \ {"secret"}, NEW f \in Forms[page], PostPage(r, page, f)
      PROVE  RInv'
  BY <1>1, RArrive DEF PostPage
<1>2. ASSUME NEW f \in Forms["secret"], SaveZoomSecret(r, f) PROVE RInv'
  BY <1>2, RArrive DEF SaveZoomSecret
<1>3. CASE PostSave(r)
  BY <1>3, RArrive DEF PostSave
<1>4. CASE Store(r)
  <2>1. Todo(req[r]) /\ req[r].step = "store" /\ req[r] \in Request /\ req[r].todo # <<>>
    BY <1>4 DEF Store, FInv, Todos, TypeOK
  <2>2. Stored(req[r]).step \notin Saving
    BY <2>1, StoredTodo
  <2>3. req'[r] = Stored(req[r]) /\ \A q \in Requests \ {r} : req'[q] = req[q]
    BY <1>4 DEF Store, TypeOK
  <2> DEFINE s == Head(req[r].todo)
  <2>4. Storing(r, s) /\ form' = [form EXCEPT ![s] = req[r].form[s]] /\ UNCHANGED <<file, saved>>
    BY <1>4 DEF Store, Storing
  <2> HIDE DEF s
  <2>5. ASSUME NEW q \in Requests, req[q].step = "render", NEW t \in Required, form[t] # Blank
        PROVE  form'[t] # Blank
    BY <2>4, <2>5, OnlySecret DEF TypeOK, Required, Settings
  <2>6. QED
    BY <2>2, <2>3, <2>4, <2>5, RKept DEF Saving
<1>5. ASSUME NEW q \in Requests, Collide(q, r) PROVE RInv'
  <2>1. PICK s \in Settings : Storing(q, s) /\ Storing(r, s) /\ form' = [form EXCEPT ![s] = Mixed]
    BY <1>5 DEF Collide
  <2>2. ASSUME NEW o \in {q, r} PROVE Stored(req[o]).step \notin Saving
    BY <2>1, StoredTodo DEF Storing, FInv, Todos, TypeOK
  <2>3. /\ \A o \in {q, r} : req'[o] = Stored(req[o])
        /\ \A o \in Requests \ {q, r} : req'[o] = req[o]
    BY <1>5 DEF Collide, TypeOK
  <2>4. UNCHANGED <<file, saved>>
    BY <1>5 DEF Collide
  <2>5. \A t \in Required : form[t] # Blank => form'[t] # Blank
    BY <2>1, SetupAssumption DEF TypeOK, Required, Settings
  <2>6. QED
    BY <2>2, <2>3, <2>4, <2>5, RKept DEF Saving
<1>6. CASE CheckRequired(r)
  <2>1. /\ \A q \in Requests \ {r} : req'[q] = req[q]
        /\ req'[r].step = "idle" \/ (req'[r].step = "render" /\ \A s \in Required : form[s] # Blank)
    BY <1>6, IdleType DEF CheckRequired, TypeOK, Request
  <2>2. UNCHANGED <<file, saved, form>>
    BY <1>6 DEF CheckRequired
  <2>3. QED
    BY <2>1, <2>2 DEF RInv, Checked, Ready, Kept, Complete
<1>7. CASE Render(r)
  <2>1. PICK view \in Views :
          \/ req' = [req EXCEPT ![r].step = "open", ![r].draft = Lines(view)]
          \/ req' = [req EXCEPT ![r] = Idle]
    BY <1>7 DEF Render
  <2>2. /\ \A q \in Requests \ {r} : req'[q] = req[q]
        /\ (req'[r].step = "open" /\ req'[r].draft = Lines(view)) \/ req'[r].step = "idle"
    BY <2>1, IdleType DEF TypeOK, Request
  <2>3. UNCHANGED <<file, saved, form>> /\ req[r].step = "render"
    BY <1>7 DEF Render
  <2>4. Complete(Lines(view))
    <3>1. ASSUME NEW s \in Required PROVE s \in Settings /\ s # "client"
      BY DEF Required, Settings
    <3>2. ASSUME NEW s \in Required PROVE view[s] # Blank
      <4>1. form[s] # Blank
        BY <2>3 DEF RInv, Checked
      <4>2. view[s] \in {form[s], Mixed}
        BY <3>1 DEF Views, Crossed
      <4>3. QED
        BY <4>1, <4>2, SetupAssumption
    <3>3. ASSUME NEW s \in Required PROVE view[s] # Absent
      BY <3>1, LinesType, SetupAssumption
    <3>4. QED
      BY <3>1, <3>2, <3>3 DEF Lines, Complete
  <2>5. Checked' /\ Kept'
    BY <2>2, <2>3 DEF RInv, Checked, Kept, Complete
  <2>6. ASSUME NEW q \in Requests PROVE Ready(q)'
    BY <2>2, <2>4 DEF RInv, Ready, Complete
  <2>7. QED
    BY <2>5, <2>6 DEF RInv
<1>8. CASE Truncate(r)
  <2>1. /\ \A q \in Requests \ {r} : req'[q] = req[q]
        /\ \/ req'[r].step = "write" /\ req'[r].draft = req[r].draft /\ saved' = FALSE
           \/ req'[r].step = "idle" /\ UNCHANGED <<file, saved>>
    BY <1>8, IdleType DEF Truncate, TypeOK, Request
  <2>2. UNCHANGED form /\ req[r].step = "open"
    BY <1>8 DEF Truncate
  <2>3. Checked'
    BY <2>1, <2>2 DEF RInv, Checked
  <2>4. Kept'
    BY <2>1 DEF RInv, Kept, Complete
  <2>5. ASSUME NEW q \in Requests PROVE Ready(q)'
    BY <2>1, <2>2 DEF RInv, Ready, Complete
  <2>6. QED
    BY <2>3, <2>4, <2>5 DEF RInv
<1>9. CASE Write(r)
  <2>1. req'[r].step = "idle" /\ (\A q \in Requests \ {r} : req'[q] = req[q]) /\ UNCHANGED form
    BY <1>9, IdleType DEF Write, TypeOK
  <2>2. Checked' /\ (\A q \in Requests : Ready(q)')
    BY <2>1 DEF RInv, Checked, Ready, Complete
  <2>3. ASSUME saved', \A s \in Settings : file'.lines[s] # Mixed
        PROVE  file'.readable /\ Complete(file'.lines)
    <3> DEFINE draft == req[r].draft
    <3>1. file' \in Overlaid(draft, Len(configTemplate)) /\ file.lines = NoLines /\ file.readable
      BY <1>9, <2>3 DEF Write
    <3>2. Complete(draft)
      BY <1>9 DEF RInv, Ready, Write
    <3> HIDE DEF draft
    <3>3. file'.lines = Overlay(draft, Len(configTemplate))
      BY <3>1, OverlaidLines
    <3>4. Intact(draft, Len(configTemplate))
      BY <2>3, <3>1, <3>3 DEF Intact
    <3>5. file'.readable
      BY <3>1, <3>4, OverlaidLines
    <3>6. Complete(file'.lines)
      BY <3>2, <3>3, OverlayAll DEF Complete, Required, Settings
    <3>7. QED
      BY <3>5, <3>6
  <2>4. QED
    BY <2>2, <2>3 DEF RInv, Kept, Complete
<1>10. CASE WriteShort(r)
  <2>1. req'[r].step = "idle" /\ (\A q \in Requests \ {r} : req'[q] = req[q]) /\ UNCHANGED form
    BY <1>10, IdleType DEF WriteShort, TypeOK
  <2>2. saved' = FALSE
    BY <1>10 DEF WriteShort
  <2>3. QED
    BY <2>1, <2>2 DEF RInv, Checked, Ready, Kept, Complete
<1>11. QED
  BY <1>1, <1>2, <1>3, <1>4, <1>5, <1>6, <1>7, <1>8, <1>9, <1>10 DEF RequestStep

(* After a Save that was answered and met no other, and no race in the form,   *)
(* the next start serves, whatever is exported: the required settings that     *)
(* handleSave checked are those that WriteConfig wrote.                        *)
THEOREM SaveEndsSetup == Spec => []SavedIsReady
<1>1. TypeOK /\ FInv /\ RInv /\ [Next]_vars => RInv'
  <2>1. ASSUME UNCHANGED vars, RInv PROVE RInv'
    BY <2>1, RKept DEF vars
  <2>2. QED
    BY <2>1, RProcess, RRequest DEF Next
<1>2. RInv => SavedIsReady
  <2> SUFFICES ASSUME RInv, saved, \A s \in Settings : file.lines[s] # Mixed,
                      NEW env \in Environments, NEW s \in Required
               PROVE  Load(file, env)[s] # Blank
    BY DEF SavedIsReady, NeedsSetup
  <2>1. file.readable /\ file.lines[s] \notin {Blank, Absent}
    BY DEF RInv, Kept, Complete
  <2>2. QED
    BY <2>1 DEF Load, Required, Settings
<1>3. QED
  BY <1>1, <1>2, RInit, TypeCorrect, FInductive, PTL DEF Spec
-----------------------------------------------------------------------------
(* What a key opens.                                                           *)

(* A key of a wizard stands for one that was launched.  *)
Numbered ==
  /\ wizard \in {0, launched}
  /\ file.lines["encryption_key"] \in Wizards => file.lines["encryption_key"] \in 1..launched

Writing == \E r \in Requests : req[r].step = "write"

(* The keys that secrets are or may at any time be sealed with.  *)
InUse == sealed \cup (IF service = NoService THEN {} ELSE {service.cfg["encryption_key"]})

(* The key that is in use is in the file, or about to be written there again.  *)
OneKey ==
  launched <= 1 /\ ~spoiled =>
    \A k \in InUse \cap Wizards : file.lines["encryption_key"] = k \/ (Writing /\ k = launched)

KInv == Numbered /\ OneKey

(* The initial states satisfy the invariant.  *)
LEMMA KInit == Init => KInv
<1> SUFFICES ASSUME Init PROVE KInv
  OBVIOUS
<1>1. InUse = {} /\ wizard = 0 /\ launched = 0
  BY DEF Init, InUse
<1>2. PICK lines \in HandWritten : file.lines = lines
  BY DEF Init
<1>3. lines["encryption_key"] \in Values \cup {Blank, Absent}
  BY SetupAssumption DEF Settings
<1>4. lines["encryption_key"] \notin Wizards
  BY <1>3, SetupAssumption DEF Texts
<1>5. QED
  BY <1>1, <1>2, <1>4 DEF KInv, Numbered, OneKey

(* A step that leaves file, keys and writes alone keeps it.  *)
LEMMA KKept ==
  ASSUME KInv, UNCHANGED <<file, wizard, launched, sealed, service>>,
         spoiled' = spoiled, Writing' = Writing
  PROVE  KInv'
<1>1. InUse' = InUse
  BY DEF InUse
<1>2. QED
  BY <1>1 DEF KInv, Numbered, OneKey

(* The steps of processes keep it.  *)
LEMMA KProcess == ASSUME TypeOK, KInv, ProcessStep PROVE KInv'
<1>1. ASSUME NEW env \in Environments, LaunchWizard(env) PROVE KInv'
  <2>1. wizard' = launched + 1 /\ launched' = launched + 1 /\ UNCHANGED <<file, sealed, service>>
    BY <1>1 DEF LaunchWizard
  <2>2. launched \in Nat
    BY SetupAssumption DEF TypeOK, Wizards
  <2>3. Numbered'
    BY <2>1, <2>2 DEF KInv, Numbered
  <2>4. OneKey'
    <3>1. SUFFICES ASSUME launched = 0, ~spoiled, NEW k \in InUse \cap Wizards PROVE FALSE
      BY <1>1, <2>1, <2>2 DEF OneKey, InUse, LaunchWizard
    <3>2. file.lines["encryption_key"] = k \/ k = launched
      BY <3>1 DEF KInv, OneKey
    <3>3. QED
      BY <3>1, <3>2 DEF KInv, Numbered, Wizards
  <2>5. QED
    BY <2>3, <2>4 DEF KInv
<1>2. CASE StopWizard
  <2>1. /\ wizard' = 0 /\ UNCHANGED <<file, launched, sealed, service>>
        /\ spoiled' = (spoiled \/ Writing)
    BY <1>2 DEF StopWizard, Writing
  <2>2. InUse' = InUse
    BY <2>1 DEF InUse
  <2>3. QED
    BY <2>1, <2>2 DEF KInv, Numbered, OneKey
<1>3. ASSUME NEW env \in Environments, Serve(env) PROVE KInv'
  <2> DEFINE key == Load(file, env)["encryption_key"]
  <2>1. /\ service' = [cfg |-> Load(file, env), author |-> file.author, env |-> env["encryption_key"]]
        /\ UNCHANGED <<file, wizard, launched, req, sealed, spoiled>>
    BY <1>3 DEF Serve
  <2>2. InUse' \subseteq InUse \cup {key}
    BY <2>1 DEF InUse
  <2>3. key \in Wizards => key = file.lines["encryption_key"]
    <3>1. env["encryption_key"] \in Values \cup {Blank}
      BY SetupAssumption DEF Form, Settings
    <3>2. env["encryption_key"] \notin Wizards /\ Blank \notin Wizards
      BY <3>1, SetupAssumption
    <3>3. key \in {env["encryption_key"], file.lines["encryption_key"], Blank}
      BY DEF Load, Settings, Default
    <3> HIDE DEF key
    <3>4. QED
      BY <3>2, <3>3
  <2> HIDE DEF key
  <2>4. Writing' = Writing
    BY <2>1 DEF Writing
  <2>5. QED
    BY <2>1, <2>2, <2>3, <2>4 DEF KInv, Numbered, OneKey
<1>4. CASE Seal
  <2>1. /\ sealed' \subseteq sealed \cup {service.cfg["encryption_key"]} /\ service # NoService
        /\ UNCHANGED <<file, wizard, launched, req, service, spoiled>>
    BY <1>4 DEF Seal
  <2>2. InUse' \subseteq InUse /\ Writing' = Writing
    BY <2>1 DEF InUse, Writing
  <2>3. QED
    BY <2>1, <2>2 DEF KInv, Numbered, OneKey
<1>5. CASE StopService
  <2>1. service' = NoService /\ UNCHANGED <<file, wizard, launched, req, sealed, spoiled>>
    BY <1>5 DEF StopService
  <2>2. InUse' \subseteq InUse /\ Writing' = Writing
    BY <2>1 DEF InUse, Writing
  <2>3. QED
    BY <2>1, <2>2 DEF KInv, Numbered, OneKey
<1>6. QED
  BY <1>1, <1>2, <1>3, <1>4, <1>5 DEF ProcessStep

(* A request that neither was nor is writing leaves the writes as they are.  *)
LEMMA WritingKept ==
  ASSUME NEW S \in SUBSET Requests, \A q \in Requests \ S : req'[q] = req[q],
         \A q \in S : req[q].step # "write" /\ req'[q].step # "write"
  PROVE  Writing' = Writing
  BY DEF Writing

(* The steps of requests keep the invariant.  *)
LEMMA KRequest == ASSUME TypeOK, FInv, KInv, NEW r \in Requests, RequestStep(r) PROVE KInv'
<1>1. ASSUME NEW page, NEW f, NEW step \in {"store", "check"}, NEW todo, Arrive(r, page, f, step, todo)
      PROVE  KInv'
  <2> DEFINE rq == [Idle EXCEPT !.step = step, !.page = page, !.form = f, !.todo = todo]
  <2>1. rq.step = step
    BY DEF Idle
  <2>2. req' = [req EXCEPT ![r] = rq] /\ req[r].step = "idle"
        /\ UNCHANGED <<file, wizard, launched, sealed, service, spoiled>>
    BY <1>1 DEF Arrive
  <2> HIDE DEF rq
  <2>3. req'[r].step = step /\ \A q \in Requests \ {r} : req'[q] = req[q]
    BY <2>1, <2>2 DEF TypeOK
  <2>4. Writing' = Writing
    BY <2>2, <2>3, WritingKept
  <2>5. QED
    BY <2>2, <2>4, KKept
<1>2. (\E page \in Pages \ {"secret"} : \E f \in Forms[page] : PostPage(r, page, f))
        \/ (\E f \in Forms["secret"] : SaveZoomSecret(r, f)) \/ PostSave(r) => KInv'
  BY <1>1 DEF PostPage, SaveZoomSecret, PostSave
<1>3. CASE Store(r)
  <2>1. Todo(req[r]) /\ req[r].step = "store" /\ req[r] \in Request /\ req[r].todo # <<>>
    BY <1>3 DEF Store, FInv, Todos, TypeOK
  <2>2. Stored(req[r]).step \notin Saving
    BY <2>1, StoredTodo
  <2>3. req'[r] = Stored(req[r]) /\ \A q \in Requests \ {r} : req'[q] = req[q]
    BY <1>3 DEF Store, TypeOK
  <2>4. req[r].step # "write" /\ req'[r].step # "write"
    BY <2>1, <2>2, <2>3 DEF Saving
  <2>5. \A q \in Requests : req'[q].step = "write" <=> req[q].step = "write"
    BY <2>3, <2>4
  <2>6. Writing' = Writing
    BY <2>5 DEF Writing
  <2>7. QED
    BY <1>3, <2>6, KKept DEF Store
<1>4. ASSUME NEW q \in Requests, Collide(q, r) PROVE KInv'
  <2>1. PICK s \in Settings : Storing(q, s) /\ Storing(r, s)
    BY <1>4 DEF Collide
  <2>2. ASSUME NEW o \in {q, r} PROVE req[o].step = "store" /\ Stored(req[o]).step \notin Saving
    BY <2>1, StoredTodo DEF Storing, FInv, Todos, TypeOK
  <2>3. /\ \A o \in {q, r} : req'[o] = Stored(req[o])
        /\ \A o \in Requests \ {q, r} : req'[o] = req[o]
    BY <1>4 DEF Collide, TypeOK
  <2>4. Writing' = Writing
    BY <2>2, <2>3, WritingKept DEF Saving
  <2>5. QED
    BY <1>4, <2>4, KKept DEF Collide
<1>5. CASE CheckRequired(r) \/ Render(r)
  <2>1. /\ req[r].step # "write" /\ req'[r].step # "write"
        /\ \A q \in Requests \ {r} : req'[q] = req[q]
    BY <1>5, IdleType DEF CheckRequired, Render, TypeOK, Request
  <2>2. Writing' = Writing
    BY <2>1, Zenon DEF Writing
  <2>3. QED
    BY <1>5, <2>2, KKept DEF CheckRequired, Render
<1>6. CASE Truncate(r)
  <2>1. UNCHANGED <<wizard, launched, sealed, service, spoiled>> /\ req[r].step = "open"
    BY <1>6 DEF Truncate
  <2>2. \/ req'[r].step = "write" /\ file'.lines = NoLines
        \/ UNCHANGED file /\ req'[r].step = "idle" /\ \A q \in Requests \ {r} : req'[q] = req[q]
    BY <1>6, IdleType DEF Truncate, TypeOK, Request
  <2>3. CASE UNCHANGED file /\ req'[r].step = "idle" /\ \A q \in Requests \ {r} : req'[q] = req[q]
    BY <2>1, <2>3, WritingKept, KKept
  <2>4. CASE req'[r].step = "write" /\ file'.lines = NoLines
    <3>1. Writing' /\ file'.lines["encryption_key"] = Absent
      BY <2>4 DEF Writing, NoLines, Settings
    <3>2. Absent \notin Wizards
      BY SetupAssumption DEF Texts
    <3>3. Numbered'
      BY <2>1, <3>1, <3>2 DEF KInv, Numbered
    <3>4. InUse' = InUse
      BY <2>1 DEF InUse
    <3>5. ASSUME launched <= 1, ~spoiled, NEW k \in InUse \cap Wizards PROVE k = launched
      <4>1. file.lines["encryption_key"] = k \/ k = launched
        BY <3>5 DEF KInv, OneKey
      <4>2. k \in 1..launched \/ k = launched
        BY <4>1 DEF KInv, Numbered
      <4>3. k \in Nat /\ launched \in Nat
        BY SetupAssumption DEF Wizards, TypeOK
      <4>4. QED
        BY <3>5, <4>2, <4>3
    <3>6. OneKey'
      BY <2>1, <3>1, <3>4, <3>5 DEF OneKey
    <3>7. QED
      BY <3>3, <3>6 DEF KInv
  <2>5. QED
    BY <2>2, <2>3, <2>4
<1>7. CASE Write(r) \/ WriteShort(r)
  <2>1. UNCHANGED <<wizard, launched, sealed, service>> /\ req[r].step = "write"
    BY <1>7 DEF Write, WriteShort
  <2>2. PICK n \in 0..Len(configTemplate) : file' \in Overlaid(req[r].draft, n)
    BY <1>7, Template DEF Write, WriteShort
  <2>3. wizard \in Wizards /\ wizard = launched /\ launched \in Nat /\ wizard # 0
    BY <2>1, Running, SetupAssumption DEF KInv, Numbered, Wizards, TypeOK
  <2>4. req[r].draft["encryption_key"] = launched
    BY <2>1, <2>3 DEF FInv, Rendered, OwnKey
  <2>5. file'.lines["encryption_key"] \in {launched, file.lines["encryption_key"]}
    <3>1. file'.lines = Overlay(req[r].draft, n)
      BY <2>2, OverlaidLines
    <3>2. QED
      BY <2>4, <3>1 DEF Overlay, Settings
  <2>6. Numbered'
    BY <2>1, <2>3, <2>5 DEF KInv, Numbered
  <2>7. OneKey'
    <3>1. CASE WriteShort(r)
      BY <3>1 DEF WriteShort, OneKey
    <3>2. CASE Write(r)
      <4>1. file'.lines["encryption_key"] = launched
        <5>1. file'.lines = Overlay(req[r].draft, Len(configTemplate))
          BY <3>2, OverlaidLines DEF Write
        <5>2. QED
          BY <2>4, <5>1, OverlayAll DEF Settings
      <4>2. spoiled' = (spoiled \/ file.lines # NoLines) /\ InUse' = InUse
        BY <2>1, <3>2 DEF Write, InUse
      <4>3. ASSUME launched <= 1, ~spoiled, NEW k \in InUse \cap Wizards PROVE k = launched
        <5>1. file.lines["encryption_key"] = k \/ k = launched
          BY <4>3 DEF KInv, OneKey
        <5>2. k \in 1..launched \/ k = launched
          BY <5>1 DEF KInv, Numbered
        <5>3. k \in Nat
          BY DEF Wizards
        <5>4. QED
          BY <2>3, <4>3, <5>2, <5>3
      <4>4. QED
        BY <2>1, <4>1, <4>2, <4>3 DEF OneKey
    <3>3. QED
      BY <1>7, <3>1, <3>2
  <2>8. QED
    BY <2>6, <2>7 DEF KInv
<1>8. QED
  BY <1>2, <1>3, <1>4, <1>5, <1>6, <1>7 DEF RequestStep

(* With one wizard and no write that was cut short or crossed another, what    *)
(* services have encrypted with its key can be opened with the file it leaves, *)
(* however often it has saved.                                                 *)
THEOREM KeyIsKept == Spec => []OneWizardKeepsTheKey
<1>1. TypeOK /\ FInv /\ KInv /\ [Next]_vars => KInv'
  <2>1. ASSUME UNCHANGED vars, KInv PROVE KInv'
    BY <2>1 DEF vars, KInv, Numbered, OneKey, InUse, Writing
  <2>2. QED
    BY <2>1, KProcess, KRequest DEF Next
<1>2. TypeOK /\ KInv => OneWizardKeepsTheKey
  <2> SUFFICES ASSUME TypeOK, KInv, launched <= 1, ~spoiled, wizard = 0, NEW k \in sealed \cap Wizards
               PROVE  file.lines["encryption_key"] = k
    BY DEF OneWizardKeepsTheKey
  <2>1. ~Writing
    BY DEF TypeOK, Writing
  <2>2. QED
    BY <2>1 DEF KInv, OneKey, InUse
<1>3. QED
  BY <1>1, <1>2, KInit, TypeCorrect, FInductive, PTL DEF Spec
=============================================================================
