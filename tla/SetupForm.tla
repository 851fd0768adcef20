----------------------------- MODULE SetupForm -----------------------------
(***************************************************************************)
(* The add-a-shade form over the broker: the flow (somfy-mqtt/src/flow.rs) *)
(* a press or a typed value moves at once, the effects it leaves for later *)
(* and the session loop that carries them out (firmware/src/mqtt.rs), what *)
(* the broker keeps of the form (somfy-mqtt/src/lifecycle.rs), and the     *)
(* shade table the asks reach through the rpc seam                         *)
(* (firmware/src/tasks.rs, apply_edit).                                    *)
(*                                                                         *)
(* The configs of the eight form entities are one publication here and so  *)
(* are the tombstones of their values. A publication is on the broker when *)
(* it is sent; until its acknowledgement is read, what arrives is          *)
(* dispatched. A call of the rpc seam holds the session still.             *)
(***************************************************************************)
EXTENDS Naturals, Sequences, FiniteSets

CONSTANTS Words,       \* names that fit a shade record
          FormKinds,   \* kinds of shade, the first of a draft among them
          Roller,      \* that kind
          Typed,       \* travel times in range
          Blank,       \* nothing typed, no shade, no ask
          Places,      \* slots of the registry
          QUEUE,       \* effects that can wait
          CHAIN,       \* asks one effect may lead to
          MaxInputs,   \* bound: what arrives from the broker
          MaxVisits,   \* bound: edits of the table from the web
          MaxBreaks    \* bound: lost sessions, restarts, refusals and late answers

FormSlots == 0..Places - 1
Fields == {"name", "kind", "up", "down"}
Messages == {"drafting", "awaitingReport", "needsName", "needsTimes", "nameTooLong",
             "registryFull", "refused"}
FreshDraft == [name |-> Blank, kind |-> Roller, up |-> Blank, down |-> Blank]
Drafts == [name : Words \cup {Blank}, kind : FormKinds,
           up : Typed \cup {Blank}, down : Typed \cup {Blank}]

Presses == {"begin", "send", "confirm", "discard"}
\* What the topics of the form accept; what does not decode is not an input.
Arrivals == [is : Presses]
            \cup [is : {"name"}, value : Words \cup {Blank, "tooLong"}]
            \cup [is : {"kind"}, value : FormKinds \cup {"unknown"}]
            \cup [is : {"up", "down"}, value : Typed \cup {"unusable"}]

Create == [is |-> "create"]
On(op, id) == [is |-> op, id |-> id]
Effect(form, ask) == [form |-> form, ask |-> ask]

Ops == {"pair", "confirm", "amend", "abandon"}
Asks == {Create} \cup [is : Ops, id : FormSlots]
Effects == [form : {"unchanged", "open", "close"}, ask : Asks \cup {Blank}]
\* An effect being carried out: its ask, what became of the form, the asks it may still lead to.
Chains == [ask : Asks, opened : BOOLEAN, closed : BOOLEAN, left : Nat]

ASSUME FormAssumption ==
    /\ Words # {} /\ Roller \in FormKinds /\ Typed # {}
    /\ Places \in Nat /\ QUEUE \in Nat /\ CHAIN \in Nat \ {0}
    /\ Blank \notin Words /\ Blank \notin FormKinds /\ Blank \notin Typed
    /\ Blank \notin FormSlots /\ Blank \notin Messages
    /\ Blank \notin Asks /\ Blank \notin Chains

VARIABLES setup,   \* the flow: its phase, its shade, the draft, the message, what it made
          effects, \* effects not yet carried out
          chain,   \* the effect being carried out, or Blank
          plan,    \* what the session still has to publish
          settling,\* the first step of the plan is sent and not acknowledged
          joined,  \* a session is established
          form_dirty, \* the broker may hold a form this boot knows nothing of
          shown,   \* what the broker keeps of the form
          shades,  \* the shade table: what each slot holds, or Blank
          raised,  \* a request whose caller has given up, or Blank
          marks,   \* what has gone wrong since the boot
          spent    \* inputs, visits and breaks so far

formVars == <<setup, effects, chain, plan, settling, joined, form_dirty, shown, shades, raised,
              marks, spent>>

Open == setup.phase # "idle"
Unshown == [configs |-> FALSE, message |-> Blank, name |-> Blank, kind |-> Blank,
            up |-> Blank, down |-> Blank]
NewSetup == [phase |-> "idle", shade |-> Blank, draft |-> FreshDraft,
             message |-> "drafting", created |-> Blank]

Spend(what, most) == spent[what] < most /\ spent' = [spent EXCEPT ![what] = @ + 1]

-----------------------------------------------------------------------------
(* The flow. Each operator is the flow after an input and its effect.      *)

Out(s, form, ask) == [setup |-> s, effect |-> Effect(form, ask)]
Nothing(s) == Out(s, "unchanged", Blank)
Say(s, message) == Nothing([s EXCEPT !.message = message])

Blocker(draft) == CASE draft.name = Blank -> "needsName"
                    [] draft.name # Blank /\ Blank \in {draft.up, draft.down} -> "needsTimes"
                    [] OTHER -> Blank

StepMessage(s) == IF s.phase = "awaiting" THEN "awaitingReport" ELSE "drafting"

\* What cannot be used leaves the draft; only a name too long is said to be.
Parsed(input) == input.value \notin {"tooLong", "unknown", "unusable"}
Entered(s, input) ==
    IF ~Parsed(input)
    THEN IF input.value = "tooLong" THEN [s EXCEPT !.message = "nameTooLong"] ELSE s
    ELSE [s EXCEPT !.draft[input.is] = input.value, !.message = StepMessage(s)]

\* The draft and the claim to a shade go with the setup.
Close(s) == Out(NewSetup, "close", Blank)

\* Only a shade this flow made, and only the one it stands at.
Abandon(s) == IF s.created = s.shade THEN On("abandon", s.created) ELSE Blank

ApplyIdle(s, input) ==
    IF input.is = "begin" THEN Out([NewSetup EXCEPT !.phase = "drafting"], "open", Blank)
                          ELSE Nothing(s)

ApplyDrafting(s, input) ==
    CASE input.is = "begin" -> Out(s, "open", Blank)
      [] input.is \in Fields -> Nothing(Entered(s, input))
      [] input.is = "send" -> IF Blocker(s.draft) # Blank
                              THEN Say(s, Blocker(s.draft))
                              ELSE Out(s, "unchanged", Create)
      [] input.is = "confirm" -> Say(s, "drafting")
      [] input.is = "discard" -> Close(s)
      [] input.is = "created" -> Out([s EXCEPT !.phase = "awaiting", !.shade = input.id,
                                               !.created = input.id,
                                               !.message = "awaitingReport"],
                                     "unchanged", On("pair", input.id))
      [] input.is = "refused" -> Say(s, input.message)
      [] OTHER -> Nothing(s)

ApplyAwaiting(s, input) ==
    CASE input.is = "begin" -> Out(s, "open", Blank)
      [] input.is \in Fields ->
            LET next == Entered(s, input)
            IN Out(next, "unchanged",
                   IF next.draft # s.draft THEN On("amend", s.shade) ELSE Blank)
      [] input.is = "send" -> Out([s EXCEPT !.message = "awaitingReport"], "unchanged",
                                  On("pair", s.shade))
      [] input.is = "confirm" -> Out(s, "unchanged", On("confirm", s.shade))
      [] input.is = "discard" -> Out(NewSetup, "close", Abandon(s))
      [] input.is = "done" -> Close(s)
      [] input.is = "refused" -> Say(s, input.message)
      [] OTHER -> Nothing(s)

Applied(s, input) == CASE s.phase = "idle" -> ApplyIdle(s, input)
                       [] s.phase = "drafting" -> ApplyDrafting(s, input)
                       [] OTHER -> ApplyAwaiting(s, input)

-----------------------------------------------------------------------------
(* The shade table                                                         *)

\* The request an ask makes, with the draft as it is when the ask is made.
Request(ask) == [is |-> ask.is, id |-> IF ask.is = "create" THEN Blank ELSE ask.id,
                 draft |-> setup.draft]

Free == {id \in FormSlots : shades[id] = Blank}
Lowest == CHOOSE id \in Free : \A other \in Free : id <= other
FormRow(draft, confirmed, by) == [config |-> draft, confirmed |-> confirmed, by |-> by]

\* Mutant: an amended draft is not stored.
AmendedAtOnce(config, draft) == config

\* A patch says nothing of what the draft leaves blank.
Amended(config, draft) ==
    [f \in Fields |-> IF draft[f] = Blank THEN config[f] ELSE draft[f]]

\* Why the table refuses a request, or Blank.
Refusal(request) ==
    CASE request.is = "create" /\ Free = {} -> "registryFull"
      [] request.is = "create" /\ Free # {} -> Blocker(request.draft)
      [] request.is # "create" -> IF shades[request.id] = Blank THEN "refused" ELSE Blank

Served(request) ==
    IF Refusal(request) # Blank THEN shades ELSE
    CASE request.is = "create" ->
           [shades EXCEPT ![Lowest] = FormRow(request.draft, FALSE, "form")]
      [] request.is = "confirm" -> [shades EXCEPT ![request.id].confirmed = TRUE]
      [] request.is = "abandon" -> [shades EXCEPT ![request.id] = Blank]
      [] request.is = "amend" -> [shades EXCEPT ![request.id].config =
                                     Amended(@, request.draft)]
      [] request.is = "pair" -> shades

RefusedFor(message) == [is |-> "refused", message |-> message]

\* The input an answer becomes; a done that ends nothing is none.
Reply(request) ==
    CASE Refusal(request) # Blank -> RefusedFor(Refusal(request))
      [] Refusal(request) = Blank /\ request.is = "create" -> [is |-> "created", id |-> Lowest]
      [] Refusal(request) = Blank /\ request.is = "confirm" -> [is |-> "done"]
      [] OTHER -> Blank

-----------------------------------------------------------------------------
(* The session                                                             *)

Resync == <<"announce", "tidy", "restore">>
Opening == <<"configs", "message", "fields">>
Closing == <<"clearConfigs", "clearValues">>
Values == <<"message", "fields">>
Control == {"tidy", "restore"}

Idle == joined /\ plan = <<>> /\ chain = Blank
Quiet == Idle /\ effects = <<>>

Connect ==
    /\ ~joined
    /\ joined' = TRUE
    /\ plan' = Resync
    /\ UNCHANGED <<setup, effects, chain, settling, form_dirty, shown, shades, raised, marks,
                   spent>>

\* Found out by waiting for the broker, so never inside a call.
Lose ==
    /\ joined /\ chain = Blank
    /\ plan # <<>> \/ Quiet
    /\ Spend("breaks", MaxBreaks)
    /\ joined' = FALSE
    /\ plan' = <<>> /\ settling' = FALSE
    /\ marks' = IF plan # <<>> /\ plan[Len(plan)] = "clearValues"
                THEN marks \cup {"cut"} ELSE marks
    /\ UNCHANGED <<setup, effects, chain, form_dirty, shown, shades, raised>>

\* dispatch: the flow moves whether or not its effect finds a place.
Receive(input) ==
    /\ Quiet \/ settling
    /\ Spend("inputs", MaxInputs)
    /\ LET out == Applied(setup, input)
       IN /\ setup' = out.setup
          /\ IF Len(effects) < QUEUE
             THEN effects' = Append(effects, out.effect) /\ marks' = marks
             ELSE effects' = effects /\ marks' = marks \cup {"dropped"}
    /\ UNCHANGED <<chain, plan, settling, joined, form_dirty, shown, shades, raised>>

\* What carry_out publishes once the asks are over.
Publishing(opened, closed, phase) ==
    CASE closed -> Closing
      [] ~closed /\ opened -> Opening
      [] ~closed /\ ~opened -> IF phase = "idle" THEN <<>> ELSE Values

\* One turn of the chain: the form change is remembered, the ask comes next.
\* A form opened for a setup that is over is worth a mark.
Turn(effect, opened, closed, left, phase, mark) ==
    LET o == opened \/ effect.form = "open"
        c == closed \/ effect.form = "close"
    IN IF effect.ask = Blank \/ left = 0
       THEN /\ chain' = Blank /\ plan' = Publishing(o, c, phase)
            /\ marks' = marks \cup mark \cup
                         IF o /\ ~c /\ phase = "idle" THEN {"reopened"} ELSE {}
       ELSE /\ chain' = [ask |-> effect.ask, opened |-> o, closed |-> c, left |-> left - 1]
            /\ plan' = <<>>
            /\ marks' = marks \cup mark

Drain ==
    /\ Idle /\ effects # <<>>
    /\ effects' = Tail(effects)
    /\ Turn(Head(effects), FALSE, FALSE, CHAIN, setup.phase, {})
    /\ UNCHANGED <<setup, settling, joined, form_dirty, shown, shades, raised, spent>>

\* The answer is an input of its own; one that ends nothing ends the chain.
Answered(input, mark) ==
    LET out == IF input = Blank THEN Nothing(setup) ELSE Applied(setup, input)
    IN /\ setup' = out.setup
       /\ Turn(out.effect, chain.opened, chain.closed, chain.left, out.setup.phase, mark)

Ask ==
    /\ chain # Blank
    /\ LET request == Request(chain.ask)
       IN shades' = Served(request) /\ Answered(Reply(request), {})
    /\ raised' = Blank
    /\ UNCHANGED <<effects, settling, joined, form_dirty, shown, spent>>

\* Refused for a reason of the table's own: no code, a full queue, the flash.
AskRefused ==
    /\ chain # Blank
    /\ Spend("breaks", MaxBreaks)
    /\ Answered(RefusedFor("refused"), {"refused"})
    /\ raised' = Blank
    /\ UNCHANGED <<effects, settling, joined, form_dirty, shown, shades>>

\* No answer in time: the request stays raised.
AskTimesOut ==
    /\ chain # Blank
    /\ Spend("breaks", MaxBreaks)
    /\ raised' = Request(chain.ask)
    /\ Answered(RefusedFor("refused"), {"late"})
    /\ UNCHANGED <<effects, settling, joined, form_dirty, shown, shades>>

ServeLate ==
    /\ raised # Blank
    /\ shades' = Served(raised)
    /\ raised' = Blank
    /\ UNCHANGED <<setup, effects, chain, plan, settling, joined, form_dirty, shown, marks, spent>>

\* The fields hold what the draft does; a blank one is not published.
FieldsShown == [f \in DOMAIN shown |->
                   IF f \in Fields /\ setup.draft[f] # Blank THEN setup.draft[f] ELSE shown[f]]

Published(step) ==
    CASE step = "announce" -> shown
      [] step = "configs" -> [shown EXCEPT !.configs = TRUE]
      [] step = "message" -> [shown EXCEPT !.message = setup.message]
      [] step = "fields" -> FieldsShown
      [] step = "clearConfigs" -> [shown EXCEPT !.configs = FALSE]
      [] step = "clearValues" -> [Unshown EXCEPT !.configs = shown.configs]

Send ==
    /\ joined /\ plan # <<>> /\ ~settling
    /\ Head(plan) \notin Control
    /\ shown' = Published(Head(plan))
    /\ settling' = TRUE
    /\ UNCHANGED <<setup, effects, chain, plan, joined, form_dirty, shades, raised, marks, spent>>

Settle ==
    /\ settling
    /\ settling' = FALSE
    /\ plan' = Tail(plan)
    /\ UNCHANGED <<setup, effects, chain, joined, form_dirty, shown, shades, raised, marks, spent>>

\* The form a power cut left behind.
Tidy ==
    /\ plan # <<>> /\ Head(plan) = "tidy"
    /\ plan' = IF form_dirty /\ ~Open THEN Closing \o Tail(plan) ELSE Tail(plan)
    /\ UNCHANGED <<setup, effects, chain, settling, joined, form_dirty, shown, shades, raised,
                   marks, spent>>

\* A setup that survived a reconnect gets its form back.
Restore ==
    /\ plan # <<>> /\ Head(plan) = "restore"
    /\ form_dirty' = FALSE
    /\ plan' = IF Open THEN Opening ELSE <<>>
    /\ UNCHANGED <<setup, effects, chain, settling, joined, shown, shades, raised, marks, spent>>

FormRestart ==
    /\ Spend("breaks", MaxBreaks)
    /\ setup' = NewSetup /\ effects' = <<>> /\ chain' = Blank
    /\ plan' = <<>> /\ settling' = FALSE /\ joined' = FALSE
    /\ form_dirty' = TRUE
    /\ raised' = Blank
    /\ marks' = {}
    /\ UNCHANGED <<shown, shades>>

\* The same table from the web page.
WebConfig == CHOOSE d \in Drafts : Blocker(d) = Blank

Visit ==
    /\ Spend("visits", MaxVisits)
    /\ \/ /\ Free # {}
          /\ shades' = [shades EXCEPT ![Lowest] = FormRow(WebConfig, FALSE, "web")]
       \/ \E id \in FormSlots \ Free : shades' = [shades EXCEPT ![id].confirmed = TRUE]
       \/ \E id \in FormSlots \ Free : shades' = [shades EXCEPT ![id] = Blank]
    /\ UNCHANGED <<setup, effects, chain, plan, settling, joined, form_dirty, shown, raised,
                   marks>>

\* The flow and the broker's copy of it at some moment of a boot.
FormAt(s, held, up, left) ==
    /\ setup = s /\ shown = held /\ joined = up /\ form_dirty = left
    /\ effects = <<>> /\ chain = Blank /\ plan = <<>> /\ settling = FALSE
    /\ shades = [id \in FormSlots |-> Blank]
    /\ raised = Blank /\ marks = {}
    /\ spent = [inputs |-> 0, visits |-> 0, breaks |-> 0]

\* Boot.
FormBegins == FormAt(NewSetup, Unshown, FALSE, TRUE)

\* A setup under way, everything typed and carried out, which is where the
\* checks start from too so that the bound on inputs is spent on what follows.
FormFilled ==
    \E d \in Drafts :
        /\ Blocker(d) = Blank
        /\ FormAt([NewSetup EXCEPT !.phase = "drafting", !.draft = d],
                  [configs |-> TRUE, message |-> "drafting", name |-> d.name,
                   kind |-> d.kind, up |-> d.up, down |-> d.down], TRUE, FALSE)

FormInit == FormBegins \/ FormFilled

SessionWork == Connect \/ Drain \/ Ask \/ Send \/ Settle \/ Tidy \/ Restore
FormNext == SessionWork \/ AskRefused \/ AskTimesOut \/ ServeLate \/ Lose \/ FormRestart \/ Visit
            \/ \E input \in Arrivals : Receive(input)
FormSpec == FormInit /\ [][FormNext]_formVars

-----------------------------------------------------------------------------
(* Properties                                                              *)

\* Every variable is of its type; a shade is stood at exactly while a report is
\* awaited, and it is the one this flow made.
FormTypeOK ==
    /\ setup.phase \in {"idle", "drafting", "awaiting"}
    /\ setup.draft \in Drafts
    /\ setup.message \in Messages
    /\ setup.shade = setup.created
    /\ setup.phase = "awaiting" <=> setup.shade \in FormSlots
    /\ Len(effects) <= QUEUE
    /\ chain = Blank \/ plan = <<>>
    /\ settling => plan # <<>> /\ joined
    /\ joined \in BOOLEAN /\ form_dirty \in BOOLEAN
    /\ shown.configs \in BOOLEAN
    /\ \A id \in FormSlots : shades[id] = Blank \/ shades[id].config \in Drafts
    /\ marks \subseteq {"dropped", "cut", "refused", "late", "reopened"}

\* Once the session has carried everything out, an open form is on the broker
\* with the instructions and every filled-in field as the flow holds them,
\* after any presses, typing, lost sessions and restarts: what an operator reads
\* in the boxes is what Send pairing would use. An effect for which the queue
\* had no place excuses it.
ShownIsHeld ==
    Quiet /\ Open /\ "dropped" \notin marks =>
        /\ shown.configs
        /\ shown.message = setup.message
        /\ \A f \in Fields : setup.draft[f] # Blank => shown[f] = setup.draft[f]

\* Once the session has carried everything out and no setup is running, the
\* broker keeps nothing of the form, whatever a power cut left on it. Excused
\* are a dropped effect, a session lost in the middle of clearing the form, and
\* an opening carried out after its setup was over.
NothingIsLeft ==
    Quiet /\ ~Open /\ marks \cap {"dropped", "cut", "reopened"} = {} => shown = Unshown

\* (Violated.)  The entities of the form exist only while a setup is running: with everything
\* carried out and none running, the broker has them not. A dropped effect and
\* a session lost while clearing are excused.
FormOnlyWhileRunning ==
    Quiet /\ ~Open /\ marks \cap {"dropped", "cut"} = {} => ~shown.configs

\* (Violated.)  What the form cannot use is said to the operator: after an unknown kind, times
\* that do not parse or a name too long, the message is not the one the phase
\* shows of itself.
UnusableIsSaid ==
    [][\A input \in Arrivals :
          Receive(input) /\ Open /\ input.is \in Fields /\ ~Parsed(input) =>
             setup'.message # StepMessage(setup)]_formVars

\* The shade the form stands at holds the draft, travel times corrected after
\* the motor was watched included, unless the table refused or did not answer.
StoredIsHeld ==
    /\ Quiet /\ setup.phase = "awaiting" /\ marks \cap {"dropped", "refused", "late"} = {}
    /\ shades[setup.shade] # Blank /\ shades[setup.shade].by = "form"
    => \A f \in Fields : setup.draft[f] # Blank =>
                            shades[setup.shade].config[f] = setup.draft[f]

\* No shade comes out of the form without a name or without both travel times,
\* though the draft can change between the press and the moment it is read.
NoneIsIncomplete ==
    \A id \in FormSlots : shades[id] # Blank => Blocker(shades[id].config) = Blank

\* What an operator reads, what the form holds and what the table stores agree.
FormSafe == FormTypeOK /\ ShownIsHeld /\ NothingIsLeft /\ StoredIsHeld /\ NoneIsIncomplete

\* (Violated.)  A removal the form asks for takes a shade the form made, and nobody else's.
DeletesOnlyItsOwn ==
    [][\A id \in FormSlots :
          shades[id] # Blank /\ shades'[id] = Blank /\ spent' = spent =>
             shades[id].by = "form"]_formVars

\* (Violated.)  A shade an operator has confirmed is not removed by the form.
ConfirmedIsKept ==
    [][\A id \in FormSlots :
          shades[id] # Blank /\ shades'[id] = Blank /\ spent' = spent =>
             ~shades[id].confirmed]_formVars
=============================================================================
