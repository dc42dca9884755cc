---------------------------- MODULE Conversation ----------------------------
(***************************************************************************)
(* The owner's conversation: what the chat remembers of it, which handler  *)
(* a message reaches, what the handler makes of it, and what is rebuilt    *)
(* from the database once the memory has expired (orchestrator/, agents/,  *)
(* pipeline.py).  Turns are served one at a time.  The database is reduced *)
(* to what the conversation reads and changes of an order; OrderLifecycle  *)
(* has the rest.                                                           *)
(*                                                                         *)
(* A text is what it says to the parsers: the same text may be a yes to    *)
(* one handler and an approval to another.  What a search, a price or the  *)
(* stock answers is chosen by \E.                                          *)
(***************************************************************************)
EXTENDS Naturals, FiniteSets, FiniteSetsExt, SequencesExt

CONSTANTS
  Senders,      \* the owner's chats: one Telegram id, one WhatsApp number
  Customers,
  Names,        \* what the owner may call a customer
  Named,        \* [Names -> SUBSET Customers]: whom a name matches
  Products,
  LikeYes,      \* names and products in which the approval pattern matches
  Nothing,
  MaxOrders     \* bound: orders ever created

ASSUME ConversationAssumption ==
  /\ Named \in [Names -> SUBSET Customers]
  /\ LikeYes \subseteq Names \cup Products
  /\ Nothing \notin Customers \cup Names \cup Products
  /\ MaxOrders \in Nat

VARIABLES
  chat,      \* the ConversationStore: a state for each sender
  orders,    \* the orders table, by order number
  past       \* what happened to each sender's conversation (history)

vars == <<chat, orders, past>>

OrderEstado == {"DRAFT", "CONFIRMED", "CLOSED", "CANCELED"}
Order == [customer : Customers, estado : OrderEstado, lines : SUBSET Products,
          unassigned : BOOLEAN,          \* a need without a supplier
          meant : SUBSET Customers]      \* whom the owner named for it

GuidedStep == {"none", "ask_client", "ask_product", "ask_quantity", "ask_more"}

ConversationState ==
  [customer : Customers \cup {Nothing}, order : 0..MaxOrders,
   awaiting : BOOLEAN, selecting : BOOLEAN, candidates : BOOLEAN,
   menu : SUBSET Customers, shown : SUBSET Products, draft : SUBSET Products,
   guided : GuidedStep, picks : BOOLEAN, product : Products \cup {Nothing},
   expired : BOOLEAN]

Fresh ==
  [customer |-> Nothing, order |-> 0,
   awaiting |-> FALSE, selecting |-> FALSE, candidates |-> FALSE,
   menu |-> {}, shown |-> {}, draft |-> {},
   guided |-> "none", picks |-> FALSE, product |-> Nothing, expired |-> FALSE]

(* A sender never heard of and one whose state expired are the same to the *)
(* store: a miss.                                                          *)
Miss == [Fresh EXCEPT !.expired = TRUE]

(* What only the properties remember: the last order the sender was quoted *)
(* and the products gathered in the chat since.                            *)
NoPast == [quoted |-> 0, since |-> {}]

Text(says, about, ref) == [says |-> says, about |-> about, ref |-> ref]
Messages ==
  {Text(k, Nothing, 0) : k \in {"reset", "number", "yes", "no", "enough", "add", "media"}}
    \cup {Text("client", n, 0) : n \in Names}
    \cup {Text("close", n, 0) : n \in Names \cup {Nothing}}
    \cup {Text("create", c, 0) : c \in Customers}
    \cup {Text(k, p, 0) : k \in {"product", "remove"}, p \in Products}
    \cup {Text(k, Nothing, r) : k \in {"approve", "reject"}, r \in 0..Len(orders)}

Init ==
  /\ chat = [s \in Senders |-> Miss]
  /\ orders = <<>>
  /\ past = [s \in Senders |-> NoPast]

With(estado) == {o \in DOMAIN orders : orders[o].estado = estado}

(***************************************************************************)
(* Loading.  A miss is rebuilt from the latest draft of any customer, else *)
(* from the latest confirmed order that still waits for a supplier; the    *)
(* suppliers are searched again.                                           *)
(***************************************************************************)
(* Mutant: the database returns the first draft. *)
OldestDraft ==
  IF With("DRAFT") # {}
    THEN {[Fresh EXCEPT !.customer = orders[Min(With("DRAFT"))].customer,
                        !.order = Min(With("DRAFT")), !.awaiting = TRUE]}
    ELSE {Fresh}

(* Mutant: a need without a supplier is enough, whatever became of the order. *)
AnyWaitingOrder ==
  LET waiting == {o \in DOMAIN orders : orders[o].unassigned}
  IN IF waiting = {} THEN {Fresh}
     ELSE {[Fresh EXCEPT !.customer = orders[Max(waiting)].customer,
                         !.order = Max(waiting), !.selecting = TRUE]}

Rehydrate ==
  LET waiting == {o \in With("CONFIRMED") : orders[o].unassigned}
      about(o) == [Fresh EXCEPT !.customer = orders[o].customer, !.order = o]
  IN IF With("DRAFT") # {}
       THEN {[about(Max(With("DRAFT"))) EXCEPT !.awaiting = TRUE]}
     ELSE IF waiting # {}
       THEN {[about(Max(waiting)) EXCEPT !.selecting = TRUE, !.candidates = found] :
               found \in BOOLEAN}
     ELSE {Fresh}

Load(s) == IF chat[s].expired THEN Rehydrate ELSE {chat[s]}

(***************************************************************************)
(* Routing: the first of these that applies.                               *)
(***************************************************************************)
Route(m, st) ==
  CASE m.says = "media" -> "PERCEPTION"
    [] m.says = "remove" -> "CUSTOMER"
    [] m.says \notin {"media", "remove"} /\ st.guided # "none" -> "GUIDED"
    [] m.says \notin {"media", "remove"} /\ st.guided = "none" ->
         IF st.awaiting THEN "DISPATCH"
         ELSE IF st.selecting THEN "SOURCING"
         ELSE IF st.draft # {} THEN "CUSTOMER"
         ELSE IF st.order # 0 THEN "SALES"
         ELSE "CUSTOMER"

(***************************************************************************)
(* What handlers do: the state they leave and the orders they leave.       *)
(***************************************************************************)
Keep(s, st) == chat' = [chat EXCEPT ![s] = st]
Leave(s, st) == Keep(s, st) /\ UNCHANGED orders

(* persist_finalized_draft, and the state the guided flow closes with      *)
(* (closing) or the free one keeps.  Pricing may fail, and a customer has  *)
(* one open draft.                                                         *)
HasDraft(c) == \E o \in With("DRAFT") : orders[o].customer = c

(* Mutant: the lines that were ordered stay in the draft.                  *)
QuotedKeepsDraft(st, c) ==
  [st EXCEPT !.customer = c, !.order = Len(orders) + 1, !.awaiting = TRUE,
             !.menu = {}, !.shown = {}]

Quoted(st, c) ==
  [st EXCEPT !.customer = c, !.order = Len(orders) + 1, !.awaiting = TRUE,
             !.menu = {}, !.shown = {}, !.draft = {}]

Closed(st) == [st EXCEPT !.guided = "none", !.picks = FALSE, !.product = Nothing]

PersistFinalizedDraft(s, st, c, meant) ==
  \/ Leave(s, Closed(st))
  \/ /\ ~ HasDraft(c) /\ Len(orders) < MaxOrders
     /\ orders' = Append(orders, [customer |-> c, estado |-> "DRAFT", lines |-> st.draft,
                                  unassigned |-> FALSE, meant |-> meant])
     /\ Keep(s, Closed(Quoted(st, c)))

(***************************************************************************)
(* The guided flow: client, product, quantity, more.                       *)
(***************************************************************************)
AskClient(s, st, m) ==
  LET matches == IF m.says = "client" THEN Named[m.about] ELSE {}
      chosen(c) == [st EXCEPT !.customer = c, !.menu = {}, !.guided = "ask_product"]
  IN \/ st.menu # {} /\ m.says = "number" /\ \E c \in st.menu : Leave(s, chosen(c))
     \/ Cardinality(matches) = 1 /\ \E c \in matches : Leave(s, chosen(c))
     \/ Cardinality(matches) > 1 /\ Leave(s, [st EXCEPT !.menu = matches])
     \/ Cardinality(matches) = 0 /\ Leave(s, st)

(* Mutant: the chosen product is not remembered for its quantity.          *)
AskProductForgets(s, st, m) ==
  \/ Leave(s, [st EXCEPT !.picks = FALSE, !.guided = "ask_quantity"])
  \/ Leave(s, st)

AskProduct(s, st, m) ==
  LET chosen(p) == [st EXCEPT !.product = p, !.picks = FALSE, !.guided = "ask_quantity"]
  IN \/ st.picks /\ m.says = "number" /\ \E p \in Products : Leave(s, chosen(p))
     \/ ~ st.picks /\ \E p \in Products : Leave(s, chosen(p))
     \/ ~ st.picks /\ Leave(s, [st EXCEPT !.picks = TRUE])
     \/ Leave(s, st)

AskQuantity(s, st, m) ==
  \/ /\ m.says = "number"
     /\ Leave(s, [st EXCEPT !.draft = @ \cup {st.product}, !.product = Nothing,
                            !.guided = "ask_more"])
  \/ Leave(s, st)

Restarted(st) == [st EXCEPT !.guided = "ask_client", !.picks = FALSE, !.product = Nothing]

AskMore(s, st, m) ==
  \/ m.says = "yes" /\ Leave(s, [st EXCEPT !.guided = "ask_product"])
  \/ /\ m.says \in {"no", "enough"}
     /\ IF st.draft = {}
          THEN Leave(s, Restarted(st))
          ELSE PersistFinalizedDraft(s, st, st.customer, {st.customer})
  \/ m.says \notin {"yes", "no", "enough"} /\ Leave(s, st)

Guided(s, st, m) ==
  \/ st.guided = "ask_client" /\ AskClient(s, st, m)
  \/ st.guided = "ask_product" /\ AskProduct(s, st, m)
  \/ st.guided = "ask_quantity" /\ AskQuantity(s, st, m)
  \/ st.guided = "ask_more" /\ AskMore(s, st, m)

(***************************************************************************)
(* The free conversation with the Customer agent.                          *)
(***************************************************************************)
RemoveProduct(s, st, m) ==
  LET o == st.order
  IN \/ m.about \in st.draft /\ Leave(s, [st EXCEPT !.draft = @ \ {m.about}])
     \/ /\ m.about \notin st.draft
        /\ o # 0 /\ o \in With("DRAFT") /\ m.about \in orders[o].lines
        /\ orders' = [orders EXCEPT ![o].lines = @ \ {m.about}]
        /\ Keep(s, st)
     \/ /\ m.about \notin st.draft
        /\ o \in With("DRAFT") => m.about \notin orders[o].lines
        /\ Leave(s, st)

Finalizes(st, m) ==
  (st.menu # {} /\ st.draft # {}) \/ m.says \in {"close", "create"}

(* The customer of a finalized draft: the one created in the same message, *)
(* the pick of a pending menu, the conversation's own, or the one named.   *)
Finalize(s, st, m) ==
  LET matches == IF m.says = "close" /\ m.about # Nothing THEN Named[m.about] ELSE {}
      meant == IF m.says = "close" /\ m.about # Nothing THEN matches ELSE Customers
  IN \/ st.draft = {} /\ Leave(s, st)
     \/ /\ st.draft # {} /\ st.menu = {} /\ m.says = "create"
        /\ PersistFinalizedDraft(s, st, m.about, {m.about})
     \/ /\ st.draft # {} /\ st.menu # {}
        /\ \/ m.says = "number" /\ \E c \in st.menu : PersistFinalizedDraft(s, st, c, {c})
           \/ Leave(s, st)
     \/ /\ st.draft # {} /\ st.menu = {} /\ m.says = "close"
        /\ \/ st.customer # Nothing /\ PersistFinalizedDraft(s, st, st.customer, meant)
           \/ /\ st.customer = Nothing
              /\ \/ Cardinality(matches) = 0 /\ Leave(s, st)
                 \/ Cardinality(matches) > 1 /\ Leave(s, [st EXCEPT !.menu = matches])
                 \/ /\ Cardinality(matches) = 1
                    /\ \E c \in matches : PersistFinalizedDraft(s, st, c, meant)

(* An answer to the products last shown adds one; any other text is        *)
(* searched and answered, and shows what the search found.                 *)
Converse(s, st, m) ==
  \/ /\ m.says \in {"add", "number"}
     /\ \E p \in st.shown : Leave(s, [st EXCEPT !.draft = @ \cup {p}, !.shown = {}])
  \/ m.says = "product" /\ Leave(s, [st EXCEPT !.shown = {m.about}])
  \/ Leave(s, st)

Customer(s, st, m) ==
  \/ m.says = "remove" /\ RemoveProduct(s, st, m)
  \/ m.says # "remove" /\ Finalizes(st, m) /\ Finalize(s, st, m)
  \/ m.says # "remove" /\ ~ Finalizes(st, m) /\ Converse(s, st, m)

(***************************************************************************)
(* Decisions and supplier selection.                                       *)
(***************************************************************************)
IsRejection(m) == m.says \in {"reject", "no"}
IsApproval(m) == ~ IsRejection(m) /\ (m.says \in {"approve", "yes"} \/ m.about \in LikeYes)

Target(st, m) == IF m.ref # 0 THEN m.ref ELSE st.order

(* Mutant: the decided order stays the conversation's order.               *)
DecidedKeepsOrder(st) == [st EXCEPT !.awaiting = FALSE]

Decided(st) == [st EXCEPT !.awaiting = FALSE, !.order = 0]

(* Mutant: the decision stays pending while suppliers are selected.        *)
SelectingAndDeciding(st, o, found) ==
  [st EXCEPT !.order = o, !.selecting = TRUE, !.candidates = found]

Selecting(st, o, found) ==
  [st EXCEPT !.awaiting = FALSE, !.order = o, !.selecting = TRUE, !.candidates = found]

(* A full order, one with missing items a supplier sells, and one that is  *)
(* cancelled because of an item nobody sells.  In the last two what is     *)
(* missing opens the selection turn.                                       *)
Approve(s, st, m) ==
  LET o == Target(st, m)
  IN /\ o \in With("DRAFT")
     /\ \/ /\ orders' = [orders EXCEPT ![o].estado = "CONFIRMED"]
           /\ Keep(s, Decided(st))
        \/ /\ orders[o].lines # {}
           /\ orders' = [orders EXCEPT ![o].estado = "CONFIRMED", ![o].unassigned = TRUE]
           /\ Keep(s, Selecting(st, o, TRUE))
        \/ /\ orders[o].lines # {}
           /\ orders' = [orders EXCEPT ![o].estado = "CANCELED"]
           /\ \E found \in BOOLEAN : Keep(s, Selecting(st, o, found))

Reject(s, st, m) ==
  LET o == Target(st, m)
  IN /\ o \in With("DRAFT") \cup With("CONFIRMED")
     /\ orders' = [orders EXCEPT ![o].estado = "CANCELED"]
     /\ Keep(s, Decided(st))

(* Whatever is refused (a wrong estado, a stale quote, a missing rate)     *)
(* rolls back and keeps the state.                                         *)
Dispatch(s, st, m) ==
  \/ IsApproval(m) /\ Approve(s, st, m)
  \/ IsRejection(m) /\ Reject(s, st, m)
  \/ Leave(s, st)

Sourcing(s, st, m) ==
  \/ /\ m.says = "number" /\ st.candidates
     /\ \E left \in BOOLEAN : orders' = [orders EXCEPT ![st.order].unassigned = left /\ @]
     /\ Keep(s, st)
  \/ Leave(s, st)

(***************************************************************************)
(* A turn, the passing of time and the back office.                        *)
(***************************************************************************)
Reset(s) == Leave(s, [Fresh EXCEPT !.guided = "ask_client"])

Handle(s, m) ==
  \/ m.says = "reset" /\ Reset(s)
  \/ /\ m.says # "reset"
     /\ \E st \in Load(s) :
          \/ Route(m, st) = "GUIDED" /\ Guided(s, st, m)
          \/ Route(m, st) = "CUSTOMER" /\ Customer(s, st, m)
          \/ Route(m, st) = "DISPATCH" /\ Dispatch(s, st, m)
          \/ Route(m, st) = "SOURCING" /\ Sourcing(s, st, m)
          \/ Route(m, st) \in {"PERCEPTION", "SALES"} /\ Leave(s, st)

Created == Len(orders') > Len(orders)

Remember(s) ==
  past' = [past EXCEPT ![s] =
    IF Created THEN [quoted |-> Len(orders'), since |-> {}]
               ELSE [past[s] EXCEPT !.since = @ \cup (chat'[s].draft \ chat[s].draft)]]

(* A message is delivered, for the first time or again: the channel        *)
(* repeats one whose answer it missed, at any later time, others having    *)
(* been served meanwhile, and nothing remembers its id, so that it is      *)
(* handled as a new one with the same text.                                *)
Turn(s) == (\E m \in Messages : Handle(s, m)) /\ Remember(s)

Expire(s) ==
  /\ ~ chat[s].expired
  /\ chat' = [chat EXCEPT ![s] = Miss]
  /\ UNCHANGED <<orders, past>>

OfficeCreates(c) ==
  /\ ~ HasDraft(c) /\ Len(orders) < MaxOrders
  /\ \E lines \in SUBSET Products \ {{}} :
       orders' = Append(orders, [customer |-> c, estado |-> "DRAFT", lines |-> lines,
                                 unassigned |-> FALSE, meant |-> {c}])
  /\ UNCHANGED <<chat, past>>

(* A confirmed order stands for every estado up to its delivery.           *)
OfficeActs(o) ==
  /\ \/ /\ o \in With("DRAFT")
        /\ \/ \E missing \in BOOLEAN :
                orders' = [orders EXCEPT ![o].estado = "CONFIRMED", ![o].unassigned = missing]
           \/ orders' = [orders EXCEPT ![o].estado = "CANCELED"]
     \/ /\ o \in With("CONFIRMED")
        /\ \E to \in {"CLOSED", "CANCELED"} : orders' = [orders EXCEPT ![o].estado = to]
  /\ UNCHANGED <<chat, past>>

Next ==
  \/ \E s \in Senders : Turn(s) \/ Expire(s)
  \/ \E c \in Customers : OfficeCreates(c)
  \/ \E o \in DOMAIN orders : OfficeActs(o)

Spec == Init /\ [][Next]_vars

(* The owner pauses for longer than the TTL now and then, and comes back.  *)
FairSpec ==
  Spec /\ \A s \in Senders : WF_vars(Expire(s))

(***************************************************************************)
(* Properties.                                                             *)
(***************************************************************************)

TypeOK ==
  /\ chat \in [Senders -> ConversationState]
  /\ orders \in Seq(Order) /\ Len(orders) <= MaxOrders
  /\ past \in [Senders -> [quoted : 0..MaxOrders, since : SUBSET Products]]

(* The scripted flow, a pending decision and a supplier selection never    *)
(* overlap: the router's order of tests (router.py:99-113) never hides one *)
(* of them behind another.                                                 *)
OneModeAtATime ==
  \A s \in Senders :
    LET modes == <<chat[s].guided # "none", chat[s].awaiting, chat[s].selecting>>
    IN \A i, j \in 1..3 : modes[i] /\ modes[j] => i = j

(* A conversation names an order exactly while it decides it or buys for   *)
(* it: "No sé qué pedido es" (dispatch.py:275) is never the answer, and no *)
(* text reaches the stubs of router.py:114-117.                            *)
OrderIsBeingDecided ==
  \A s \in Senders : chat[s].order # 0 <=> chat[s].awaiting \/ chat[s].selecting

(* A decision without a number, whenever it comes and however often the    *)
(* memory expired and was rebuilt (session.py:145), never falls on an      *)
(* order older than the one the chat quoted last while that one is still   *)
(* open: what it decides is that one, or a newer draft, which rebuilding   *)
(* prefers ("Latest open order wins", agent-orchestration/spec.md:86).     *)
NeverAnOlderDraft ==
  [][\A s \in Senders, o \in With("DRAFT") :
       /\ past[s].quoted \in With("DRAFT") /\ orders'[o].estado # "DRAFT"
       /\ \E m \in Messages : m.ref = 0 /\ Handle(s, m)
       => o >= past[s].quoted]_vars

(* A line gathered once is ordered once.  The repeat of a message that     *)
(* closed an order may close another one (webhook.py:97 remembers no ids), *)
(* with whatever customer it names; but at whatever later time it comes,   *)
(* that order has none of the lines of the first unless they were gathered *)
(* again.                                                                  *)
LinesAreOrderedOnce ==
  [][\A s \in Senders :
       Created /\ Turn(s) => orders'[Len(orders')].lines \subseteq past[s].since]_vars

(* A selection turn for an order that was cancelled or closed, which keeps *)
(* every text from the other agents (router.py:103), ends: what the next   *)
(* message will find is another state, also after it was rebuilt.          *)
HeldByFinished(s) ==
  \E st \in Load(s) : st.selecting /\ orders[st.order].estado \in {"CANCELED", "CLOSED"}
FinishedSelectionsEnd ==
  \A s \in Senders : HeldByFinished(s) ~> ~ HeldByFinished(s)

(* A draft finalized with a customer's name is that customer's.            *)
NamedCustomerGetsTheOrder ==
  \A o \in DOMAIN orders : orders[o].customer \in orders[o].meant

=============================================================================
