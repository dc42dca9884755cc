------------------------ MODULE Conversation_proofs ------------------------
(***************************************************************************)
(* The conversation, for any chats, customers, names, products and number  *)
(* of orders: whatever the owner writes, in whatever order, with expiries, *)
(* repeated messages and a back office that works on the same orders, one  *)
(* mode is active at a time, an order is named exactly while it is being   *)
(* decided or bought for, a decision without a number passes over no draft *)
(* quoted last for an older one, and a line gathered once is ordered once. *)
(*                                                                         *)
(* The invariant says what each state that a handler may be given has: a   *)
(* chat's memory is either a miss or such a state, and what is rebuilt     *)
(* from the database is one too.                                           *)
(***************************************************************************)
EXTENDS Conversation, WellFoundedInduction, TLAPS

(* A state a handler may be given when n orders were ever created.         *)
Awake(st, n) ==
  /\ st \in ConversationState
  /\ ~ st.expired
  /\ st.order <= n
  /\ st.order # 0 <=> st.awaiting \/ st.selecting
  /\ ~ (st.awaiting /\ st.selecting)
  /\ st.guided # "none" => ~ st.awaiting /\ ~ st.selecting
  /\ st.guided \in {"ask_product", "ask_quantity", "ask_more"} => st.customer # Nothing
  /\ st.guided = "ask_quantity" => st.product # Nothing

OrdersOK == orders \in Seq(Order) /\ Len(orders) <= MaxOrders

MemoryOK ==
  /\ chat \in [Senders -> ConversationState]
  /\ \A s \in Senders : chat[s] = Miss \/ Awake(chat[s], Len(orders))

(* What the past says of a conversation: its draft was gathered since the  *)
(* last quote, and what it decides is not older than the quoted draft.     *)
PastOK ==
  /\ past \in [Senders -> [quoted : 0..MaxOrders, since : SUBSET Products]]
  /\ \A s \in Senders :
       /\ past[s].quoted <= Len(orders)
       /\ chat[s].draft \subseteq past[s].since
       /\ chat[s].awaiting /\ past[s].quoted \in With("DRAFT")
            => chat[s].order >= past[s].quoted

ConversationInv == OrdersOK /\ MemoryOK /\ PastOK

-----------------------------------------------------------------------------
(* Facts about the constants, the messages and the table.                  *)
LEMMA MessageParts ==
  ASSUME NEW m \in Messages
  PROVE  /\ m.says = "client" => m.about \in Names
         /\ m.says = "close" => m.about \in Names \cup {Nothing}
         /\ m.says = "create" => m.about \in Customers
         /\ m.says \in {"product", "remove"} => m.about \in Products
BY DEF Messages, Text

LEMMA MissAndFresh ==
  /\ Miss \in ConversationState /\ Miss.expired /\ ~ Miss.awaiting /\ ~ Miss.selecting
  /\ Miss.guided = "none" /\ Miss.order = 0 /\ Miss.draft = {} /\ Fresh.draft = {}
  /\ ~ Fresh.awaiting
  /\ \A n \in Nat : Awake(Fresh, n)
<1>1. Fresh \in ConversationState
  BY ConversationAssumption DEF Fresh, ConversationState, GuidedStep
<1>2. Miss \in ConversationState
  BY <1>1 DEF Miss, ConversationState
<1>3. /\ Miss.expired /\ ~ Miss.awaiting /\ ~ Miss.selecting /\ Miss.guided = "none"
      /\ Miss.order = 0 /\ Miss.draft = {} /\ Fresh.draft = {} /\ ~ Fresh.awaiting
  BY DEF Miss, Fresh
<1>4. ASSUME NEW n \in Nat PROVE Awake(Fresh, n)
  <2>1. ~ Fresh.expired /\ Fresh.order = 0 /\ ~ Fresh.awaiting /\ ~ Fresh.selecting
        /\ Fresh.guided = "none"
    BY DEF Fresh
  <2> QED BY <1>1, <2>1 DEF Awake
<1> QED BY <1>2, <1>3, <1>4

LEMMA WithDomain ==
  ASSUME OrdersOK, NEW e
  PROVE  /\ DOMAIN orders = 1 .. Len(orders) /\ Len(orders) \in Nat
         /\ With(e) \subseteq 1 .. Len(orders)
         /\ \A o \in DOMAIN orders : orders[o] \in Order
BY DEF OrdersOK, With

(* The greatest of a bounded non-empty set of numbers is one of them.      *)
LEMMA GreatestIsOne ==
  ASSUME NEW n \in Nat, NEW T \in SUBSET (1 .. n), T # {}
  PROVE  Max(T) \in T /\ \A k \in T : k <= Max(T)
<1> DEFINE B == { b \in Nat : \A k \in T : k <= b }
           less == OpToRel(<, Nat)
<1>1. IsWellFoundedOn(less, Nat)
  BY NatLessThanWellFounded
<1>2. B \subseteq Nat /\ n \in B
  OBVIOUS
<1>3. PICK b \in B : \A c \in B : <<c, b>> \notin less
  <2> HIDE DEF less, B
  <2> QED BY <1>1, <1>2, WFMin
<1>4. b \in T
  <2> SUFFICES ASSUME b \notin T PROVE FALSE
    OBVIOUS
  <2>1. PICK k \in T : TRUE
    OBVIOUS
  <2>2. b - 1 \in Nat /\ b - 1 < b
    BY <2>1
  <2>3. b - 1 \in B
    BY <2>2
  <2>4. <<b - 1, b>> \in less
    BY <2>2 DEF OpToRel
  <2> QED BY <1>3, <2>3, <2>4
<1>5. \E x \in T : \A y \in T : x >= y
  <2> WITNESS b \in T
  <2> QED BY <1>4
<1>6. Max(T) \in T /\ \A y \in T : Max(T) >= y
  BY <1>5 DEF Max
<1> QED BY <1>6

(* What is loaded for a turn is awake, has no draft but the one the memory *)
(* kept, and if it was rebuilt to wait for a decision it waits for the     *)
(* latest draft.                                                           *)
LEMMA LoadAwake ==
  ASSUME OrdersOK, MemoryOK, NEW s \in Senders, NEW st \in Load(s)
  PROVE  /\ Awake(st, Len(orders))
         /\ st.draft \subseteq chat[s].draft
         /\ st.awaiting => \/ chat[s].awaiting /\ st.order = chat[s].order
                           \/ \A q \in With("DRAFT") : st.order >= q
<1>1. CASE ~ chat[s].expired
  BY <1>1, MissAndFresh DEF Load, MemoryOK
<1>2. CASE chat[s].expired
  <2>1. chat[s] = Miss /\ ~ chat[s].awaiting /\ st \in Rehydrate
    BY <1>2, MissAndFresh DEF Load, MemoryOK, Awake
  <2> DEFINE waiting == {o \in With("CONFIRMED") : orders[o].unassigned}
  <2>2. Len(orders) \in Nat /\ DOMAIN orders = 1 .. Len(orders) /\ Len(orders) <= MaxOrders
        /\ MaxOrders \in Nat
    BY WithDomain, ConversationAssumption DEF OrdersOK
  <2>3. CASE With("DRAFT") # {}
    <3> DEFINE o == Max(With("DRAFT"))
    <3>1. o \in 1 .. Len(orders) /\ \A q \in With("DRAFT") : q <= o
      BY <2>2, <2>3, WithDomain, GreatestIsOne
    <3>2. orders[o].customer \in Customers
      BY <2>2, <3>1, WithDomain DEF Order
    <3>3. st = [[Fresh EXCEPT !.customer = orders[o].customer, !.order = o] EXCEPT !.awaiting = TRUE]
      BY <2>1, <2>3 DEF Rehydrate
    <3> HIDE DEF o
    <3>4. st = [customer |-> orders[o].customer, order |-> o,
                awaiting |-> TRUE, selecting |-> FALSE, candidates |-> FALSE,
                menu |-> {}, shown |-> {}, draft |-> {},
                guided |-> "none", picks |-> FALSE, product |-> Nothing, expired |-> FALSE]
      BY <3>3 DEF Fresh
    <3>5. o \in 0 .. MaxOrders /\ o # 0 /\ o <= Len(orders)
      BY <2>2, <3>1
    <3>6. st \in ConversationState
      BY <3>2, <3>4, <3>5 DEF ConversationState, GuidedStep
    <3>7. \A q \in With("DRAFT") : st.order >= q
      BY <2>2, <3>1, <3>4, WithDomain
    <3> QED BY <2>1, <3>4, <3>5, <3>6, <3>7 DEF Awake
  <2>4. CASE With("DRAFT") = {} /\ waiting # {}
    <3> DEFINE o == Max(waiting)
    <3>1. o \in 1 .. Len(orders)
      <4>1. waiting \subseteq 1 .. Len(orders)
        BY WithDomain
      <4> HIDE DEF waiting
      <4> QED BY <2>2, <2>4, <4>1, GreatestIsOne
    <3>2. orders[o].customer \in Customers
      BY <2>2, <3>1, WithDomain DEF Order
    <3>3. PICK found \in BOOLEAN :
            st = [[Fresh EXCEPT !.customer = orders[o].customer, !.order = o]
                    EXCEPT !.selecting = TRUE, !.candidates = found]
      BY <2>1, <2>4 DEF Rehydrate
    <3> HIDE DEF o
    <3>4. st = [customer |-> orders[o].customer, order |-> o,
                awaiting |-> FALSE, selecting |-> TRUE, candidates |-> found,
                menu |-> {}, shown |-> {}, draft |-> {},
                guided |-> "none", picks |-> FALSE, product |-> Nothing, expired |-> FALSE]
      BY <3>3 DEF Fresh
    <3>5. o \in 0 .. MaxOrders /\ o # 0 /\ o <= Len(orders)
      BY <2>2, <3>1
    <3>6. st \in ConversationState
      BY <3>2, <3>4, <3>5 DEF ConversationState, GuidedStep
    <3> QED BY <2>1, <3>4, <3>5, <3>6 DEF Awake
  <2>5. CASE With("DRAFT") = {} /\ waiting = {}
    <3>1. st = Fresh
      BY <2>1, <2>5 DEF Rehydrate
    <3> QED BY <2>1, <2>2, <3>1, MissAndFresh
  <2> QED BY <2>3, <2>4, <2>5
<1>3. chat[s] \in ConversationState /\ chat[s].expired \in BOOLEAN
  BY DEF MemoryOK, ConversationState
<1> QED BY <1>1, <1>2, <1>3

-----------------------------------------------------------------------------
(* What a handler leaves behind.                                           *)

(* A state that a handler may leave where it creates no order: a decision  *)
(* that is pending was pending before, on the same order.                  *)
Fits(t, st) ==
  Awake(t, Len(orders)) /\ (t.awaiting => st.awaiting /\ t.order = st.order)

(* Given st and the message m, the handler leaves t.  An order it creates  *)
(* has no lines that were not in the draft and waits for its decision; an  *)
(* order changes estado only where it is the one to be decided, and never  *)
(* becomes a draft again.                                                  *)
Handled(s, st, m) ==
  /\ OrdersOK' /\ Len(orders') >= Len(orders)
  /\ \E t : /\ Keep(s, t) /\ Awake(t, Len(orders'))
            /\ Created => /\ t.order = Len(orders') /\ t.draft = {}
                          /\ orders'[Len(orders')].lines \subseteq st.draft
            /\ ~ Created /\ t.awaiting => st.awaiting /\ t.order = st.order
  /\ \A o \in DOMAIN orders :
       \/ orders'[o].estado = orders[o].estado
       \/ st.awaiting /\ o = Target(st, m) /\ orders'[o].estado # "DRAFT"

LEMMA Leaving ==
  ASSUME OrdersOK, NEW s, NEW st, NEW m, NEW t, Fits(t, st), Leave(s, t)
  PROVE  Handled(s, st, m)
<1>1. orders' = orders /\ Keep(s, t) /\ Len(orders) \in Nat
  BY WithDomain DEF Leave
<1>2. ~ Created /\ Len(orders') >= Len(orders)
  BY <1>1 DEF Created
<1>3. OrdersOK'
  BY <1>1 DEF OrdersOK
<1> QED BY <1>1, <1>2, <1>3 DEF Handled, Fits

(* One order's row changes.                                                *)
LEMMA Updating ==
  ASSUME OrdersOK, NEW s, NEW st, NEW m, NEW t, Keep(s, t), Fits(t, st),
         NEW o \in DOMAIN orders, NEW r \in Order,
         \/ r.estado = orders[o].estado
         \/ st.awaiting /\ o = Target(st, m) /\ r.estado # "DRAFT",
         orders' = [q \in DOMAIN orders |-> IF q = o THEN r ELSE orders[q]]
  PROVE  Handled(s, st, m)
<1>1. Len(orders) \in Nat /\ DOMAIN orders = 1 .. Len(orders)
      /\ \A q \in DOMAIN orders : orders[q] \in Order
  BY WithDomain
<1>2. orders' \in [1 .. Len(orders) -> Order]
  BY <1>1
<1>3. orders' \in Seq(Order) /\ Len(orders') = Len(orders)
  <2> HIDE DEF OrdersOK
  <2> QED BY <1>1, <1>2
<1>4. ~ Created /\ Len(orders') >= Len(orders)
  BY <1>1, <1>3 DEF Created
<1>5. OrdersOK'
  BY <1>1, <1>3 DEF OrdersOK
<1>6. \A q \in DOMAIN orders :
        \/ orders'[q].estado = orders[q].estado
        \/ st.awaiting /\ q = Target(st, m) /\ orders'[q].estado # "DRAFT"
  BY <1>1
<1> QED BY <1>3, <1>4, <1>5, <1>6 DEF Handled, Fits

LEMMA PersistOK ==
  ASSUME OrdersOK, NEW s, NEW st, NEW m, Fits(st, st), ~ st.selecting,
         NEW c \in Customers, NEW meant \in SUBSET Customers,
         PersistFinalizedDraft(s, st, c, meant)
  PROVE  Handled(s, st, m)
<1> DEFINE row == [customer |-> c, estado |-> "DRAFT", lines |-> st.draft,
                   unassigned |-> FALSE, meant |-> meant]
<1>1. st \in ConversationState /\ Len(orders) \in Nat /\ MaxOrders \in Nat
  BY WithDomain, ConversationAssumption DEF Fits, Awake
<1>2. CASE Leave(s, Closed(st))
  <2>1. Fits(Closed(st), st)
    <3>1. Closed(st) \in ConversationState
      BY <1>1 DEF Closed, ConversationState, GuidedStep
    <3> QED BY <1>1, <3>1 DEF Closed, Fits, Awake, ConversationState
  <2> QED BY <1>2, <2>1, Leaving
<1>3. CASE /\ Len(orders) < MaxOrders
           /\ orders' = Append(orders, row)
           /\ Keep(s, Closed(Quoted(st, c)))
  <2>1. row \in Order
    BY <1>1 DEF Order, OrderEstado, ConversationState
  <2>2. /\ orders' \in Seq(Order) /\ Len(orders') = Len(orders) + 1
        /\ orders'[Len(orders')] = row
        /\ \A o \in DOMAIN orders : orders'[o] = orders[o]
    <3> HIDE DEF row
    <3> QED BY <1>3, <2>1 DEF OrdersOK
  <2>3. OrdersOK' /\ Len(orders') >= Len(orders)
    BY <1>1, <1>3, <2>2 DEF OrdersOK
  <2> DEFINE t == Closed(Quoted(st, c))
  <2>4. /\ t \in ConversationState
        /\ t.order = Len(orders) + 1 /\ t.awaiting /\ t.guided = "none"
        /\ ~ t.selecting /\ ~ t.expired /\ t.draft = {}
    <3>1. Len(orders) + 1 \in 0 .. MaxOrders
      BY <1>1, <1>3
    <3>2. Quoted(st, c) \in ConversationState
      BY <1>1, <3>1 DEF Quoted, ConversationState
    <3>3. t \in ConversationState
      BY <3>2 DEF Closed, ConversationState, GuidedStep
    <3> QED BY <1>1, <3>3 DEF Closed, Quoted, Fits, Awake, ConversationState
  <2>5. Awake(t, Len(orders'))
    <3> HIDE DEF t
    <3> QED BY <1>1, <2>2, <2>4 DEF Awake
  <2>6. Created /\ orders'[Len(orders')].lines \subseteq st.draft
    BY <1>1, <2>2 DEF Created
  <2> HIDE DEF row, t
  <2>7. Keep(s, t)
    BY <1>3 DEF t
  <2> QED BY <2>2, <2>3, <2>4, <2>5, <2>6, <2>7 DEF Handled
<1> QED BY <1>2, <1>3 DEF PersistFinalizedDraft

-----------------------------------------------------------------------------
(* The guided flow.                                                        *)
LEMMA NamedCustomers ==
  ASSUME NEW m \in Messages, m.says \in {"client", "close"}, m.about # Nothing
  PROVE  Named[m.about] \in SUBSET Customers
<1>1. m.about \in Names
  BY MessageParts, ConversationAssumption
<1> QED BY <1>1, ConversationAssumption

(* A guided state stays awake when its step moves on.                      *)
LEMMA AskClientOK ==
  ASSUME OrdersOK, NEW s, NEW st, Fits(st, st), NEW m \in Messages,
         st.guided = "ask_client", AskClient(s, st, m)
  PROVE  Handled(s, st, m)
<1> DEFINE matches == IF m.says = "client" THEN Named[m.about] ELSE {}
           chosen(c) == [st EXCEPT !.customer = c, !.menu = {}, !.guided = "ask_product"]
<1>1. st \in ConversationState /\ ~ st.awaiting /\ ~ st.selecting
  BY DEF Fits, Awake
<1>2. matches \in SUBSET Customers
  BY MessageParts, ConversationAssumption
<1>3. st.menu \in SUBSET Customers
  BY <1>1 DEF ConversationState
<1>4. ASSUME NEW c \in Customers PROVE Fits(chosen(c), st)
  <2>1. chosen(c) \in ConversationState
    BY <1>1 DEF ConversationState, GuidedStep
  <2> QED BY <1>1, <2>1, ConversationAssumption DEF Fits, Awake, ConversationState
<1>5. Fits([st EXCEPT !.menu = matches], st)
  <2> HIDE DEF matches
  <2>1. [st EXCEPT !.menu = matches] \in ConversationState
    BY <1>1, <1>2 DEF ConversationState
  <2> QED BY <1>1, <2>1 DEF Fits, Awake, ConversationState
<1>6. \/ \E c \in Customers : Leave(s, chosen(c))
      \/ Leave(s, [st EXCEPT !.menu = matches])
      \/ Leave(s, st)
  BY <1>2, <1>3 DEF AskClient
<1> HIDE DEF chosen, matches
<1> QED BY <1>4, <1>5, <1>6, Leaving

LEMMA AskProductOK ==
  ASSUME OrdersOK, NEW s, NEW st, Fits(st, st), NEW m \in Messages,
         st.guided = "ask_product", AskProduct(s, st, m)
  PROVE  Handled(s, st, m)
<1> DEFINE chosen(p) == [st EXCEPT !.product = p, !.picks = FALSE, !.guided = "ask_quantity"]
<1>1. st \in ConversationState /\ ~ st.awaiting /\ ~ st.selecting /\ st.customer # Nothing
  BY DEF Fits, Awake
<1>2. ASSUME NEW p \in Products PROVE Fits(chosen(p), st)
  <2>1. chosen(p) \in ConversationState
    BY <1>1 DEF ConversationState, GuidedStep
  <2> QED BY <1>1, <2>1, ConversationAssumption DEF Fits, Awake, ConversationState
<1>3. Fits([st EXCEPT !.picks = TRUE], st)
  <2>1. [st EXCEPT !.picks = TRUE] \in ConversationState
    BY <1>1 DEF ConversationState
  <2> QED BY <1>1, <2>1 DEF Fits, Awake, ConversationState
<1>4. \/ \E p \in Products : Leave(s, chosen(p))
      \/ Leave(s, [st EXCEPT !.picks = TRUE])
      \/ Leave(s, st)
  BY DEF AskProduct
<1> HIDE DEF chosen
<1> QED BY <1>2, <1>3, <1>4, Leaving

LEMMA AskQuantityOK ==
  ASSUME OrdersOK, NEW s, NEW st, Fits(st, st), NEW m \in Messages,
         st.guided = "ask_quantity", AskQuantity(s, st, m)
  PROVE  Handled(s, st, m)
<1> DEFINE added == [st EXCEPT !.draft = st.draft \cup {st.product}, !.product = Nothing,
                               !.guided = "ask_more"]
<1>1. st \in ConversationState /\ ~ st.awaiting /\ ~ st.selecting /\ st.customer # Nothing
      /\ st.product # Nothing
  BY DEF Fits, Awake
<1>2. Fits(added, st)
  <2>1. st.product \in Products /\ st.draft \in SUBSET Products
    BY <1>1 DEF ConversationState
  <2>2. added \in ConversationState
    BY <1>1, <2>1 DEF ConversationState, GuidedStep
  <2> QED BY <1>1, <2>2 DEF Fits, Awake, ConversationState
<1>3. Leave(s, added) \/ Leave(s, st)
  BY DEF AskQuantity
<1> HIDE DEF added
<1> QED BY <1>2, <1>3, Leaving

LEMMA AskMoreOK ==
  ASSUME OrdersOK, NEW s, NEW st, Fits(st, st), NEW m \in Messages,
         st.guided = "ask_more", AskMore(s, st, m)
  PROVE  Handled(s, st, m)
<1>1. st \in ConversationState /\ ~ st.awaiting /\ ~ st.selecting /\ st.customer \in Customers
  BY DEF Fits, Awake, ConversationState
<1>2. Fits([st EXCEPT !.guided = "ask_product"], st)
  <2>1. [st EXCEPT !.guided = "ask_product"] \in ConversationState
    BY <1>1 DEF ConversationState, GuidedStep
  <2> QED BY <1>1, <2>1, ConversationAssumption DEF Fits, Awake, ConversationState
<1>3. Fits(Restarted(st), st)
  <2>1. Restarted(st) \in ConversationState
    BY <1>1 DEF Restarted, ConversationState, GuidedStep
  <2> QED BY <1>1, <2>1 DEF Restarted, Fits, Awake, ConversationState
<1>4. \/ Leave(s, [st EXCEPT !.guided = "ask_product"])
      \/ Leave(s, Restarted(st))
      \/ PersistFinalizedDraft(s, st, st.customer, {st.customer})
      \/ Leave(s, st)
  BY DEF AskMore
<1>5. {st.customer} \in SUBSET Customers
  BY <1>1
<1> QED BY <1>1, <1>2, <1>3, <1>4, <1>5, Leaving, PersistOK

LEMMA GuidedOK ==
  ASSUME OrdersOK, NEW s, NEW st, Fits(st, st), NEW m \in Messages, Guided(s, st, m)
  PROVE  Handled(s, st, m)
BY AskClientOK, AskProductOK, AskQuantityOK, AskMoreOK DEF Guided

-----------------------------------------------------------------------------
(* The free conversation.                                                  *)
LEMMA RemoveOK ==
  ASSUME OrdersOK, NEW s, NEW st, Fits(st, st), NEW m \in Messages,
         m.says = "remove", RemoveProduct(s, st, m)
  PROVE  Handled(s, st, m)
<1> DEFINE o == st.order
           fewer == [st EXCEPT !.draft = st.draft \ {m.about}]
           row == [orders[o] EXCEPT !.lines = orders[o].lines \ {m.about}]
<1>1. st \in ConversationState
  BY DEF Fits, Awake
<1>2. Fits(fewer, st)
  <2>1. st.draft \in SUBSET Products
    BY <1>1 DEF ConversationState
  <2>2. fewer \in ConversationState
    BY <1>1, <2>1 DEF ConversationState
  <2> QED BY <1>1, <2>2 DEF Fits, Awake, ConversationState
<1> DEFINE removed == /\ o \in With("DRAFT")
                      /\ orders' = [orders EXCEPT ![o].lines = @ \ {m.about}]
                      /\ Keep(s, st)
<1>3. CASE removed
  <2>1. o \in DOMAIN orders /\ orders[o] \in Order
    BY <1>3, WithDomain DEF With
  <2>2. row \in Order
    BY <2>1 DEF Order
  <2>3. orders' = [q \in DOMAIN orders |-> IF q = o THEN row ELSE orders[q]]
    BY <1>3
  <2>4. row.estado = orders[o].estado
    BY <2>1 DEF Order
  <2> HIDE DEF o, row
  <2> QED BY <1>3, <2>1, <2>2, <2>3, <2>4, Updating
<1>4. Leave(s, fewer) \/ Leave(s, st) \/ removed
  BY DEF RemoveProduct
<1> HIDE DEF fewer, o, removed
<1> QED BY <1>2, <1>3, <1>4, Leaving

LEMMA FinalizeOK ==
  ASSUME OrdersOK, NEW s, NEW st, Fits(st, st), ~ st.selecting,
         NEW m \in Messages, Finalize(s, st, m)
  PROVE  Handled(s, st, m)
<1> DEFINE matches == IF m.says = "close" /\ m.about # Nothing THEN Named[m.about] ELSE {}
           meant == IF m.says = "close" /\ m.about # Nothing THEN matches ELSE Customers
<1>1. st \in ConversationState /\ st.menu \in SUBSET Customers
      /\ st.customer \in Customers \cup {Nothing}
  BY DEF Fits, Awake, ConversationState
<1>2. matches \in SUBSET Customers /\ meant \in SUBSET Customers
  BY NamedCustomers
<1>3. Fits([st EXCEPT !.menu = matches], st)
  <2> HIDE DEF matches, meant
  <2>1. [st EXCEPT !.menu = matches] \in ConversationState
    BY <1>1, <1>2 DEF ConversationState
  <2> QED BY <1>1, <2>1 DEF Fits, Awake, ConversationState
<1>4. CASE st.draft = {}
  <2>1. Leave(s, st)
    BY <1>4 DEF Finalize
  <2> QED BY <2>1, Leaving
<1>5. CASE st.draft # {}
  <2>1. CASE m.says = "create" /\ PersistFinalizedDraft(s, st, m.about, {m.about})
    <3>1. m.about \in Customers /\ {m.about} \in SUBSET Customers
      BY <2>1, MessageParts
    <3> QED BY <1>5, <2>1, <3>1, PersistOK
  <2>2. ASSUME NEW c \in Customers, NEW who \in SUBSET Customers,
               PersistFinalizedDraft(s, st, c, who)
        PROVE  Handled(s, st, m)
    BY <2>2, PersistOK
  <2>3. \/ m.says = "create" /\ PersistFinalizedDraft(s, st, m.about, {m.about})
        \/ \E c \in Customers, who \in SUBSET Customers : PersistFinalizedDraft(s, st, c, who)
        \/ Leave(s, [st EXCEPT !.menu = matches])
        \/ Leave(s, st)
    BY <1>1, <1>2, <1>5 DEF Finalize
  <2> HIDE DEF matches
  <2> QED BY <1>3, <1>5, <2>1, <2>2, <2>3, Leaving
<1> QED BY <1>4, <1>5

LEMMA ConverseOK ==
  ASSUME OrdersOK, NEW s, NEW st, Fits(st, st), NEW m \in Messages, Converse(s, st, m)
  PROVE  Handled(s, st, m)
<1> DEFINE added(p) == [st EXCEPT !.draft = st.draft \cup {p}, !.shown = {}]
           showing == [st EXCEPT !.shown = {m.about}]
<1>1. st \in ConversationState /\ st.shown \in SUBSET Products /\ st.draft \in SUBSET Products
  BY DEF Fits, Awake, ConversationState
<1>2. ASSUME NEW p \in Products PROVE Fits(added(p), st)
  <2>1. added(p) \in ConversationState
    BY <1>1 DEF ConversationState
  <2> QED BY <1>1, <2>1 DEF Fits, Awake, ConversationState
<1>3. CASE m.says = "product" /\ Leave(s, showing)
  <2>1. showing \in ConversationState
    BY <1>1, <1>3, MessageParts DEF ConversationState
  <2>2. Fits(showing, st)
    BY <1>1, <2>1 DEF Fits, Awake, ConversationState
  <2> HIDE DEF showing
  <2> QED BY <1>3, <2>2, Leaving
<1>4. \/ \E p \in Products : Leave(s, added(p))
      \/ m.says = "product" /\ Leave(s, showing)
      \/ Leave(s, st)
  BY <1>1 DEF Converse
<1> HIDE DEF added, showing
<1> QED BY <1>2, <1>3, <1>4, Leaving

LEMMA CustomerOK ==
  ASSUME OrdersOK, NEW s, NEW st, Fits(st, st), NEW m \in Messages,
         m.says = "remove" \/ ~ st.selecting, Customer(s, st, m)
  PROVE  Handled(s, st, m)
BY RemoveOK, FinalizeOK, ConverseOK DEF Customer

-----------------------------------------------------------------------------
(* Decisions and supplier selection.                                       *)
LEMMA DecidedAwake ==
  ASSUME OrdersOK, NEW st, Fits(st, st), st.awaiting
  PROVE  Fits(Decided(st), st)
<1>1. st \in ConversationState /\ 0 \in 0 .. MaxOrders /\ 0 <= Len(orders)
  BY ConversationAssumption, WithDomain DEF Fits, Awake
<1>2. Decided(st) \in ConversationState
  BY <1>1 DEF Decided, ConversationState
<1> QED BY <1>1, <1>2 DEF Decided, Fits, Awake, ConversationState

LEMMA ApproveOK ==
  ASSUME OrdersOK, NEW s, NEW st, Fits(st, st), st.awaiting,
         NEW m \in Messages, Approve(s, st, m)
  PROVE  Handled(s, st, m)
<1> DEFINE o == Target(st, m)
           full == [orders[o] EXCEPT !.estado = "CONFIRMED"]
           part == [orders[o] EXCEPT !.estado = "CONFIRMED", !.unassigned = TRUE]
           none == [orders[o] EXCEPT !.estado = "CANCELED"]
<1>1. st \in ConversationState /\ ~ st.selecting /\ st.guided = "none"
  BY DEF Fits, Awake
<1>2. o \in DOMAIN orders /\ o \in 1 .. Len(orders) /\ Len(orders) \in Nat
      /\ Len(orders) <= MaxOrders /\ MaxOrders \in Nat /\ orders[o] \in Order
  BY WithDomain, ConversationAssumption DEF Approve, OrdersOK
<1>3. /\ full \in Order /\ part \in Order /\ none \in Order
      /\ full.estado # "DRAFT" /\ part.estado # "DRAFT" /\ none.estado # "DRAFT"
  <2> HIDE DEF o
  <2> QED BY <1>2 DEF Order, OrderEstado
<1>4. Fits(Decided(st), st)
  BY DecidedAwake
<1>5. ASSUME NEW found \in BOOLEAN PROVE Fits(Selecting(st, o, found), st)
  <2> HIDE DEF o
  <2>1. o \in 0 .. MaxOrders /\ o # 0 /\ o <= Len(orders)
    BY <1>2
  <2>2. Selecting(st, o, found) \in ConversationState
    BY <1>1, <2>1 DEF Selecting, ConversationState
  <2> QED BY <1>1, <2>1, <2>2 DEF Selecting, Fits, Awake, ConversationState
<1>6. \/ orders' = [orders EXCEPT ![o].estado = "CONFIRMED"] /\ Keep(s, Decided(st))
      \/ orders' = [orders EXCEPT ![o].estado = "CONFIRMED", ![o].unassigned = TRUE]
         /\ Keep(s, Selecting(st, o, TRUE))
      \/ orders' = [orders EXCEPT ![o].estado = "CANCELED"]
         /\ \E found \in BOOLEAN : Keep(s, Selecting(st, o, found))
  BY DEF Approve
<1>a. o = Target(st, m)
  OBVIOUS
<1> HIDE DEF o
<1>7. CASE orders' = [orders EXCEPT ![o].estado = "CONFIRMED"] /\ Keep(s, Decided(st))
  <2>1. orders' = [q \in DOMAIN orders |-> IF q = o THEN full ELSE orders[q]]
    BY <1>2, <1>7
  <2> HIDE DEF full
  <2> QED BY <1>2, <1>3, <1>a, <1>4, <1>7, <2>1, Updating
<1>8. CASE orders' = [orders EXCEPT ![o].estado = "CONFIRMED", ![o].unassigned = TRUE]
           /\ Keep(s, Selecting(st, o, TRUE))
  <2>1. orders' = [q \in DOMAIN orders |-> IF q = o THEN part ELSE orders[q]]
    BY <1>2, <1>8 DEF Order
  <2>2. Fits(Selecting(st, o, TRUE), st)
    BY <1>5
  <2> DEFINE t == Selecting(st, o, TRUE)
  <2>3. Keep(s, t)
    BY <1>8
  <2>4. /\ o \in DOMAIN orders /\ part \in Order
        /\ st.awaiting /\ o = Target(st, m) /\ part.estado # "DRAFT"
    BY <1>2, <1>3, <1>a
  <2> HIDE DEF part, t
  <2>5. Fits(t, st)
    BY <2>2 DEF t
  <2> QED BY <2>1, <2>3, <2>4, <2>5, Updating
<1>9. ASSUME NEW found \in BOOLEAN, Keep(s, Selecting(st, o, found)),
             orders' = [orders EXCEPT ![o].estado = "CANCELED"]
      PROVE  Handled(s, st, m)
  <2>1. orders' = [q \in DOMAIN orders |-> IF q = o THEN none ELSE orders[q]]
    BY <1>2, <1>9
  <2> HIDE DEF none
  <2> QED BY <1>2, <1>3, <1>a, <1>5, <1>9, <2>1, Updating
<1> QED BY <1>6, <1>7, <1>8, <1>9

LEMMA RejectOK ==
  ASSUME OrdersOK, NEW s, NEW st, Fits(st, st), st.awaiting,
         NEW m \in Messages, Reject(s, st, m)
  PROVE  Handled(s, st, m)
<1> DEFINE o == Target(st, m)
           none == [orders[o] EXCEPT !.estado = "CANCELED"]
<1>1. st \in ConversationState /\ ~ st.selecting /\ st.guided = "none"
  BY DEF Fits, Awake
<1>2. o \in DOMAIN orders /\ orders[o] \in Order /\ Len(orders) \in Nat /\ MaxOrders \in Nat
  BY WithDomain, ConversationAssumption DEF Reject
<1>3. none \in Order /\ none.estado # "DRAFT"
  <2> HIDE DEF o
  <2> QED BY <1>2 DEF Order, OrderEstado
<1>4. Fits(Decided(st), st)
  BY DecidedAwake
<1>5. orders' = [q \in DOMAIN orders |-> IF q = o THEN none ELSE orders[q]]
  <2> HIDE DEF o
  <2>1. orders' = [orders EXCEPT ![o].estado = "CANCELED"]
    BY DEF Reject, o
  <2> QED BY <1>2, <2>1
<1>6. Keep(s, Decided(st)) /\ o = Target(st, m)
  BY DEF Reject
<1> HIDE DEF o, none
<1> QED BY <1>2, <1>3, <1>4, <1>5, <1>6, Updating

LEMMA SourcingOK ==
  ASSUME OrdersOK, NEW s, NEW st, Fits(st, st), st.selecting,
         NEW m \in Messages, Sourcing(s, st, m)
  PROVE  Handled(s, st, m)
<1> DEFINE o == st.order
<1>1. o \in DOMAIN orders /\ orders[o] \in Order
  <2>1. o \in 0 .. MaxOrders /\ o # 0 /\ o <= Len(orders) /\ MaxOrders \in Nat
    BY ConversationAssumption DEF Fits, Awake, ConversationState
  <2> QED BY <2>1, WithDomain
<1>2. ASSUME NEW left \in BOOLEAN, Keep(s, st),
             orders' = [orders EXCEPT ![o].unassigned = left /\ @]
      PROVE  Handled(s, st, m)
  <2> DEFINE row == [orders[o] EXCEPT !.unassigned = left /\ orders[o].unassigned]
  <2>1. row \in Order /\ row.estado = orders[o].estado
    <3> HIDE DEF o
    <3> QED BY <1>1 DEF Order
  <2>2. orders' = [q \in DOMAIN orders |-> IF q = o THEN row ELSE orders[q]]
    <3> HIDE DEF o
    <3> QED BY <1>1, <1>2
  <2> HIDE DEF o, row
  <2> QED BY <1>1, <1>2, <2>1, <2>2, Updating
<1> QED BY <1>2, Leaving DEF Sourcing

-----------------------------------------------------------------------------
(* A turn: one load, one handler.                                          *)
LEMMA RouteCases ==
  ASSUME NEW m \in Messages, NEW n, NEW st, Awake(st, n)
  PROVE  /\ Route(m, st) = "CUSTOMER" => m.says = "remove" \/ (~ st.awaiting /\ ~ st.selecting)
         /\ Route(m, st) = "DISPATCH" => st.awaiting
         /\ Route(m, st) = "SOURCING" => st.selecting
         /\ Route(m, st) = "GUIDED" => st.guided # "none"
<1>1. CASE m.says = "media"
  BY <1>1 DEF Route
<1>2. CASE m.says = "remove"
  BY <1>2 DEF Route
<1>3. CASE m.says \notin {"media", "remove"} /\ st.guided # "none"
  BY <1>3 DEF Route
<1>4. CASE m.says \notin {"media", "remove"} /\ st.guided = "none"
  <2>1. Route(m, st) = IF st.awaiting THEN "DISPATCH"
                       ELSE IF st.selecting THEN "SOURCING"
                       ELSE IF st.draft # {} THEN "CUSTOMER"
                       ELSE IF st.order # 0 THEN "SALES"
                       ELSE "CUSTOMER"
    BY <1>4 DEF Route
  <2> QED BY <1>4, <2>1
<1> QED BY <1>1, <1>2, <1>3, <1>4

LEMMA HandleOK ==
  ASSUME OrdersOK, MemoryOK, NEW s \in Senders, NEW m \in Messages, Handle(s, m)
  PROVE  \E st : /\ Handled(s, st, m) /\ st.draft \subseteq chat[s].draft
                 /\ st.awaiting => \/ chat[s].awaiting /\ st.order = chat[s].order
                                   \/ \A q \in With("DRAFT") : st.order >= q
<1>1. CASE Reset(s)
  <2> DEFINE t == [Fresh EXCEPT !.guided = "ask_client"]
  <2>1. Awake(t, Len(orders)) /\ ~ t.awaiting
    <3>1. Awake(Fresh, Len(orders))
      BY MissAndFresh, WithDomain
    <3>2. t \in ConversationState
      BY <3>1 DEF Awake, ConversationState, GuidedStep
    <3> QED BY <3>1, <3>2 DEF Awake, Fresh
  <2>2. Fits(t, Fresh) /\ Leave(s, t)
    BY <1>1, <2>1 DEF Fits, Reset
  <2> HIDE DEF t
  <2>3. Handled(s, Fresh, m)
    BY <2>2, Leaving
  <2>4. Fresh.draft = {} /\ ~ Fresh.awaiting
    BY DEF Fresh
  <2> QED BY <2>3, <2>4
<1>2. ASSUME NEW st \in Load(s),
             \/ Route(m, st) = "GUIDED" /\ Guided(s, st, m)
             \/ Route(m, st) = "CUSTOMER" /\ Customer(s, st, m)
             \/ Route(m, st) = "DISPATCH" /\ Dispatch(s, st, m)
             \/ Route(m, st) = "SOURCING" /\ Sourcing(s, st, m)
             \/ Route(m, st) \in {"PERCEPTION", "SALES"} /\ Leave(s, st)
      PROVE  Handled(s, st, m)
  <2>1. Awake(st, Len(orders)) /\ Fits(st, st)
    BY LoadAwake DEF Fits
  <2>2. CASE Route(m, st) = "GUIDED" /\ Guided(s, st, m)
    BY <2>1, <2>2, GuidedOK
  <2>3. CASE Route(m, st) = "CUSTOMER" /\ Customer(s, st, m)
    BY <2>1, <2>3, RouteCases, CustomerOK
  <2>4. CASE Route(m, st) = "DISPATCH" /\ Dispatch(s, st, m)
    BY <2>1, <2>4, RouteCases, ApproveOK, RejectOK, Leaving DEF Dispatch
  <2>5. CASE Route(m, st) = "SOURCING" /\ Sourcing(s, st, m)
    BY <2>1, <2>5, RouteCases, SourcingOK
  <2>6. CASE Leave(s, st)
    BY <2>1, <2>6, Leaving
  <2> QED BY <1>2, <2>2, <2>3, <2>4, <2>5, <2>6
<1> QED BY <1>1, <1>2, LoadAwake DEF Handle

-----------------------------------------------------------------------------
(* The invariant.                                                          *)
LEMMA ConversationInit == Init => ConversationInv
<1> SUFFICES ASSUME Init PROVE ConversationInv
  OBVIOUS
<1>1. OrdersOK
  BY ConversationAssumption DEF Init, OrdersOK
<1>2. MemoryOK
  BY MissAndFresh DEF Init, MemoryOK
<1>3. PastOK
  <2>1. NoPast \in [quoted : 0..MaxOrders, since : SUBSET Products]
    BY ConversationAssumption DEF NoPast
  <2>2. NoPast.quoted = 0 /\ Len(orders) = 0
    BY DEF NoPast, Init
  <2> QED BY <2>1, <2>2, MissAndFresh DEF Init, PastOK
<1> QED BY <1>1, <1>2, <1>3 DEF ConversationInv

(* What an order or a conversation knows does not depend on the orders     *)
(* that are created later.                                                 *)
LEMMA MoreOrders ==
  ASSUME OrdersOK, OrdersOK', Len(orders') >= Len(orders)
  PROVE  \A st : Awake(st, Len(orders)) => Awake(st, Len(orders'))
<1>1. Len(orders) \in Nat /\ Len(orders') \in Nat
  BY DEF OrdersOK
<1> SUFFICES ASSUME NEW st, Awake(st, Len(orders)) PROVE Awake(st, Len(orders'))
  OBVIOUS
<1>2. st.order \in Nat /\ st.order <= Len(orders')
  BY <1>1, ConversationAssumption DEF Awake, ConversationState
<1> QED BY <1>2 DEF Awake

(* No order becomes a draft again.                                         *)
NoRevival == \A o \in DOMAIN orders : orders'[o].estado = "DRAFT" => orders[o].estado = "DRAFT"

LEMMA DraftsBefore ==
  ASSUME OrdersOK, OrdersOK', NoRevival
  PROVE  \A q \in With("DRAFT")' : q <= Len(orders) => q \in With("DRAFT")
<1>1. /\ DOMAIN orders = 1 .. Len(orders) /\ DOMAIN orders' = 1 .. Len(orders')
      /\ Len(orders) \in Nat /\ Len(orders') \in Nat
  BY DEF OrdersOK
<1>2. \A q \in With("DRAFT")' : q \in DOMAIN orders' /\ orders'[q].estado = "DRAFT"
  BY DEF With
<1> QED BY <1>1, <1>2 DEF With, NoRevival

(* Whatever happens to the orders, a conversation that nobody touches      *)
(* keeps what its past says of it.                                         *)
LEMMA PastKept ==
  ASSUME ConversationInv, OrdersOK', NoRevival, Len(orders') >= Len(orders), NEW s \in Senders,
         past'[s] = past[s],
         chat'[s] = chat[s] \/ chat'[s] = Miss
  PROVE  /\ past'[s].quoted <= Len(orders')
         /\ chat'[s].draft \subseteq past'[s].since
         /\ chat'[s].awaiting /\ past'[s].quoted \in With("DRAFT")'
              => chat'[s].order >= past'[s].quoted
<1>1. /\ past[s].quoted <= Len(orders) /\ past[s].quoted \in Nat
      /\ Len(orders) \in Nat /\ Len(orders') \in Nat
      /\ chat[s].draft \subseteq past[s].since
      /\ chat[s].awaiting /\ past[s].quoted \in With("DRAFT") => chat[s].order >= past[s].quoted
  BY ConversationAssumption DEF ConversationInv, PastOK, OrdersOK
<1>2. past[s].quoted \in With("DRAFT")' => past[s].quoted \in With("DRAFT")
  BY <1>1, DraftsBefore DEF ConversationInv
<1> QED BY <1>1, <1>2, MissAndFresh

LEMMA TurnStep ==
  ASSUME ConversationInv, NEW s \in Senders, NEW m \in Messages, Handle(s, m), Remember(s)
  PROVE  /\ ConversationInv'
         /\ Created => orders'[Len(orders')].lines \subseteq past[s].since
<1> USE DEF ConversationInv
<1>1. PICK st : /\ Handled(s, st, m) /\ st.draft \subseteq chat[s].draft
                /\ st.awaiting => \/ chat[s].awaiting /\ st.order = chat[s].order
                                  \/ \A q \in With("DRAFT") : st.order >= q
  BY HandleOK
<1>2. OrdersOK' /\ Len(orders') >= Len(orders) /\ NoRevival
  BY <1>1 DEF Handled, NoRevival
<1>3. PICK t : /\ Keep(s, t) /\ Awake(t, Len(orders'))
               /\ Created => /\ t.order = Len(orders') /\ t.draft = {}
                             /\ orders'[Len(orders')].lines \subseteq st.draft
               /\ ~ Created /\ t.awaiting => st.awaiting /\ t.order = st.order
  BY <1>1 DEF Handled
<1>4. /\ chat' = [chat EXCEPT ![s] = t] /\ chat'[s] = t /\ t \in ConversationState
      /\ \A u \in Senders \ {s} : chat'[u] = chat[u]
  BY <1>3 DEF Keep, Awake, MemoryOK
<1>5. MemoryOK'
  BY <1>2, <1>3, <1>4, MoreOrders DEF MemoryOK
<1>6. /\ past[s] \in [quoted : 0..MaxOrders, since : SUBSET Products]
      /\ past[s].quoted <= Len(orders) /\ chat[s].draft \subseteq past[s].since
      /\ chat[s].awaiting /\ past[s].quoted \in With("DRAFT") => chat[s].order >= past[s].quoted
      /\ Len(orders) \in Nat /\ Len(orders') \in 0..MaxOrders /\ t.draft \in SUBSET Products
  BY <1>2, <1>4, ConversationAssumption DEF PastOK, OrdersOK, ConversationState
<1>7. /\ past'[s] \in [quoted : 0..MaxOrders, since : SUBSET Products]
      /\ past'[s].quoted <= Len(orders') /\ t.draft \subseteq past'[s].since
      /\ t.awaiting /\ past'[s].quoted \in With("DRAFT")' => t.order >= past'[s].quoted
  <2>1. CASE Created
    <3>1. past'[s] = [quoted |-> Len(orders'), since |-> {}]
      BY <2>1 DEF Remember, PastOK
    <3> QED BY <1>3, <1>6, <2>1, <3>1
  <2>2. CASE ~ Created
    <3>1. past'[s] = [past[s] EXCEPT !.since = past[s].since \cup (t.draft \ chat[s].draft)]
      BY <1>4, <2>2 DEF Remember, PastOK
    <3>2. /\ past'[s] \in [quoted : 0..MaxOrders, since : SUBSET Products]
          /\ past'[s].quoted = past[s].quoted
          /\ past'[s].since = past[s].since \cup (t.draft \ chat[s].draft)
      BY <1>6, <3>1
    <3>3. past[s].quoted \in With("DRAFT")' => past[s].quoted \in With("DRAFT")
      BY <1>2, <1>6, DraftsBefore
    <3> QED BY <1>1, <1>2, <1>3, <1>6, <2>2, <3>2, <3>3
  <2> QED BY <2>1, <2>2
<1>8. /\ past' \in [Senders -> [quoted : 0..MaxOrders, since : SUBSET Products]]
      /\ \A u \in Senders \ {s} : past'[u] = past[u]
  BY <1>7 DEF Remember, PastOK
<1>9. PastOK'
  <2>1. \A u \in Senders \ {s} :
          /\ past'[u].quoted <= Len(orders')
          /\ chat'[u].draft \subseteq past'[u].since
          /\ chat'[u].awaiting /\ past'[u].quoted \in With("DRAFT")'
               => chat'[u].order >= past'[u].quoted
    BY <1>2, <1>4, <1>8, PastKept
  <2> QED BY <1>4, <1>7, <1>8, <2>1 DEF PastOK
<1>10. Created => orders'[Len(orders')].lines \subseteq past[s].since
  BY <1>1, <1>3, <1>6
<1> QED BY <1>2, <1>5, <1>9, <1>10

(* The passing of time and the back office, which creates and decides      *)
(* orders under the conversation.                                          *)
LEMMA ElsewhereStep ==
  ASSUME ConversationInv, UNCHANGED past, OrdersOK', NoRevival, Len(orders') >= Len(orders),
         MemoryOK', \A s \in Senders : chat'[s] = chat[s] \/ chat'[s] = Miss
  PROVE  ConversationInv'
<1>1. ASSUME NEW s \in Senders
      PROVE  /\ past'[s].quoted <= Len(orders')
             /\ chat'[s].draft \subseteq past'[s].since
             /\ chat'[s].awaiting /\ past'[s].quoted \in With("DRAFT")'
                  => chat'[s].order >= past'[s].quoted
  BY PastKept
<1>2. past' \in [Senders -> [quoted : 0..MaxOrders, since : SUBSET Products]]
  BY DEF ConversationInv, PastOK
<1> QED BY <1>1, <1>2 DEF ConversationInv, PastOK

LEMMA ExpireStep ==
  ASSUME ConversationInv, NEW s \in Senders, Expire(s)
  PROVE  ConversationInv'
<1> USE DEF Expire
<1>1. OrdersOK' /\ UNCHANGED orders /\ NoRevival /\ Len(orders') >= Len(orders)
  BY WithDomain DEF ConversationInv, OrdersOK, NoRevival
<1>2. MemoryOK' /\ \A u \in Senders : chat'[u] = chat[u] \/ chat'[u] = Miss
  BY <1>1, MissAndFresh DEF ConversationInv, MemoryOK
<1> QED BY <1>1, <1>2, ElsewhereStep

LEMMA OfficeStep ==
  ASSUME ConversationInv, UNCHANGED <<chat, past>>, OrdersOK', NoRevival,
         Len(orders') >= Len(orders)
  PROVE  ConversationInv'
<1>1. MemoryOK' /\ \A u \in Senders : chat'[u] = chat[u] \/ chat'[u] = Miss
  BY MoreOrders DEF ConversationInv, MemoryOK
<1> QED BY <1>1, ElsewhereStep

LEMMA OfficeCreatesStep ==
  ASSUME ConversationInv, NEW c \in Customers, OfficeCreates(c)
  PROVE  ConversationInv'
<1>1. PICK lines \in SUBSET Products :
        orders' = Append(orders, [customer |-> c, estado |-> "DRAFT", lines |-> lines,
                                  unassigned |-> FALSE, meant |-> {c}])
  BY DEF OfficeCreates
<1> DEFINE row == [customer |-> c, estado |-> "DRAFT", lines |-> lines,
                   unassigned |-> FALSE, meant |-> {c}]
<1>2. row \in Order
  BY DEF Order, OrderEstado
<1>3. /\ orders' \in Seq(Order) /\ Len(orders') = Len(orders) + 1 /\ Len(orders) \in Nat
      /\ \A o \in DOMAIN orders : orders'[o] = orders[o]
  <2>1. orders' = Append(orders, row) /\ orders \in Seq(Order)
    BY <1>1 DEF ConversationInv, OrdersOK
  <2> HIDE DEF row
  <2> QED BY <1>2, <2>1
<1>4. Len(orders) < MaxOrders /\ MaxOrders \in Nat
  BY ConversationAssumption DEF OfficeCreates
<1>5. OrdersOK' /\ Len(orders') >= Len(orders) /\ NoRevival
  BY <1>3, <1>4 DEF OrdersOK, NoRevival
<1> QED BY <1>5, OfficeStep DEF OfficeCreates

LEMMA OfficeActsStep ==
  ASSUME ConversationInv, NEW o \in DOMAIN orders, OfficeActs(o)
  PROVE  ConversationInv'
<1>1. orders[o] \in Order /\ DOMAIN orders = 1 .. Len(orders) /\ Len(orders) \in Nat
      /\ \A q \in DOMAIN orders : orders[q] \in Order
  BY WithDomain DEF ConversationInv
<1>2. PICK r \in Order :
        /\ orders' = [q \in DOMAIN orders |-> IF q = o THEN r ELSE orders[q]]
        /\ r.estado # "DRAFT"
  <2>1. ASSUME NEW missing \in BOOLEAN,
               orders' = [orders EXCEPT ![o].estado = "CONFIRMED", ![o].unassigned = missing]
        PROVE  \E r \in Order :
                 /\ orders' = [q \in DOMAIN orders |-> IF q = o THEN r ELSE orders[q]]
                 /\ r.estado # "DRAFT"
    <3> DEFINE r == [orders[o] EXCEPT !.estado = "CONFIRMED", !.unassigned = missing]
    <3>1. r \in Order /\ r.estado # "DRAFT"
      BY <1>1 DEF Order, OrderEstado
    <3>2. orders' = [q \in DOMAIN orders |-> IF q = o THEN r ELSE orders[q]]
      BY <1>1, <2>1 DEF Order
    <3> QED BY <3>1, <3>2
  <2>2. ASSUME NEW to \in OrderEstado \ {"DRAFT"}, orders' = [orders EXCEPT ![o].estado = to]
        PROVE  \E r \in Order :
                 /\ orders' = [q \in DOMAIN orders |-> IF q = o THEN r ELSE orders[q]]
                 /\ r.estado # "DRAFT"
    <3> DEFINE r == [orders[o] EXCEPT !.estado = to]
    <3>1. r \in Order /\ r.estado # "DRAFT"
      BY <1>1 DEF Order
    <3>2. orders' = [q \in DOMAIN orders |-> IF q = o THEN r ELSE orders[q]]
      BY <1>1, <2>2
    <3> QED BY <3>1, <3>2
  <2> QED BY <2>1, <2>2 DEF OfficeActs, OrderEstado
<1>3. orders' \in [1 .. Len(orders) -> Order]
  BY <1>1, <1>2
<1>4. orders' \in Seq(Order) /\ Len(orders') = Len(orders)
  BY <1>1, <1>3
<1>5. OrdersOK' /\ Len(orders') >= Len(orders) /\ NoRevival
  BY <1>1, <1>2, <1>4 DEF ConversationInv, OrdersOK, NoRevival
<1> QED BY <1>5, OfficeStep DEF OfficeActs

LEMMA ConversationNext == ConversationInv /\ [Next]_vars => ConversationInv'
<1> SUFFICES ASSUME ConversationInv, [Next]_vars PROVE ConversationInv'
  OBVIOUS
<1>1. ASSUME NEW s \in Senders, Turn(s) PROVE ConversationInv'
  BY <1>1, TurnStep DEF Turn
<1>2. CASE UNCHANGED vars
  BY <1>2 DEF vars, ConversationInv, OrdersOK, MemoryOK, PastOK, Awake, With
<1> QED BY <1>1, <1>2, ExpireStep, OfficeCreatesStep, OfficeActsStep DEF Next

THEOREM ConversationSafe == Spec => []ConversationInv
<1> QED BY ConversationInit, ConversationNext, PTL DEF Spec

(* The memory has its types, in particular a state never names an order    *)
(* that was not created, a product or a customer that does not exist       *)
(* (session.py, ConversationState).                                        *)
THEOREM ConversationTyped == Spec => []TypeOK
<1>1. ConversationInv => TypeOK
  BY DEF ConversationInv, OrdersOK, MemoryOK, PastOK, TypeOK
<1> QED BY <1>1, ConversationSafe, PTL

(* The guided flow, a pending decision and a supplier selection never      *)
(* overlap, whatever is written, expires or is rebuilt (router.py).        *)
THEOREM ModesExclude == Spec => []OneModeAtATime
<1>1. ConversationInv => OneModeAtATime
  <2> SUFFICES ASSUME ConversationInv, NEW s \in Senders,
                      NEW i \in 1..3, NEW j \in 1..3,
                      LET modes == <<chat[s].guided # "none", chat[s].awaiting, chat[s].selecting>>
                      IN  modes[i] /\ modes[j]
               PROVE  i = j
    BY DEF OneModeAtATime
  <2>1. \/ chat[s].guided = "none" /\ ~ chat[s].awaiting /\ ~ chat[s].selecting
        \/ Awake(chat[s], Len(orders))
    BY MissAndFresh DEF ConversationInv, MemoryOK
  <2>2. /\ ~ (chat[s].awaiting /\ chat[s].selecting)
        /\ chat[s].guided # "none" => ~ chat[s].awaiting /\ ~ chat[s].selecting
    BY <2>1 DEF Awake
  <2> DEFINE modes == <<chat[s].guided # "none", chat[s].awaiting, chat[s].selecting>>
  <2>3. i \in {1, 2, 3} /\ j \in {1, 2, 3}
    OBVIOUS
  <2>4. /\ modes[1] = (chat[s].guided # "none")
        /\ modes[2] = chat[s].awaiting
        /\ modes[3] = chat[s].selecting
    OBVIOUS
  <2>5. modes[i] /\ modes[j]
    OBVIOUS
  <2> HIDE DEF modes
  <2>6. ~ (modes[1] /\ modes[2]) /\ ~ (modes[1] /\ modes[3]) /\ ~ (modes[2] /\ modes[3])
    BY <2>2, <2>4
  <2> QED BY <2>3, <2>5, <2>6
<1> QED BY <1>1, ConversationSafe, PTL

(* A conversation names an order exactly while it decides it or buys for   *)
(* it (dispatch.py, router.py).                                            *)
THEOREM NamedOrderIsBeingDecided == Spec => []OrderIsBeingDecided
<1>1. ConversationInv => OrderIsBeingDecided
  BY MissAndFresh DEF ConversationInv, MemoryOK, Awake, OrderIsBeingDecided
<1> QED BY <1>1, ConversationSafe, PTL

(* An order that a message creates, for the first time or delivered again  *)
(* at whatever later time (webhook.py), has only lines that were gathered  *)
(* since the sender's last order.                                          *)
THEOREM RepeatsOrderNothingTwice == Spec => LinesAreOrderedOnce
<1> DEFINE Once == \A s \in Senders :
                     Created /\ Turn(s) => orders'[Len(orders')].lines \subseteq past[s].since
<1>1. ConversationInv /\ [Next]_vars => [Once]_vars
  BY TurnStep DEF Turn
<1> HIDE DEF Once
<1>2. Spec => [][Once]_vars
  BY <1>1, ConversationSafe, PTL DEF Spec
<1> QED BY <1>2 DEF LinesAreOrderedOnce, Once

(* A decision without a number falls on the draft the conversation waits   *)
(* for, and that one is never older than the one it quoted last, if this   *)
(* is still open, however often the memory was rebuilt (session.py).       *)
LEMMA DecisionStep ==
  ASSUME ConversationInv, NEW s \in Senders, NEW o \in With("DRAFT"),
         past[s].quoted \in With("DRAFT"), orders'[o].estado # "DRAFT",
         NEW m \in Messages, m.ref = 0, Handle(s, m)
  PROVE  o >= past[s].quoted
<1>1. PICK st : /\ Handled(s, st, m)
                /\ st.awaiting => \/ chat[s].awaiting /\ st.order = chat[s].order
                                  \/ \A q \in With("DRAFT") : st.order >= q
  BY HandleOK DEF ConversationInv
<1>2. st.awaiting /\ o = st.order
  BY <1>1 DEF Handled, With, Target
<1> QED BY <1>1, <1>2 DEF ConversationInv, PastOK

THEOREM QuotedDraftIsNotPassedOver == Spec => NeverAnOlderDraft
<1> DEFINE Newer == \A s \in Senders, o \in With("DRAFT") :
                      /\ past[s].quoted \in With("DRAFT") /\ orders'[o].estado # "DRAFT"
                      /\ \E m \in Messages : m.ref = 0 /\ Handle(s, m)
                      => o >= past[s].quoted
<1>1. ConversationInv /\ [Next]_vars => [Newer]_vars
  BY DecisionStep
<1> HIDE DEF Newer
<1>2. Spec => [][Newer]_vars
  BY <1>1, ConversationSafe, PTL DEF Spec
<1> QED BY <1>2 DEF NeverAnOlderDraft, Newer

=============================================================================
