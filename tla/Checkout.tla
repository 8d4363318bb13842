------------------------------ MODULE Checkout ------------------------------
(***************************************************************************)
(* A consumer in one browser tab: the cart kept in the tab's storage, the  *)
(* checkout page, and the calls it makes to order-service, payment-service *)
(* and Stripe.  The page reads its form when the button is pressed and     *)
(* goes on with those values; leaving the page does not stop the calls.    *)
(* Nothing ties two presses for one cart together.                         *)
(***************************************************************************)
EXTENDS ShippingFee, FiniteSets, Functions

CONSTANTS
  Dish,         \* ids of menu items
  Merchant,     \* ids of merchants
  NoMerchant,   \* the merchant of an empty cart
  Kitchen,      \* the merchant of each dish
  Price,        \* the price of each dish
  Place,        \* places: an address is its text, a point its coordinates
  NoPlace,      \* no address, no location being looked up
  Here,         \* the point the map opens with
  Metres,       \* how far each place is from where the page measures
  Order,        \* ids of orders, one for each press of the button
  Hour,         \* hours of the day at which a fee is worked out
  Sky,          \* weather reports
  Code,         \* what a consumer types as a code
  MaxQuantity,  \* bound on the pieces of one dish
  MaxClicks     \* bound on the consumer's clicks

ASSUME PlacesAssumption ==
  /\ NoMerchant \notin Merchant /\ NoPlace \notin Place /\ Here \in Place
  /\ Kitchen \in [Dish -> Merchant]
  /\ Metres \in [Place -> Nat]
ASSUME PricesAssumption == Price \in [Dish -> Nat] /\ IsFiniteSet(Dish)
ASSUME FeesAssumption == Hour \subseteq 0 .. 23 /\ Sky \subseteq Weather
ASSUME CodesAssumption == {"", "PROMO10", "PROMO20"} \subseteq Code
ASSUME ClicksAssumption == MaxQuantity \in Nat /\ MaxClicks \in Nat

VARIABLES
  cart,        \* the cart store
  page,        \* where the tab is
  form,        \* the checkout page's fields
  flow,        \* how far each press of the button has come
  asked,       \* the form each press went on with
  orders,      \* the total of each order in order-service, or NoTotal
  payments,    \* the amount of each order's payment, or NoTotal
  authorised,  \* the orders whose card payment Stripe holds
  told,        \* the orders the success screen was shown for
  basket,      \* history: how many carts were emptied by an order
  visits,      \* visits to the checkout page so far
  clicks       \* the consumer's clicks so far, but for leaving the page

services == <<orders, payments, authorised>>
tab == <<cart, page, form, basket, visits>>
checkoutVars == <<cart, page, form, flow, asked, orders, payments, authorised, told,
                  basket, visits, clicks>>

NoTotal == -1
Total == Nat \cup {NoTotal}

(* A saved debit card can be chosen, but fields are shown for CREDIT_CARD. *)
Method == {"CASH", "CREDIT_CARD", "DEBIT_CARD"}

(* A fee request the page is waiting for; only the last one is live.       *)
Quote == [point : Place, live : BOOLEAN]

(* card says what the fields of the card hold: stale when they were        *)
(* unmounted after the page had noted that they are complete, which it     *)
(* then goes on believing; gone, that the field of the press under way was *)
(* unmounted.  via says how address and point came about: nothing chosen, from the     *)
(* list of suggestions, from the device, one of them by hand, or one while *)
(* the address of the other was looked up.                                 *)
Form == [text : Place \cup {NoPlace}, point : Place, looking : Place \cup {NoPlace},
         via : {"nothing", "list", "device", "hand", "race"},
         quotes : SUBSET Quote, fee : Nat,
         code : Code, discount : Nat, stale : BOOLEAN,
         method : Method, card : {"none", "complete", "stale"}, gone : BOOLEAN]

Blank == [text |-> NoPlace, point |-> Here, looking |-> NoPlace, via |-> "nothing",
          quotes |-> {[point |-> Here, live |-> TRUE]}, fee |-> 0,
          code |-> "", discount |-> 0, stale |-> FALSE,
          method |-> "CASH", card |-> "none", gone |-> FALSE]

Cart == [kitchen : Merchant \cup {NoMerchant}, qty : [Dish -> 0 .. MaxQuantity]]
Empty == [kitchen |-> NoMerchant, qty |-> [d \in Dish |-> 0]]

(* What a press of the button went on with: the cart, the form, what the   *)
(* page showed, and which cart and visit it was.                           *)
Asked == [cart : Cart, form : Form, shown : Nat, basket : Nat, visit : Nat]
NotAsked == [cart |-> Empty, form |-> Blank, shown |-> 0, basket |-> 0, visit |-> 0]

CheckoutTypeOK ==
  /\ cart \in Cart
  /\ page \in {"shop", "checkout", "success"}
  /\ form \in Form
  /\ flow \in [Order -> {"new", "placing", "placed", "intent", "charging", "closing",
                         "done", "failed"}]
  /\ asked \in [Order -> Asked]
  /\ orders \in [Order -> Total]
  /\ payments \in [Order -> Total]
  /\ authorised \in SUBSET Order
  /\ told \in SUBSET Order
  /\ basket \in Nat /\ visits \in Nat /\ clicks \in Nat

CheckoutInit ==
  /\ cart = Empty
  /\ page = "shop"
  /\ form = Blank
  /\ flow = [o \in Order |-> "new"]
  /\ asked = [o \in Order |-> NotAsked]
  /\ orders = [o \in Order |-> NoTotal]
  /\ payments = [o \in Order |-> NoTotal]
  /\ authorised = {}
  /\ told = {}
  /\ basket = 0 /\ visits = 0 /\ clicks = 0

-----------------------------------------------------------------------------
Click == clicks < MaxClicks /\ clicks' = clicks + 1

(* The cart store.                                                         *)

(* Mutant: dishes of another merchant are added to the cart.               *)
AddedBeside(c, d) == [kitchen |-> Kitchen[d], qty |-> [c.qty EXCEPT ![d] = @ + 1]]

(* addItem: a dish of another merchant replaces the cart.                  *)
WithDish(c, d) ==
  LET own == IF c.kitchen \in {NoMerchant, Kitchen[d]} THEN c.qty ELSE Empty.qty IN
  [kitchen |-> Kitchen[d], qty |-> [own EXCEPT ![d] = @ + 1]]

(* updateQuantity, and removeItem when nothing is left of the dish.        *)
WithQuantity(c, d, n) ==
  LET qty == [c.qty EXCEPT ![d] = n] IN
  [kitchen |-> IF \A e \in Dish : qty[e] = 0 THEN NoMerchant ELSE c.kitchen, qty |-> qty]

(* clearCart.                                                              *)
Cleared(c) == Empty

Browse(c) ==
  /\ page = "shop"
  /\ Click
  /\ cart' = c
  /\ UNCHANGED <<page, form, flow, asked, services, told, basket, visits>>

AddItem(d) == cart.qty[d] < MaxQuantity /\ Browse(WithDish(cart, d))

UpdateQuantity(d, n) ==
  /\ cart.qty[d] > 0 /\ n \in {0, cart.qty[d] - 1, cart.qty[d] + 1}
  /\ Browse(WithQuantity(cart, d, n))

ClearCart == cart # Empty /\ Browse(Cleared(cart))

Subtotal(c) == SumFunction([d \in Dish |-> Price[d] * c.qty[d]])

-----------------------------------------------------------------------------
(* The checkout page.                                                      *)

(* The page mounts with a blank form; the first fee is asked for.          *)
OpenCheckout ==
  /\ page = "shop"
  /\ cart.kitchen # NoMerchant
  /\ Click
  /\ page' = "checkout"
  /\ form' = Blank
  /\ visits' = visits + 1
  /\ UNCHANGED <<cart, flow, asked, services, told, basket>>

(* Fees that were asked for come back to a page that is gone.              *)
LeaveCheckout ==
  /\ page \in {"checkout", "success"}
  /\ page' = "shop"
  /\ form' = Blank
  /\ UNCHANGED <<cart, flow, asked, services, told, basket, visits, clicks>>

(* Mutant: a request for the fee of another point is not cancelled.        *)
LeftLive(f, p) ==
  IF p = f.point THEN f
  ELSE [f EXCEPT !.point = p, !.quotes = @ \cup {[point |-> p, live |-> TRUE]}]

(* A new point cancels the request under way and starts another.           *)
Moved(f, p) ==
  IF p = f.point THEN f
  ELSE [f EXCEPT !.point = p,
                 !.quotes = {[q EXCEPT !.live = FALSE] : q \in @}
                              \cup {[point |-> p, live |-> TRUE]}]

(* Where a choice leaves the address while a location is looked up.        *)
Via(f, how) == IF f.looking = NoPlace THEN how ELSE "race"

(* A form that changes on the page.                                        *)
Becomes(f) ==
  /\ page = "checkout"
  /\ form' = f
  /\ UNCHANGED <<cart, page, flow, asked, services, told, basket, visits>>

Edit(f) == Click /\ Becomes(f)

(* handleCustomAddressChange, and the buttons that choose a saved address  *)
(* or start a new one: a saved address comes without the text and the      *)
(* coordinates the page reads.                                             *)
TypeAddress(p) == Edit([form EXCEPT !.text = p, !.via = Via(form, "hand")])

(* Mutant: the map does not follow the address.                            *)
TextOnly(f, p) == [f EXCEPT !.text = p, !.via = Via(f, "list")]

(* selectSuggestion.                                                       *)
Suggested(f, p) == [Moved(f, p) EXCEPT !.text = p, !.via = Via(f, "list")]

SelectSuggestion(p) == Edit(Suggested(form, p))

(* A click on the map moves the point only.                                *)
ClickMap(p) == Edit([Moved(form, p) EXCEPT !.via = Via(form, "hand")])

(* detectMyLocation: the device answers with a point, and then the address *)
(* of that point is looked up; when that fails its coordinates are the     *)
(* address.                                                                *)
Locate(p) ==
  /\ form.looking = NoPlace
  /\ Edit([Moved(form, p) EXCEPT !.looking = p, !.via = "device"])

AddressFound ==
  /\ form.looking # NoPlace
  /\ UNCHANGED clicks
  /\ Becomes([form EXCEPT !.text = form.looking, !.looking = NoPlace])

(* Mutant: the answer is used whatever happened since.                     *)
AnyAnswer(f, q, fee) == [f EXCEPT !.quotes = @ \ {q}, !.fee = fee]

Answered(f, q, fee) == [f EXCEPT !.quotes = @ \ {q}, !.fee = IF q.live THEN fee ELSE @]

(* The fee effect: calculateShippingFee answers for one of the requests.   *)
FeeArrives(q, h, w) ==
  /\ q \in form.quotes
  /\ UNCHANGED clicks
  /\ Becomes(Answered(form, q, PageFee(Metres[q.point], h, w)))

(* The total on the page.                                                  *)

DeliveryFee(f) == IF f.fee = 0 THEN 15000 ELSE f.fee
ServiceCharge(c) == Round(Subtotal(c), 50)

Sum(c, f) == Subtotal(c) + DeliveryFee(f) + ServiceCharge(c) - f.discount

(* Mutant: a total is not kept from falling below zero.                    *)
BelowZero(c, f) == Sum(c, f)

ShownTotal(c, f) == IF Sum(c, f) < 0 THEN 0 ELSE Sum(c, f)

(* What a code takes off.                                                  *)
Off(code, subtotal) ==
  CASE code = "PROMO10" -> Round(subtotal, 10)
    [] code = "PROMO20" -> 20000
    [] OTHER -> 0

Typed(f, code) == [f EXCEPT !.code = code, !.discount = 0, !.stale = FALSE]

TypeCode(code) == code # form.code /\ Edit(Typed(form, code))

(* Mutant: a share of the total with its fees.                             *)
OffTheTotal(f, c) ==
  [f EXCEPT !.discount = Off(f.code, ShownTotal(c, f)), !.stale = FALSE]

Applied(f, c) == [f EXCEPT !.discount = Off(f.code, Subtotal(c)), !.stale = FALSE]

(* applyPromo.                                                             *)
ApplyCode == form.code # "" /\ Edit(Applied(form, cart))

(* The buttons with a code write it and then apply the code of the last    *)
(* rendering.                                                              *)
QuickCode(code) ==
  Edit([form EXCEPT !.code = code,
                    !.discount = IF form.code = "" THEN @ ELSE Off(form.code, Subtotal(cart)),
                    !.stale = code # form.code])

(* Has a press of this visit taken the card field for Stripe?              *)
FieldTaken == \E o \in Order : asked[o].visit = visits /\ flow[o] \in {"intent", "charging"}

(* Another method unmounts the fields of the card and keeps what the page  *)
(* noted about them.                                                       *)
Unmounted(f, m) ==
  IF f.method # "CREDIT_CARD" THEN [f EXCEPT !.method = m]
  ELSE [f EXCEPT !.method = m, !.gone = @ \/ FieldTaken,
                 !.card = IF @ = "complete" THEN "stale" ELSE @]

ChooseMethod(m) == m # form.method /\ Edit(Unmounted(form, m))

(* StripeCardFields: the fields say whether they are complete.             *)
TypeCard(card) ==
  /\ form.method = "CREDIT_CARD" /\ card # form.card
  /\ Edit([form EXCEPT !.card = card])

-----------------------------------------------------------------------------
(* Mutant: the service fee is forgotten.                                   *)
WithoutService(o) ==
  LET a == asked[o] IN Subtotal(a.cart) + DeliveryFee(a.form) - a.form.discount

(* Order.place: the total from the dishes, the fees and the discount that  *)
(* were sent.                                                              *)
PlacedTotal(o) == Sum(asked[o].cart, asked[o].form)

(* Mutant: the button can be pressed while the page is busy.               *)
NeverBusy(v) == FALSE

(* The button is disabled while this visit's press is under way.           *)
ButtonBusy(v) ==
  \E o \in Order : asked[o].visit = v /\ flow[o] \notin {"new", "done", "failed"}

(* What the rest of handlePlaceOrder knows of the form: nothing of the     *)
(* fields of the card, which it looks up when it needs them.               *)
Read(f) == [f EXCEPT !.card = "none", !.gone = FALSE, !.quotes = {q \in @ : q.live}]

(* handlePlaceOrder up to its first call.                                  *)
PressButton(o) ==
  /\ page = "checkout"
  /\ flow[o] = "new"
  /\ ~ButtonBusy(visits)
  /\ Click
  /\ form.text # NoPlace
  /\ form.method = "CREDIT_CARD" => form.card # "none"
  /\ flow' = [flow EXCEPT ![o] = "placing"]
  /\ asked' = [asked EXCEPT ![o] = [cart |-> cart, form |-> Read(form),
                                    shown |-> ShownTotal(cart, form),
                                    basket |-> basket, visit |-> visits]]
  /\ UNCHANGED <<tab, services, told>>

-----------------------------------------------------------------------------
(* The calls.                                                              *)

Step(o, from, to) ==
  /\ flow[o] = from
  /\ flow' = [flow EXCEPT ![o] = to]

(* Is the page that pressed the button still there?                        *)
OnItsPage(o) == page = "checkout" /\ asked[o].visit = visits

(* orderApi.place.                                                         *)
PlaceOrder(o) ==
  /\ PlacedTotal(o) >= 0
  /\ Step(o, "placing", "placed")
  /\ orders' = [orders EXCEPT ![o] = PlacedTotal(o)]
  /\ UNCHANGED <<tab, clicks, asked, payments, authorised, told>>

(* paymentApi.create: an amount of at least 1; a failure is passed over.   *)
PayCash(o) ==
  /\ asked[o].form.method = "CASH"
  /\ Step(o, "placed", "closing")
  /\ \/ orders[o] >= 1 /\ payments' = [payments EXCEPT ![o] = orders[o]]
     \/ UNCHANGED payments
  /\ UNCHANGED <<tab, clicks, asked, orders, authorised, told>>

(* paymentApi.createStripePayment: an intent, and then the payment.  It    *)
(* takes the card field the page shows now, whatever was chosen then.      *)
CreateIntent(o) ==
  /\ asked[o].form.method # "CASH"
  /\ OnItsPage(o) /\ form.method = "CREDIT_CARD"
  /\ orders[o] >= 1
  /\ Step(o, "placed", "intent")
  /\ form' = [form EXCEPT !.gone = FALSE]
  /\ UNCHANGED <<cart, page, basket, visits, clicks, asked, services, told>>

SavePayment(o) ==
  /\ Step(o, "intent", "charging")
  /\ payments' = [payments EXCEPT ![o] = orders[o]]
  /\ UNCHANGED <<tab, clicks, asked, orders, authorised, told>>

(* stripe.confirmCardPayment with the card field that was taken.           *)
ConfirmCard(o) ==
  /\ OnItsPage(o) /\ ~form.gone /\ form.card = "complete"
  /\ Step(o, "charging", "closing")
  /\ authorised' = authorised \cup {o}
  /\ UNCHANGED <<tab, clicks, asked, orders, payments, told>>

(* Mutant: a card that is declined ends the page's work like one that is   *)
(* not.                                                                    *)
DeclinedToo(o) ==
  /\ \/ flow[o] = "placing"
     \/ asked[o].form.method # "CASH"
        /\ flow[o] \in {"placed", "intent", "charging", "closing"}
  /\ flow' = [flow EXCEPT ![o] = IF @ = "charging" THEN "closing" ELSE "failed"]
  /\ UNCHANGED <<tab, clicks, asked, services, told>>

(* A call fails, a card is declined, or the answer to a call that was done *)
(* is lost: an error, and the button is enabled again.  A cash payment     *)
(* that fails is not an error (PayCash).                                   *)
CallFails(o) ==
  /\ \/ flow[o] \in {"placing", "placed"}
     \/ /\ asked[o].form.method # "CASH"
        /\ flow[o] \in {"intent", "charging", "closing"}
  /\ flow' = [flow EXCEPT ![o] = "failed"]
  /\ UNCHANGED <<tab, clicks, asked, services, told>>

(* clearCart and setSuccessOrder; the attempt to complete a card payment   *)
(* before that changes nothing, since it is HELD.  A page that is gone     *)
(* still clears the cart, and a checkout page whose cart is gone leads     *)
(* back to the shop.                                                       *)
FinishOrder(o) ==
  /\ Step(o, "closing", "done")
  /\ cart' = Cleared(cart)
  /\ basket' = basket + 1
  /\ LET own == page \in {"checkout", "success"} /\ asked[o].visit = visits IN
     /\ told' = IF own THEN told \cup {o} ELSE told
     /\ page' = IF own THEN "success" ELSE IF page = "checkout" THEN "shop" ELSE page
     /\ form' = IF page = "checkout" THEN Blank ELSE form
  /\ UNCHANGED <<asked, services, visits, clicks>>

CheckoutNext ==
  \/ \E d \in Dish : AddItem(d) \/ \E n \in 0 .. MaxQuantity : UpdateQuantity(d, n)
  \/ ClearCart
  \/ OpenCheckout
  \/ LeaveCheckout
  \/ \E p \in Place : \/ SelectSuggestion(p)
                      \/ ClickMap(p)
                      \/ Locate(p)
  \/ \E p \in Place \cup {NoPlace} : TypeAddress(p)
  \/ AddressFound
  \/ \E q \in Quote, h \in Hour, w \in Sky : FeeArrives(q, h, w)
  \/ \E code \in Code : TypeCode(code)
  \/ \E code \in {"PROMO10", "PROMO20"} : QuickCode(code)
  \/ ApplyCode
  \/ \E m \in Method : ChooseMethod(m)
  \/ \E card \in {"none", "complete"} : TypeCard(card)
  \/ \E o \in Order : \/ PressButton(o)
                      \/ PlaceOrder(o)
                      \/ PayCash(o)
                      \/ CreateIntent(o)
                      \/ SavePayment(o)
                      \/ ConfirmCard(o)
                      \/ CallFails(o)
                      \/ FinishOrder(o)

CheckoutSpec == CheckoutInit /\ [][CheckoutNext]_checkoutVars
-----------------------------------------------------------------------------
(* Properties.                                                             *)

Placed(o) == orders[o] # NoTotal

(* Dishes of two merchants never meet in a cart or in an order, and a cart *)
(* names a merchant exactly while there is a dish in it (cart.store.ts     *)
(* keeps items and merchantId apart and changes them in four places).      *)
OneMerchant(c) ==
  /\ \A d \in Dish : c.qty[d] > 0 => Kitchen[d] = c.kitchen
  /\ c.kitchen # NoMerchant => \E d \in Dish : c.qty[d] > 0

OneKitchen == OneMerchant(cart) /\ \A o \in Order : OneMerchant(asked[o].cart)

(* The delivery fee of an order is one for the point it is delivered to,   *)
(* whatever answers came late, unless the button was pressed while the fee *)
(* was still worked out.                                                   *)
FeeFor(f) ==
  (\E q \in f.quotes : q.live)
    \/ \E h \in Hour, w \in Sky : f.fee = PageFee(Metres[f.point], h, w)

FeeForThePlace == \A o \in Order : Placed(o) => FeeFor(asked[o].form)

(* The courier's point is the address the consumer read, unless one of the *)
(* two was put in by hand or a location was looked up meanwhile.           *)
AddressIsThePoint ==
  \A o \in Order :
    LET f == asked[o].form IN
    Placed(o) /\ f.via \in {"list", "device"} /\ f.looking = NoPlace => f.text = f.point

(* A discount is what the code on the page gives for the dishes of the     *)
(* order, or none, unless a button wrote a code and applied the one before *)
(* it.                                                                     *)
DiscountEarned ==
  \A o \in Order :
    LET a == asked[o] IN
    Placed(o) /\ ~a.form.stale =>
      a.form.discount \in {0, Off(a.form.code, Subtotal(a.cart))}

(* What is charged is what the page showed: the page's total and the one   *)
(* order-service works out from the parts are computed by different code.  *)
ShownIsCharged ==
  \A o \in Order :
    /\ Placed(o) => orders[o] = asked[o].shown
    /\ payments[o] # NoTotal => payments[o] = asked[o].shown

(* One cart is ordered a second time only after an error, or after leaving *)
(* the page while the first order was under way.                           *)
OrderedTwiceOnlyAfterError ==
  \A o1, o2 \in Order :
    /\ o1 # o2 /\ Placed(o1) /\ Placed(o2)
    /\ asked[o1].basket = asked[o2].basket
    /\ asked[o1].visit = asked[o2].visit
    => "failed" \in {flow[o1], flow[o2]}

(* The rest: one merchant, the point for the address, a discount that was  *)
(* earned, and no cart ordered twice without an error.                     *)
CheckoutInv ==
  /\ CheckoutTypeOK /\ OneKitchen /\ AddressIsThePoint /\ DiscountEarned
  /\ OrderedTwiceOnlyAfterError

(* What a consumer was told holds: an order that is confirmed exists and   *)
(* its money is held, or due in cash.                                      *)
InOrders == {o \in Order : Placed(o)}
Secured == {o \in InOrders : asked[o].form.method = "CASH"} \cup authorised

P == INSTANCE Purchase WITH ordered <- InOrders, secured <- Secured, confirmed <- told

FollowsPurchase == P!Spec
=============================================================================
