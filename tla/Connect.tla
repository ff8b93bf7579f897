-------------------------------- MODULE Connect --------------------------------
(***************************************************************************)
(* internal/connector/facebook, oauth*.go: a brand connects what it owns   *)
(* at Meta.  The callback of the consent screen subscribes each page and   *)
(* writes its row, finds the page's Instagram account and writes its row,  *)
(* then walks businesses, WhatsApp accounts and phone numbers.  Every row  *)
(* is an upsert of its own keyed by Meta's id, so an asset two brands own  *)
(* belongs to the callback that wrote it last, asset by asset.             *)
(***************************************************************************)
EXTENDS Naturals, Sequences

CONSTANTS
  Callbacks,     \* consents, one callback request each
  TenantOf,      \* the tenant in the callback's state
  Pages, PagesOf,     \* PagesOf[c]: the pages of /me/accounts, in order
  Accounts, IgOf,     \* IgOf[p]: the Instagram account linked to a page, or None
  Numbers, BusinessesOf,  \* BusinessesOf[c]: businesses, each a sequence of WhatsApp
  PhonesOf,               \* accounts; PhonesOf[w]: the phone numbers of one, in order
  None,
  MaxFaults      \* bound on failed calls and statements, and crashes

BoundAssumption == MaxFaults \in Nat

VARIABLES
  pc,          \* where the callback is
  todo,        \* what its loops have left: pages, businesses, wabas and phones
  pageRow,     \* fb_pages: the tenant of a page
  igRow,       \* ig_accounts: tenant and fb_page_id
  phoneRow,    \* wa_phone_numbers: tenant and waba_id
  subscribed,  \* pages and WhatsApp accounts Meta delivers for
  refused,     \* WhatsApp accounts whose subscription failed, history
  torn,        \* pages written while, or with, an Instagram row that was not, history
  faults

vars == <<pc, todo, pageRow, igRow, phoneRow, subscribed, refused, torn, faults>>

Brands == {TenantOf[c] : c \in Callbacks}
Wabas == DOMAIN PhonesOf
AssetAssumption ==
  /\ PagesOf \in [Callbacks -> Seq(Pages)] /\ IgOf \in [Pages -> Accounts \cup {None}]
  /\ BusinessesOf \in [Callbacks -> Seq(Seq(Wabas))] /\ PhonesOf \in [Wabas -> Seq(Numbers)]
  /\ None \notin Brands \cup Accounts
NothingToDo == [pages |-> <<>>, businesses |-> <<>>, wabas |-> <<>>, phones |-> <<>>]

TypeOK ==
  /\ pc \in [Callbacks -> {"start", "exchange", "extend", "list", "page", "upsert", "ig", "igrow",
                           "businesses", "business", "waba", "phones", "phone", "done"}]
  /\ \A c \in Callbacks :
       /\ todo[c].pages \in Seq(Pages) /\ todo[c].wabas \in Seq(Wabas) /\ todo[c].phones \in Seq(Numbers)
       /\ pc[c] \in {"page", "upsert", "ig", "igrow"} => todo[c].pages # <<>>
       /\ pc[c] \in {"waba", "phones", "phone"} => todo[c].wabas # <<>>
       /\ pc[c] = "phone" => todo[c].phones # <<>>
  /\ pageRow \in [Pages -> Brands \cup {None}]
  /\ igRow \in [Accounts -> [tenant : Brands, page : Pages] \cup {None}]
  /\ phoneRow \in [Numbers -> [tenant : Brands, waba : Wabas] \cup {None}]
  /\ subscribed \subseteq Pages \cup Wabas /\ refused \subseteq Wabas /\ torn \subseteq Pages
  /\ faults \in 0..MaxFaults

Init ==
  /\ pc = [c \in Callbacks |-> "start"] /\ todo = [c \in Callbacks |-> NothingToDo]
  /\ pageRow = [p \in Pages |-> None] /\ igRow = [i \in Accounts |-> None]
  /\ phoneRow = [n \in Numbers |-> None]
  /\ subscribed = {} /\ refused = {} /\ torn = {} /\ faults = 0

Fault == faults < MaxFaults /\ faults' = faults + 1
Goto(c, l) == pc' = [pc EXCEPT ![c] = l]
Page(c) == Head(todo[c].pages)
Waba(c) == Head(todo[c].wabas)
rows == <<pageRow, igRow, phoneRow>>

\* A GET whose failure ends the request.
Get(c, from, to) ==
  /\ pc[c] = from
  /\ \/ Goto(c, to) /\ UNCHANGED faults
     \/ Fault /\ Goto(c, "done")
  /\ UNCHANGED <<todo, rows, subscribed, refused, torn>>
-----------------------------------------------------------------------------
\* The consent dialog; its state carries the tenant to the callback.
Start(c) ==
  /\ pc[c] = "start" /\ Goto(c, "exchange")
  /\ UNCHANGED <<todo, rows, subscribed, refused, torn, faults>>

exchangeCode(c) == Get(c, "exchange", "extend")
extendToken(c) == Get(c, "extend", "list")

listPages(c) ==
  /\ pc[c] = "list"
  /\ \/ /\ Goto(c, IF PagesOf[c] = <<>> THEN "done" ELSE "page")
        /\ todo' = [todo EXCEPT ![c].pages = PagesOf[c]] /\ UNCHANGED faults
     \/ Fault /\ Goto(c, "done") /\ UNCHANGED todo
  /\ UNCHANGED <<rows, subscribed, refused, torn>>

\* On to the next page, or to WhatsApp.
NextPage(c) ==
  /\ todo' = [todo EXCEPT ![c].pages = Tail(todo[c].pages)]
  /\ Goto(c, IF Len(todo[c].pages) = 1 THEN "businesses" ELSE "page")

subscribePage(c) ==
  /\ pc[c] = "page"
  /\ \/ subscribed' = subscribed \cup {Page(c)} /\ Goto(c, "upsert") /\ UNCHANGED <<todo, faults>>
     \/ Fault /\ NextPage(c) /\ UNCHANGED subscribed
  /\ UNCHANGED <<rows, refused, torn>>

\* Another callback has written the page and not yet its account.
Halfway(c) == \E d \in Callbacks \ {c} : pc[d] \in {"ig", "igrow"} /\ Page(d) = Page(c)

upsertPage(c) ==
  /\ pc[c] = "upsert"
  /\ \/ /\ pageRow' = [pageRow EXCEPT ![Page(c)] = TenantOf[c]]
        /\ torn' = IF Halfway(c) THEN torn \cup {Page(c)} ELSE torn \ {Page(c)}
        /\ Goto(c, "ig") /\ UNCHANGED <<todo, faults>>
     \/ Fault /\ NextPage(c) /\ UNCHANGED <<pageRow, torn>>
  /\ UNCHANGED <<igRow, phoneRow, subscribed, refused>>

\* A failure reads as a page without an account.
discoverIGForPage(c) ==
  /\ pc[c] = "ig"
  /\ \/ /\ IgOf[Page(c)] # None /\ Goto(c, "igrow") /\ UNCHANGED <<todo, torn, faults>>
     \/ /\ IgOf[Page(c)] = None /\ NextPage(c) /\ UNCHANGED <<torn, faults>>
     \/ /\ Fault /\ NextPage(c) /\ torn' = torn \cup {Page(c)}
  /\ UNCHANGED <<rows, subscribed, refused>>

\* Mutant: the conflicting row keeps its tenant.
MutIgUpsert(row, c) ==
  [tenant |-> IF row = None THEN TenantOf[c] ELSE row.tenant, page |-> Page(c)]

IgUpsert(row, c) == [tenant |-> TenantOf[c], page |-> Page(c)]

upsertIGAccount(c) ==
  /\ pc[c] = "igrow"
  /\ \/ /\ igRow' = [igRow EXCEPT ![IgOf[Page(c)]] = IgUpsert(@, c)]
        /\ UNCHANGED <<torn, faults>>
     \/ Fault /\ torn' = torn \cup {Page(c)} /\ UNCHANGED igRow
  /\ NextPage(c)
  /\ UNCHANGED <<pageRow, phoneRow, subscribed, refused>>
-----------------------------------------------------------------------------
\* From here on a failure is logged and the response is sent.
listBusinesses(c) ==
  /\ pc[c] = "businesses"
  /\ \/ todo' = [todo EXCEPT ![c].businesses = BusinessesOf[c]] /\ Goto(c, "business") /\ UNCHANGED faults
     \/ Fault /\ Goto(c, "done") /\ UNCHANGED todo
  /\ UNCHANGED <<rows, subscribed, refused, torn>>

listWABAs(c) ==
  /\ pc[c] = "business"
  /\ LET bs == todo[c].businesses
     IN  \/ bs = <<>> /\ Goto(c, "done") /\ UNCHANGED <<todo, faults>>
         \/ /\ bs # <<>>
            /\ todo' = [todo EXCEPT ![c].businesses = Tail(bs), ![c].wabas = Head(bs)]
            /\ Goto(c, IF Head(bs) = <<>> THEN "business" ELSE "waba") /\ UNCHANGED faults
         \/ bs # <<>> /\ Fault /\ todo' = [todo EXCEPT ![c].businesses = Tail(bs)] /\ UNCHANGED pc
  /\ UNCHANGED <<rows, subscribed, refused, torn>>

NextWaba(c) ==
  /\ todo' = [todo EXCEPT ![c].wabas = Tail(@), ![c].phones = <<>>]
  /\ Goto(c, IF Len(todo[c].wabas) = 1 THEN "business" ELSE "waba")

\* The failure is logged, and the numbers are written as subscribed all the same.
subscribeWABA(c) ==
  /\ pc[c] = "waba"
  /\ Goto(c, "phones")
  /\ \/ subscribed' = subscribed \cup {Waba(c)} /\ UNCHANGED <<refused, faults>>
     \/ Fault /\ refused' = refused \cup {Waba(c)} /\ UNCHANGED subscribed
  /\ UNCHANGED <<todo, rows, torn>>

listPhones(c) ==
  /\ pc[c] = "phones"
  /\ LET ns == PhonesOf[Waba(c)]
     IN  \/ ns # <<>> /\ todo' = [todo EXCEPT ![c].phones = ns] /\ Goto(c, "phone") /\ UNCHANGED faults
         \/ ns = <<>> /\ NextWaba(c) /\ UNCHANGED faults
         \/ Fault /\ NextWaba(c)
  /\ UNCHANGED <<rows, subscribed, refused, torn>>

upsertWAPhone(c) ==
  /\ pc[c] = "phone"
  /\ LET n == Head(todo[c].phones)
     IN  \/ /\ phoneRow' = [phoneRow EXCEPT ![n] = [tenant |-> TenantOf[c], waba |-> Waba(c)]]
            /\ UNCHANGED faults
         \/ Fault /\ UNCHANGED phoneRow
  /\ IF Len(todo[c].phones) = 1 THEN NextWaba(c)
                                ELSE todo' = [todo EXCEPT ![c].phones = Tail(todo[c].phones)] /\ UNCHANGED pc
  /\ UNCHANGED <<pageRow, igRow, subscribed, refused, torn>>

\* The process dies, or the browser leaves and the context of every call with it.
Crash(c) ==
  /\ pc[c] \notin {"start", "done"} /\ Fault
  /\ Goto(c, "done")
  /\ torn' = IF pc[c] \in {"ig", "igrow"} THEN torn \cup {Page(c)} ELSE torn
  /\ UNCHANGED <<todo, rows, subscribed, refused>>

Callback(c) ==
  \/ exchangeCode(c) \/ extendToken(c) \/ listPages(c)
  \/ subscribePage(c) \/ upsertPage(c) \/ discoverIGForPage(c) \/ upsertIGAccount(c)

discoverAndPersistWA(c) ==
  listBusinesses(c) \/ listWABAs(c) \/ subscribeWABA(c) \/ listPhones(c) \/ upsertWAPhone(c)

Next == \E c \in Callbacks : Start(c) \/ Callback(c) \/ discoverAndPersistWA(c) \/ Crash(c)
Spec == Init /\ [][Next]_vars
-----------------------------------------------------------------------------
\* What the channels page shows a tenant, every row with webhook_subscribed TRUE.
ListConnected(t) == {p \in Pages : pageRow[p] = t}
ListConnectedIG(t) == {i \in Accounts : igRow[i] # None /\ igRow[i].tenant = t}
ListConnectedWA(t) == {n \in Numbers : phoneRow[n] # None /\ phoneRow[n].tenant = t}

\* An Instagram account is listed for the tenant its page is listed for, so
\* both channels of a brand reach the same inbox, unless two callbacks wrote
\* the page and the account in different orders or the account was not written.
AccountsFollowPages ==
  \A t \in Brands : \A i \in ListConnectedIG(t) :
    LET p == igRow[i].page
    IN  \/ p \in ListConnected(t)
        \/ p \in torn
        \/ \E c \in Callbacks : pc[c] \in {"ig", "igrow"} /\ Page(c) = p

\* What is shown as subscribed is subscribed, except the numbers of a WhatsApp
\* account Meta refused to subscribe.
ShownIsSubscribed ==
  \A t \in Brands :
    /\ ListConnected(t) \subseteq subscribed
    /\ \A n \in ListConnectedWA(t) : phoneRow[n].waba \in subscribed \cup refused
=============================================================================
