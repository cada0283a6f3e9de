-------------------------- MODULE McpServer_proofs --------------------------
(***************************************************************************)
(* The safety of the ordering server for every value of its constants:     *)
(* types and locals, action by action, then the inductive invariant and    *)
(* what follows from it; then that the server implements OrderLifecycle,   *)
(* and what else it promises of payments and orders.                       *)
(***************************************************************************)
EXTENDS McpServer, TLAPS

CallsOK == CallsType /\ LocalsOK

\* What a step does not touch keeps its type.
LEMMA Frame ==
  /\ WorldType /\ UNCHANGED <<now, faults>> => WorldType'
  /\ SwiggyType /\ UNCHANGED swiggy => SwiggyType'
  /\ StoresType /\ UNCHANGED stores => StoresType'
  /\ MemoryType /\ UNCHANGED memory => MemoryType'
  /\ BooksType /\ UNCHANGED books => BooksType'
  /\ ObservedType /\ UNCHANGED observed => ObservedType'
BY DEF WorldType, SwiggyType, StoresType, MemoryType, BooksType, ObservedType,
       swiggy, stores, memory, observed

-----------------------------------------------------------------------------
(* Moving a handler *)

LEMMA GotoType ==
  ASSUME CallsOK, NEW c \in Calls, NEW l \in Labels, NEW j \in Jobs,
         LocalsAt(l, j), Goto(c, l, j)
  PROVE  CallsOK'
BY DEF CallsOK, CallsType, LocalsOK, Goto

LEMMA JobAt ==
  ASSUME CallsOK, NEW c \in Calls
  PROVE  job[c] \in Jobs /\ LocalsAt(pc[c], job[c])
BY DEF CallsOK, CallsType, LocalsOK

LEMMA StepType ==
  ASSUME CallsOK, NEW c \in Calls, NEW l \in Labels, LocalsAt(l, job[c]), Step(c, l)
  PROVE  CallsOK'
BY GotoType, JobAt DEF Step

LEMMA NoJobType == NoJob \in Jobs
BY DEF NoJob, Jobs, Verticals, Methods

LEMMA ReturnType ==
  ASSUME CallsOK, NEW c \in Calls, Return(c)
  PROVE  CallsOK'
<1>1. LocalsAt("idle", NoJob)
  BY NoneAssumption DEF LocalsAt, NoJob, AllTools, Preparers, Orderers
<1> QED BY <1>1, NoJobType, GotoType DEF Return, Labels

LEMMA StayType ==
  ASSUME CallsOK, UNCHANGED calls
  PROVE  CallsOK'
BY DEF CallsOK, CallsType, LocalsOK, calls

LEMMA RequestType ==
  ASSUME NEW tool \in AllTools, NEW v \in Verticals
  PROVE  /\ Request(tool, v) \in Jobs
         /\ Request(tool, v).tool = tool /\ Request(tool, v).vert = v
         /\ Request(tool, v).then = "decide"
BY DEF Request, NoJob, Jobs, Verticals, Methods

LEMMA WriteType ==
  ASSUME WorldType, NEW a \in Addresses, NEW v \in Verticals, NEW b \in Baskets \cup {None}
  PROVE  Write(a, v, b) \in CartWrites
BY DEF WorldType, Write, CartWrites


\* A handler whose lookup has answered goes on with what it was looking for.
LEMMA FoundType ==
  ASSUME CallsOK, NEW c \in Calls, pc[c] \in {"look", "lookDisk", "adopt"},
         NEW cw \in CartWrites \cup {None}, Found(c, cw)
  PROVE  CallsOK'
<1> DEFINE j == [job[c] EXCEPT !.cw = cw]
           l == AfterLook(job[c], cw)
<1>1. job[c] \in Jobs /\ LocalsAt(pc[c], job[c])
  BY JobAt
<1>2. /\ j \in Jobs /\ j.cw = cw
      /\ j.tool = job[c].tool /\ j.addr = job[c].addr /\ j.ord = job[c].ord
      /\ j.seen = job[c].seen /\ j.pay = job[c].pay /\ j.then = job[c].then
  BY <1>1 DEF Jobs
<1> HIDE DEF j
<1>3. CASE job[c].then # "decide"
  <2>1. l \in {"history", "taste"}
    BY <1>1, <1>3 DEF AfterLook, Jobs
  <2>2. LocalsAt("history", j) /\ LocalsAt("taste", j)
    BY <1>1, <1>2, <1>3 DEF LocalsAt, Preparers, Orderers
  <2> QED BY <1>2, <2>1, <2>2, GotoType DEF Found, Labels, j
<1>4. CASE job[c].then = "decide" /\ Rebuilds(job[c], cw)
  <2>1. l = "resync"
    BY <1>4 DEF AfterLook
  <2>2. LocalsAt("resync", j)
    BY <1>1, <1>2, <1>4 DEF LocalsAt, Rebuilds, Preparers, Orderers
  <2> QED BY <1>2, <2>1, <2>2, GotoType DEF Found, Labels, j
<1>5. CASE job[c].then = "decide" /\ ~Rebuilds(job[c], cw)
  <2>1. l = "mint"
    BY <1>5 DEF AfterLook
  <2>2. LocalsAt("mint", j)
    BY <1>1, <1>2, <1>5 DEF LocalsAt, Preparers, Orderers
  <2> QED BY <1>2, <2>1, <2>2, GotoType DEF Found, Labels, j
<1> QED BY <1>3, <1>4, <1>5

-----------------------------------------------------------------------------
(* The last cart write *)

\* A file that takes a write, or fails to, keeps its type.
LEMMA FileType ==
  ASSUME TypeOK
  PROVE  /\ FileFails /\ UNCHANGED now => WorldType'
         /\ \A f \in CartWrites \cup {None} :
              FileIs(f) /\ UNCHANGED <<now, lastCart>> => MemoryType' /\ WorldType'
BY ConstantsAssumption DEF TypeOK, WorldType, MemoryType, FileFails, FileIs

LEMMA LookType ==
  ASSUME TypeOK, LocalsOK, NEW c \in Calls, Look(c)
  PROVE  TypeOK' /\ LocalsOK'
<1>1. CallsOK /\ pc[c] = "look" /\ LocalsAt("look", job[c])
  BY JobAt DEF TypeOK, CallsOK, Look, At
<1>2. LocalsAt("lookDisk", job[c])
  BY <1>1 DEF LocalsAt
<1>3. CallsOK'
  BY <1>1, <1>2, FoundType, StepType DEF Look, TypeOK, MemoryType, Labels
<1> QED BY <1>3, Frame DEF CallsOK, Look, TypeOK

LEMMA LookDiskType ==
  ASSUME TypeOK, LocalsOK, NEW c \in Calls, LookDisk(c)
  PROVE  TypeOK' /\ LocalsOK'
<1>1. CallsOK /\ pc[c] = "lookDisk" /\ job[c] \in Jobs /\ LocalsAt("lookDisk", job[c])
  BY JobAt DEF TypeOK, CallsOK, LookDisk, At
<1>4. WorldType'
  BY FileType DEF LookDisk, TypeOK, WorldType
<1>2. CASE Found(c, None)
  BY <1>1, <1>2, <1>4, FoundType, Frame DEF LookDisk, CallsOK, TypeOK
<1>3. CASE diskCart # None /\ ~Found(c, None)
  <2> DEFINE j == [job[c] EXCEPT !.cw = diskCart]
  <2>1. j \in Jobs /\ LocalsAt("adopt", j)
    BY <1>1, <1>3 DEF Jobs, TypeOK, MemoryType, LocalsAt
  <2>2. CallsOK'
    BY <1>1, <1>3, <2>1, GotoType DEF LookDisk, Labels
  <2> QED BY <1>4, <2>2, Frame DEF CallsOK, LookDisk, TypeOK
<1> QED BY <1>2, <1>3 DEF LookDisk

LEMMA AdoptType ==
  ASSUME TypeOK, LocalsOK, NEW c \in Calls, Adopt(c)
  PROVE  TypeOK' /\ LocalsOK'
<1>1. CallsOK /\ pc[c] = "adopt" /\ job[c].cw \in CartWrites
  BY JobAt DEF TypeOK, CallsOK, Adopt, At, LocalsAt, Jobs
<1>2. CallsOK'
  BY <1>1, FoundType DEF Adopt
<1>3. MemoryType'
  BY <1>1 DEF Adopt, TypeOK, MemoryType
<1> QED BY <1>2, <1>3, Frame DEF CallsOK, Adopt, TypeOK

LEMMA RecordType ==
  ASSUME TypeOK, LocalsOK, NEW c \in Calls, Record(c)
  PROVE  TypeOK' /\ LocalsOK'
<1> DEFINE cw == [job[c].cw EXCEPT !.at = now]
           j  == [job[c] EXCEPT !.cw = cw]
<1>1. CallsOK /\ job[c] \in Jobs /\ LocalsAt("record", job[c])
  BY JobAt DEF TypeOK, CallsOK, Record, At
<1>2. job[c].cw \in CartWrites
  BY <1>1 DEF LocalsAt, Jobs
<1>3. cw \in CartWrites
  BY <1>2 DEF CartWrites, TypeOK, WorldType
<1>4. j \in Jobs /\ LocalsAt("save", j)
  BY <1>1, <1>3, NoneAssumption DEF Jobs, LocalsAt
<1>5. CallsOK'
  BY <1>1, <1>4, GotoType DEF Record, Labels
<1>6. MemoryType'
  BY <1>3 DEF Record, TypeOK, MemoryType
<1> QED BY <1>5, <1>6, Frame DEF CallsOK, Record, TypeOK

LEMMA SaveType ==
  ASSUME TypeOK, LocalsOK, NEW c \in Calls, Save(c)
  PROVE  TypeOK' /\ LocalsOK'
<1>1. CallsOK /\ job[c] \in Jobs /\ LocalsAt("save", job[c])
  BY JobAt DEF TypeOK, CallsOK, Save, At
<1>2. job[c].tool \in {"prepare_order", "order_preset"} => LocalsAt("mint", job[c])
  BY <1>1 DEF LocalsAt, Preparers
<1>3. CallsOK'
  BY <1>1, <1>2, StepType, ReturnType DEF Save, Labels
<1>4. MemoryType' /\ WorldType'
  BY <1>1, FileType DEF Save, LocalsAt, Jobs
<1> QED BY <1>3, <1>4, Frame DEF CallsOK, Save, TypeOK

LEMMA ForgetType ==
  ASSUME TypeOK, LocalsOK, NEW c \in Calls, Forget(c)
  PROVE  TypeOK' /\ LocalsOK'
<1>1. CallsOK /\ LocalsAt("forgetDisk", job[c])
  BY JobAt DEF TypeOK, CallsOK, Forget, At, LocalsAt
<1>2. CallsOK'
  BY <1>1, StepType DEF Forget, Labels
<1> QED BY <1>2, Frame DEF CallsOK, Forget, TypeOK, MemoryType

LEMMA ForgetDiskType ==
  ASSUME TypeOK, LocalsOK, NEW c \in Calls, ForgetDisk(c)
  PROVE  TypeOK' /\ LocalsOK'
<1>1. CallsOK /\ LocalsAt("forgetDisk", job[c])
  BY JobAt DEF TypeOK, CallsOK, ForgetDisk, At
<1>2. job[c].tool = "update_cart" => LocalsAt("readd", job[c])
  BY <1>1 DEF LocalsAt
<1>3. CallsOK'
  BY <1>1, <1>2, StepType, ReturnType DEF ForgetDisk, Labels
<1>4. MemoryType' /\ WorldType'
  BY FileType DEF ForgetDisk, DropFile
<1> QED BY <1>3, <1>4, Frame DEF CallsOK, ForgetDisk, TypeOK

LEMMA MarkMemType ==
  ASSUME TypeOK, LocalsOK, NEW c \in Calls, MarkMem(c)
  PROVE  TypeOK' /\ LocalsOK'
<1>1. CallsOK /\ LocalsAt("markLoad", job[c])
  BY JobAt DEF TypeOK, CallsOK, MarkMem, At, LocalsAt
<1>2. CallsOK'
  BY <1>1, StepType DEF MarkMem, Labels
<1>3. MemoryType'
  BY DEF TypeOK, MemoryType, MarkMem, CartWrites
<1> QED BY <1>2, <1>3, Frame DEF CallsOK, MarkMem, TypeOK

LEMMA AfterMarkType ==
  ASSUME CallsOK, NEW c \in Calls, pc[c] \in {"markLoad", "markSave"}, AfterMark(c)
  PROVE  CallsOK'
<1>1. LocalsAt("clearIM", job[c])
  BY JobAt DEF LocalsAt
<1> QED BY <1>1, StepType, ReturnType DEF AfterMark, Labels

LEMMA MarkLoadType ==
  ASSUME TypeOK, LocalsOK, NEW c \in Calls, MarkLoad(c)
  PROVE  TypeOK' /\ LocalsOK'
<1> DEFINE j == [job[c] EXCEPT !.cw = diskCart]
<1>1. CallsOK /\ pc[c] = "markLoad" /\ job[c] \in Jobs /\ LocalsAt("markLoad", job[c])
  BY JobAt DEF TypeOK, CallsOK, MarkLoad, At
<1>2. diskCart # None => j \in Jobs /\ LocalsAt("markSave", j)
  BY <1>1 DEF Jobs, TypeOK, MemoryType, LocalsAt
<1>3. CallsOK'
  BY <1>1, <1>2, GotoType, AfterMarkType DEF MarkLoad, Labels
<1>4. WorldType'
  BY FileType DEF MarkLoad, TypeOK, WorldType
<1> QED BY <1>3, <1>4, Frame DEF CallsOK, MarkLoad, TypeOK

LEMMA MarkSaveType ==
  ASSUME TypeOK, LocalsOK, NEW c \in Calls, MarkSave(c)
  PROVE  TypeOK' /\ LocalsOK'
<1>1. CallsOK /\ pc[c] = "markSave" /\ job[c] \in Jobs /\ LocalsAt("markSave", job[c])
  BY JobAt DEF TypeOK, CallsOK, MarkSave, At
<1>2. [job[c].cw EXCEPT !.placed = TRUE] \in CartWrites
  BY <1>1 DEF LocalsAt, Jobs, CartWrites
<1>3. CallsOK'
  BY <1>1, AfterMarkType DEF MarkSave
<1>4. MemoryType' /\ WorldType'
  BY <1>2, FileType DEF MarkSave
<1> QED BY <1>3, <1>4, Frame DEF CallsOK, MarkSave, TypeOK

-----------------------------------------------------------------------------
(* Cart tools *)

\* Whatever a backend cart call does, the carts keep their type.
LEMMA CartType ==
  ASSUME SwiggyType, NEW v \in Verticals, NEW b \in Baskets,
         CartWritten(v, b) \/ CartWriteErrs(v, b) \/ CartCleared(v) \/ UNCHANGED cart,
         UNCHANGED <<upi, landed>>
  PROVE  SwiggyType'
BY DEF SwiggyType, CartWritten, CartWriteErrs, CartCleared

LEMMA ClearedType ==
  ASSUME SwiggyType, NEW v \in Verticals, CartCleared(v) \/ UNCHANGED cart,
         UNCHANGED <<upi, landed>>
  PROVE  SwiggyType'
BY DEF SwiggyType, CartCleared

LEMMA BasketVertical ==
  /\ \A b \in FoodBaskets : b \in Baskets
  /\ \A b \in Groceries : b \in Baskets
  /\ \A b \in Baskets : VerticalOf(b) \in Verticals
  /\ "food" \in Verticals /\ "instamart" \in Verticals
BY DEF Baskets, VerticalOf, Verticals

LEMMA UpdateCartType ==
  ASSUME TypeOK, LocalsOK, NEW c \in Calls, UpdateCart(c)
  PROVE  TypeOK' /\ LocalsOK'
<1>1. PICK a \in Addresses, b \in FoodBaskets :
        LET j == [Request("update_cart", "food") EXCEPT
                    !.addr = a, !.seen = b, !.cw = Write(a, "food", b)]
        IN  \/ CartWritten("food", b) /\ Goto(c, "record", j)
            \/ UNCHANGED <<cart, calls>>
            \/ CartWriteErrs("food", b) /\ Goto(c, "inspect", j)
  BY DEF UpdateCart
<1> DEFINE r == Request("update_cart", "food")
           w == Write(a, "food", b)
           j == [r EXCEPT !.addr = a, !.seen = b, !.cw = w]
<1>2. CallsOK /\ b \in Baskets /\ w \in CartWrites /\ r \in Jobs /\ r.tool = "update_cart"
  BY WriteType, RequestType, BasketVertical DEF TypeOK, CallsOK, AllTools
<1>3. \/ CartWritten("food", b) /\ Goto(c, "record", j)
      \/ UNCHANGED <<cart, calls>>
      \/ CartWriteErrs("food", b) /\ Goto(c, "inspect", j)
  BY <1>1
<1> HIDE DEF r, w
<1>j. j \in Jobs /\ j.tool = "update_cart" /\ j.seen = b /\ j.cw = w
  BY <1>2 DEF Jobs
<1> HIDE DEF j
<1>4. LocalsAt("record", j) /\ LocalsAt("inspect", j)
  BY <1>2, <1>j, NoneAssumption DEF LocalsAt, Preparers, Orderers
<1>5. CallsOK'
  BY <1>3, <1>2, <1>j, <1>4, GotoType, StayType DEF Labels
<1>6. SwiggyType'
  BY <1>3, <1>2, CartType, BasketVertical DEF UpdateCart, TypeOK
<1> QED BY <1>5, <1>6, Frame DEF CallsOK, UpdateCart, TypeOK

LEMMA InspectType ==
  ASSUME TypeOK, LocalsOK, NEW c \in Calls, Inspect(c)
  PROVE  TypeOK' /\ LocalsOK'
<1>1. CallsOK /\ LocalsAt("evict", job[c])
  BY JobAt DEF TypeOK, CallsOK, Inspect, At, LocalsAt
<1>2. CallsOK'
  BY <1>1, StepType, ReturnType DEF Inspect, Labels
<1> QED BY <1>2, Frame DEF CallsOK, Inspect, TypeOK

LEMMA EvictType ==
  ASSUME TypeOK, LocalsOK, NEW c \in Calls, Evict(c)
  PROVE  TypeOK' /\ LocalsOK'
<1>1. CallsOK /\ LocalsAt("forget", job[c])
  BY JobAt DEF TypeOK, CallsOK, Evict, At, LocalsAt
<1>2. CallsOK'
  BY <1>1, StepType, ReturnType DEF Evict, Labels
<1>3. SwiggyType'
  BY ClearedType, BasketVertical DEF Evict, TypeOK
<1> QED BY <1>2, <1>3, Frame DEF CallsOK, Evict, TypeOK

LEMMA ReaddType ==
  ASSUME TypeOK, LocalsOK, NEW c \in Calls, Readd(c)
  PROVE  TypeOK' /\ LocalsOK'
<1>1. CallsOK /\ job[c] \in Jobs /\ LocalsAt("readd", job[c])
  BY JobAt DEF TypeOK, CallsOK, Readd, At
<1>2. job[c].seen \in Baskets /\ job[c].tool = "update_cart"
  BY <1>1 DEF LocalsAt, Jobs
<1>3. LocalsAt("record", job[c])
  BY <1>1, <1>2 DEF LocalsAt
<1>4. CallsOK'
  BY <1>1, <1>3, StepType, ReturnType DEF Readd, Labels
<1>5. SwiggyType'
  BY <1>2, CartType, BasketVertical DEF Readd, TypeOK
<1> QED BY <1>4, <1>5, Frame DEF CallsOK, Readd, TypeOK

LEMMA ClearCartType ==
  ASSUME TypeOK, LocalsOK, NEW c \in Calls, ClearCart(c)
  PROVE  TypeOK' /\ LocalsOK'
<1>1. PICK v \in Verticals :
        /\ CartCleared(v)
        /\ Goto(c, "forget", Request(ClearTool(v), v)) \/ UNCHANGED calls
  BY DEF ClearCart
<1> DEFINE r == Request(ClearTool(v), v)
<1>2. /\ CallsOK /\ r \in Jobs
      /\ r.tool \notin Preparers \cup Orderers /\ r.tool # "update_cart"
  BY RequestType DEF TypeOK, CallsOK, ClearTool, AllTools, Preparers, Orderers
<1> HIDE DEF r
<1>3. LocalsAt("forget", r)
  BY <1>2 DEF LocalsAt
<1>4. CallsOK'
  BY <1>1, <1>2, <1>3, GotoType, StayType DEF Labels, r
<1>5. SwiggyType'
  BY <1>1, ClearedType DEF ClearCart, TypeOK
<1> QED BY <1>4, <1>5, Frame DEF CallsOK, ClearCart, TypeOK

LEMMA IMUpdateCartType ==
  ASSUME TypeOK, LocalsOK, NEW c \in Calls, IMUpdateCart(c)
  PROVE  TypeOK' /\ LocalsOK'
<1>1. PICK a \in Addresses, b \in Groceries :
        \/ /\ CartWritten("instamart", b)
           /\ Goto(c, "record", [Request("im_update_cart", "instamart") EXCEPT
                                   !.cw = Write(a, "instamart", b)])
        \/ CartWriteErrs("instamart", b) /\ UNCHANGED calls
  BY DEF IMUpdateCart
<1> DEFINE r == Request("im_update_cart", "instamart")
           w == Write(a, "instamart", b)
           j == [r EXCEPT !.cw = w]
<1>2. CallsOK /\ b \in Baskets /\ w \in CartWrites /\ r \in Jobs /\ r.tool = "im_update_cart"
  BY WriteType, RequestType, BasketVertical DEF TypeOK, CallsOK, AllTools
<1>3. \/ CartWritten("instamart", b) /\ Goto(c, "record", j)
      \/ CartWriteErrs("instamart", b) /\ UNCHANGED calls
  BY <1>1
<1> HIDE DEF r, w
<1>4. j \in Jobs /\ j.tool = "im_update_cart" /\ j.cw = w
  BY <1>2 DEF Jobs
<1> HIDE DEF j
<1>5. LocalsAt("record", j)
  BY <1>2, <1>4, NoneAssumption DEF LocalsAt, Preparers, Orderers
<1>6. CallsOK'
  BY <1>2, <1>3, <1>4, <1>5, GotoType, StayType DEF Labels
<1>7. SwiggyType'
  BY <1>2, <1>3, CartType, BasketVertical DEF IMUpdateCart, TypeOK
<1> QED BY <1>6, <1>7, Frame DEF CallsOK, IMUpdateCart, TypeOK

-----------------------------------------------------------------------------
(* Prepare tools *)

LEMMA PrepareOrderType ==
  ASSUME TypeOK, LocalsOK, NEW c \in Calls, PrepareOrder(c)
  PROVE  TypeOK' /\ LocalsOK'
<1>1. PICK a \in Addresses :
        Goto(c, "look", [Request("prepare_order", "food") EXCEPT
                           !.addr = a, !.seen = cart["food"]])
  BY DEF PrepareOrder
<1> DEFINE r == Request("prepare_order", "food")
           j == [r EXCEPT !.addr = a, !.seen = cart["food"]]
<1>2. /\ CallsOK /\ r \in Jobs /\ r.tool = "prepare_order" /\ r.then = "decide"
      /\ cart["food"] \in Baskets \cup {None}
  BY RequestType, BasketVertical DEF TypeOK, CallsOK, SwiggyType, AllTools
<1>3. Goto(c, "look", j)
  BY <1>1
<1> HIDE DEF r
<1>4. j \in Jobs /\ j.tool = "prepare_order" /\ j.then = "decide" /\ j.addr = a
  BY <1>2 DEF Jobs
<1> HIDE DEF j
<1>5. LocalsAt("look", j)
  BY <1>4, NoneAssumption DEF LocalsAt, Preparers, Orderers
<1>6. CallsOK'
  BY <1>2, <1>3, <1>4, <1>5, GotoType DEF Labels
<1> QED BY <1>6, Frame DEF CallsOK, PrepareOrder, TypeOK

LEMMA ResyncType ==
  ASSUME TypeOK, LocalsOK, NEW c \in Calls, Resync(c)
  PROVE  TypeOK' /\ LocalsOK'
<1> DEFINE cw == job[c].cw
           w  == [cw EXCEPT !.addr = job[c].addr]
           j  == [job[c] EXCEPT !.seen = cw.basket, !.cw = w]
<1>1. CallsOK /\ job[c] \in Jobs /\ LocalsAt("resync", job[c])
  BY JobAt DEF TypeOK, CallsOK, Resync, At
<1>2. /\ cw \in CartWrites /\ cw.basket \in Baskets /\ job[c].addr \in Addresses
      /\ job[c].tool \in Preparers
  BY <1>1 DEF LocalsAt, Jobs, CartWrites
<1>3. w \in CartWrites
  BY <1>2 DEF CartWrites
<1>4. \/ CartWritten("food", cw.basket) /\ Goto(c, "record", j)
      \/ CartWriteErrs("food", cw.basket) /\ Return(c)
  BY DEF Resync
<1> HIDE DEF w
<1>5. j \in Jobs /\ j.tool = job[c].tool /\ j.cw = w /\ j.addr = job[c].addr
  BY <1>1, <1>2, <1>3 DEF Jobs
<1> HIDE DEF j, cw
<1>6. LocalsAt("record", j)
  BY <1>2, <1>3, <1>5, NoneAssumption DEF LocalsAt, Preparers, Orderers
<1>7. CallsOK'
  BY <1>1, <1>4, <1>5, <1>6, GotoType, ReturnType DEF Labels
<1>8. SwiggyType'
  BY <1>2, <1>4, CartType, BasketVertical DEF Resync, TypeOK
<1> QED BY <1>7, <1>8, Frame DEF CallsOK, Resync, TypeOK

LEMMA OrderPresetType ==
  ASSUME TypeOK, LocalsOK, NEW c \in Calls, OrderPreset(c)
  PROVE  TypeOK' /\ LocalsOK'
<1>1. PICK a \in Addresses, b \in Baskets :
        LET v == VerticalOf(b) IN
        \/ /\ CartWritten(v, b)
           /\ Goto(c, "record", [Request("order_preset", v) EXCEPT
                     !.addr = a, !.seen = b,
                     !.cw = Write(a, v, IF v = "food" THEN b ELSE None)])
        \/ CartWriteErrs(v, b) /\ UNCHANGED calls
  BY DEF OrderPreset
<1> DEFINE v == VerticalOf(b)
           r == Request("order_preset", v)
           w == Write(a, v, IF v = "food" THEN b ELSE None)
           j == [r EXCEPT !.addr = a, !.seen = b, !.cw = w]
<1>2. v \in Verticals
  BY BasketVertical
<1>3. \/ CartWritten(v, b) /\ Goto(c, "record", j)
      \/ CartWriteErrs(v, b) /\ UNCHANGED calls
  BY <1>1
<1> HIDE DEF v
<1>4. CallsOK /\ w \in CartWrites /\ r \in Jobs /\ r.tool = "order_preset"
  BY <1>2, WriteType, RequestType DEF TypeOK, CallsOK, AllTools
<1> HIDE DEF r, w
<1>5. j \in Jobs /\ j.tool = "order_preset" /\ j.addr = a /\ j.cw = w
  BY <1>4 DEF Jobs
<1> HIDE DEF j
<1>6. LocalsAt("record", j)
  BY <1>4, <1>5, NoneAssumption DEF LocalsAt, Preparers, Orderers
<1>7. CallsOK'
  BY <1>3, <1>4, <1>5, <1>6, GotoType, StayType DEF Labels
<1>8. SwiggyType'
  BY <1>2, <1>3, CartType DEF OrderPreset, TypeOK
<1> QED BY <1>7, <1>8, Frame DEF CallsOK, OrderPreset, TypeOK

LEMMA IMPrepareOrderType ==
  ASSUME TypeOK, LocalsOK, NEW c \in Calls, IMPrepareOrder(c)
  PROVE  TypeOK' /\ LocalsOK'
<1>1. PICK a \in Addresses :
        Goto(c, "mint", [Request("im_prepare_order", "instamart") EXCEPT
                           !.addr = a, !.seen = cart["instamart"]])
  BY DEF IMPrepareOrder
<1> DEFINE r == Request("im_prepare_order", "instamart")
           j == [r EXCEPT !.addr = a, !.seen = cart["instamart"]]
<1>2. /\ CallsOK /\ r \in Jobs /\ r.tool = "im_prepare_order"
      /\ cart["instamart"] \in Baskets \cup {None}
  BY RequestType, BasketVertical DEF TypeOK, CallsOK, SwiggyType, AllTools
<1>3. Goto(c, "mint", j)
  BY <1>1
<1> HIDE DEF r
<1>4. j \in Jobs /\ j.tool = "im_prepare_order" /\ j.addr = a
  BY <1>2 DEF Jobs
<1> HIDE DEF j
<1>5. LocalsAt("mint", j)
  BY <1>4, NoneAssumption DEF LocalsAt, Preparers, Orderers
<1>6. CallsOK'
  BY <1>2, <1>3, <1>4, <1>5, GotoType DEF Labels
<1> QED BY <1>6, Frame DEF CallsOK, IMPrepareOrder, TypeOK

LEMMA MintType ==
  ASSUME TypeOK, LocalsOK, NEW c \in Calls, Mint(c)
  PROVE  TypeOK' /\ LocalsOK'
<1> DEFINE j == job[c]
           p(id) == [id |-> id, addr |-> j.addr, vert |-> j.vert,
                     hash |-> Hash(j.addr, j.seen), at |-> now]
<1>1. CallsOK /\ j \in Jobs /\ LocalsAt("mint", j)
  BY JobAt DEF TypeOK, CallsOK, Mint, At
<1>2. ASSUME Orderable(j.vert, j.seen)
      PROVE  /\ pending' \in [ConfIds -> PendingOrders \cup {None}]
             /\ shown' \in [ConfIds -> Baskets \cup {None}]
  <2>1. j.addr \in Addresses /\ j.seen \in Baskets /\ j.vert \in Verticals
    BY <1>1, <1>2 DEF LocalsAt, Orderable, Jobs
  <2>2. PICK id \in SpareConfIds : /\ PutPending(id, p(id))
                                   /\ shown' = [shown EXCEPT ![id] = j.seen]
    BY <1>2 DEF Mint
  <2>3. id \in ConfIds
    BY DEF SpareConfIds
  <2>4. p(id) \in PendingOrders
    BY <2>1, <2>3 DEF PendingOrders, TypeOK, WorldType
  <2> HIDE DEF p, j
  <2>5. pending' \in [ConfIds -> PendingOrders \cup {None}]
    BY <2>2, <2>4 DEF PutPending, TypeOK, StoresType
  <2>6. shown' \in [ConfIds -> Baskets \cup {None}]
    BY <2>1, <2>2 DEF TypeOK, ObservedType
  <2> QED BY <2>5, <2>6
<1>3. StoresType' /\ ObservedType'
  BY <1>2 DEF Mint, TypeOK, StoresType, ObservedType
<1>4. CallsOK'
  BY <1>1, ReturnType DEF Mint
<1> QED BY <1>3, <1>4, Frame DEF CallsOK, Mint, TypeOK

-----------------------------------------------------------------------------
(* place_order *)

LEMMA TakePendingType ==
  ASSUME TypeOK, LocalsOK, NEW c \in Calls, TakePending(c)
  PROVE  TypeOK' /\ LocalsOK'
<1>1. PICK id \in ConfIds, m \in Methods :
        LET p == pending[id] IN
        /\ p # None
        /\ TakeOut(id)
        /\ IF Stale(p) \/ (p.vert = "food" /\ m = "cod")
             THEN UNCHANGED calls
             ELSE Goto(c, "verify", [Request("place_order", p.vert) EXCEPT
                                       !.ord = p, !.method = m])
  BY DEF TakePending
<1> DEFINE p == pending[id]
           r == Request("place_order", p.vert)
           j == [r EXCEPT !.ord = p, !.method = m]
<1>2. CallsOK /\ p \in PendingOrders
  BY <1>1 DEF TypeOK, CallsOK, StoresType
<1>3. r \in Jobs /\ r.tool = "place_order"
  BY <1>2, RequestType DEF PendingOrders, AllTools
<1>4. UNCHANGED calls \/ Goto(c, "verify", j)
  BY <1>1
<1>5. StoresType'
  BY <1>1 DEF TakePending, TakeOut, TypeOK, StoresType
<1> HIDE DEF r, p
<1>6. j \in Jobs /\ j.tool = "place_order" /\ j.ord = p
  BY <1>2, <1>3 DEF Jobs
<1> HIDE DEF j
<1>7. LocalsAt("verify", j)
  BY <1>2, <1>6, NoneAssumption DEF LocalsAt, Preparers, Orderers
<1>8. CallsOK'
  BY <1>2, <1>4, <1>6, <1>7, GotoType, StayType DEF Labels
<1> QED BY <1>5, <1>8, Frame DEF CallsOK, TakePending, TypeOK

LEMMA VerifyType ==
  ASSUME TypeOK, LocalsOK, NEW c \in Calls, Verify(c)
  PROVE  TypeOK' /\ LocalsOK'
<1>1. CallsOK /\ LocalsAt("verify", job[c])
  BY JobAt DEF TypeOK, CallsOK, Verify, At
<1>2. LocalsAt("cod", job[c]) /\ LocalsAt("upi", job[c])
  BY <1>1 DEF LocalsAt
<1>3. CallsOK'
  BY <1>1, <1>2, StepType, ReturnType DEF Verify, Labels
<1> QED BY <1>3, Frame DEF CallsOK, Verify, TypeOK

LEMMA LandType ==
  ASSUME TypeOK, NEW c \in Calls, job[c] \in Jobs, job[c].ord \in PendingOrders,
         NEW known \in BOOLEAN, Land(c, known)
  PROVE  /\ cart' \in [Verticals -> Baskets \cup {None}]
         /\ landed' \in [ConfIds -> LandedOrders \cup {None}]
         /\ spent' \in [ConfIds -> Nat]
         /\ \A i \in ConfIds : landed[i] # None => landed'[i] # None
<1> DEFINE o == job[c].ord  b == cart[job[c].vert]
           d == [basket |-> b, addr |-> o.addr, at |-> now, known |-> known]
<1>1. /\ job[c].vert \in Verticals /\ b \in Baskets
      /\ o.id \in ConfIds /\ o.addr \in Addresses
  BY DEF Land, TypeOK, SwiggyType, Jobs, PendingOrders
<1>2. d \in LandedOrders
  BY <1>1 DEF LandedOrders, TypeOK, WorldType
<1>3. /\ landed' = [landed EXCEPT ![o.id] = d]
      /\ spent' = [spent EXCEPT ![o.id] = @ + 1]
      /\ CartCleared(job[c].vert) \/ UNCHANGED cart
  BY DEF Land
<1> HIDE DEF o, d
<1> QED BY <1>1, <1>2, <1>3, NoneAssumption DEF TypeOK, SwiggyType, ObservedType, CartCleared

LEMMA PlaceFailsType ==
  ASSUME TypeOK, LocalsOK, NEW c \in Calls, job[c] \in Jobs,
         job[c].ord \in PendingOrders, PlaceFails(c)
  PROVE  /\ cart' \in [Verticals -> Baskets \cup {None}]
         /\ landed' \in [ConfIds -> LandedOrders \cup {None}]
         /\ spent' \in [ConfIds -> Nat]
         /\ CallsOK'
<1>1. CallsOK'
  BY ReturnType DEF TypeOK, CallsOK, PlaceFails
<1>2. CASE Land(c, FALSE)
  BY <1>1, <1>2, LandType
<1>3. CASE UNCHANGED <<landed, spent, cart>>
  BY <1>1, <1>3 DEF TypeOK, SwiggyType, ObservedType
<1> QED BY <1>2, <1>3 DEF PlaceFails

LEMMA PlaceUPIType ==
  ASSUME TypeOK, LocalsOK, NEW c \in Calls, PlaceUPI(c)
  PROVE  TypeOK' /\ LocalsOK'
<1>1. CallsOK /\ job[c] \in Jobs /\ LocalsAt("upi", job[c])
  BY JobAt DEF TypeOK, CallsOK, PlaceUPI, At
<1>2. job[c].ord \in PendingOrders /\ job[c].tool \in Orderers
  BY <1>1 DEF LocalsAt, Jobs
<1> DEFINE New == /\ cart' \in [Verticals -> Baskets \cup {None}]
                  /\ landed' \in [ConfIds -> LandedOrders \cup {None}]
                  /\ upi' \in [PayIds -> UpiStates]
                  /\ spent' \in [ConfIds -> Nat]
                  /\ CallsOK'
<1>3. ASSUME PlaceFails(c), UNCHANGED upi PROVE New
  BY <1>1, <1>2, <1>3, PlaceFailsType DEF TypeOK, SwiggyType
<1>4. ASSUME Return(c) \/ Step(c, "cod"), UNCHANGED <<landed, spent, cart, upi>>
      PROVE  New
  <2>1. LocalsAt("cod", job[c])
    BY <1>1 DEF LocalsAt
  <2>2. CallsOK'
    BY <1>1, <1>4, <2>1, ReturnType, StepType DEF Labels
  <2> QED BY <1>4, <2>2 DEF TypeOK, SwiggyType, ObservedType
<1>5. ASSUME Land(c, FALSE), NEW id \in SparePayIds,
             upi' = [upi EXCEPT ![id] = [status |-> "open", exp |-> now + PayWindow,
                                         conf |-> job[c].ord.id]],
             Goto(c, "hold", [job[c] EXCEPT !.pay = id])
      PROVE  New
  <2> DEFINE j == [job[c] EXCEPT !.pay = id]
  <2>1. id \in PayIds
    BY <1>5 DEF SparePayIds
  <2>2. j \in Jobs /\ j.pay = id /\ j.tool = job[c].tool /\ j.ord = job[c].ord
    BY <1>1, <2>1 DEF Jobs
  <2>3. LocalsAt("hold", j)
    BY <1>1, <1>2, <2>1, <2>2, NoneAssumption DEF LocalsAt, Preparers, Orderers
  <2>4. CallsOK'
    BY <1>1, <1>5, <2>2, <2>3, GotoType DEF Labels
  <2>5. [status |-> "open", exp |-> now + PayWindow, conf |-> job[c].ord.id] \in UpiStates
    BY <1>2, ConstantsAssumption DEF UpiStates, TypeOK, WorldType, PendingOrders
  <2>6. upi' \in [PayIds -> UpiStates]
    BY <1>5, <2>5 DEF TypeOK, SwiggyType
  <2> QED BY <1>1, <1>2, <1>5, <2>4, <2>6, LandType
<1>6. New
  BY <1>3, <1>4, <1>5 DEF PlaceUPI
<1> QED BY <1>6, Frame DEF PlaceUPI, TypeOK, CallsOK, SwiggyType, ObservedType

LEMMA HoldType ==
  ASSUME TypeOK, LocalsOK, NEW c \in Calls, Hold(c)
  PROVE  TypeOK' /\ LocalsOK'
<1> DEFINE id == job[c].pay
           e == [exp |-> upi[id].exp, ord |-> job[c].ord]
<1>1. CallsOK /\ id \in PayIds /\ job[c].ord \in PendingOrders
  BY JobAt DEF TypeOK, CallsOK, Hold, At, LocalsAt, Jobs
<1>2. e \in PaymentEntries
  BY <1>1 DEF PaymentEntries, UpiStates, TypeOK, SwiggyType
<1>3. PutPayment(id, e)
  BY DEF Hold
<1> HIDE DEF e, id
<1>4. StoresType'
  BY <1>2, <1>3 DEF PutPayment, Hold, TypeOK, StoresType
<1>5. CallsOK'
  BY <1>1, ReturnType DEF Hold
<1> QED BY <1>4, <1>5, Frame DEF CallsOK, Hold, TypeOK

LEMMA PlaceCODType ==
  ASSUME TypeOK, LocalsOK, NEW c \in Calls, PlaceCOD(c)
  PROVE  TypeOK' /\ LocalsOK'
<1>1. CallsOK /\ job[c] \in Jobs /\ LocalsAt("cod", job[c])
  BY JobAt DEF TypeOK, CallsOK, PlaceCOD, At
<1>2. job[c].ord \in PendingOrders /\ LocalsAt("active", job[c])
  BY <1>1 DEF LocalsAt, Jobs
<1>3. /\ cart' \in [Verticals -> Baskets \cup {None}]
      /\ landed' \in [ConfIds -> LandedOrders \cup {None}]
      /\ spent' \in [ConfIds -> Nat]
      /\ CallsOK'
  BY <1>1, <1>2, PlaceFailsType, LandType, StepType DEF PlaceCOD, Labels
<1> QED BY <1>3, Frame DEF PlaceCOD, TypeOK, CallsOK, SwiggyType, ObservedType

-----------------------------------------------------------------------------
(* The bookkeeping of a placement *)

LEMMA ActiveType ==
  ASSUME TypeOK, LocalsOK, NEW c \in Calls, Active(c)
  PROVE  TypeOK' /\ LocalsOK'
<1> DEFINE j == [job[c] EXCEPT !.then = "history"]
<1>1. CallsOK /\ job[c] \in Jobs /\ LocalsAt("active", job[c])
  BY JobAt DEF TypeOK, CallsOK, Active, At
<1>2. job[c].ord \in PendingOrders /\ job[c].tool \in Orderers
  BY <1>1 DEF LocalsAt, Jobs
<1>3. j \in Jobs /\ j.tool = job[c].tool /\ j.ord = job[c].ord /\ j.then = "history"
  BY <1>1 DEF Jobs
<1>4. LocalsAt("markMem", job[c])
  BY <1>1 DEF LocalsAt
<1>5. (job[c].vert = "food" /\ Goto(c, "look", j)) \/ Step(c, "markMem")
  BY DEF Active
<1> HIDE DEF j
<1>6. LocalsAt("look", j)
  BY <1>1, <1>2, <1>3, NoneAssumption DEF LocalsAt, Preparers, Orderers
<1>7. CallsOK'
  BY <1>1, <1>3, <1>4, <1>5, <1>6, GotoType, StepType DEF Labels
<1>8. BooksType'
  BY <1>2 DEF Active, TypeOK, BooksType, PendingOrders
<1> QED BY <1>7, <1>8, Frame DEF CallsOK, Active, TypeOK

LEMMA HistoryType ==
  ASSUME TypeOK, LocalsOK, NEW c \in Calls, History(c)
  PROVE  TypeOK' /\ LocalsOK'
<1> DEFINE j == [job[c] EXCEPT !.then = "taste"]
<1>1. CallsOK /\ job[c] \in Jobs /\ LocalsAt("history", job[c])
  BY JobAt DEF TypeOK, CallsOK, History, At
<1>2. job[c].ord \in PendingOrders /\ job[c].tool \in Orderers
  BY <1>1 DEF LocalsAt, Jobs
<1>3. j \in Jobs /\ j.tool = job[c].tool /\ j.ord = job[c].ord /\ j.then = "taste"
  BY <1>1 DEF Jobs
<1>4. Goto(c, "look", j)
  BY DEF History
<1> HIDE DEF j
<1>5. LocalsAt("look", j)
  BY <1>1, <1>2, <1>3, NoneAssumption DEF LocalsAt, Preparers, Orderers
<1>6. CallsOK'
  BY <1>1, <1>3, <1>4, <1>5, GotoType DEF Labels
<1>7. BooksType'
  <2>1. WriteForOrder(job[c]) => job[c].cw.basket \in Baskets \cup {None}
    BY <1>1 DEF WriteForOrder, Jobs, CartWrites
  <2> QED BY <1>2, <2>1 DEF History, TypeOK, BooksType, PendingOrders
<1> QED BY <1>6, <1>7, Frame DEF CallsOK, History, TypeOK

LEMMA TasteType ==
  ASSUME TypeOK, LocalsOK, NEW c \in Calls, Taste(c)
  PROVE  TypeOK' /\ LocalsOK'
<1>1. CallsOK /\ job[c] \in Jobs /\ LocalsAt("taste", job[c])
  BY JobAt DEF TypeOK, CallsOK, Taste, At
<1>2. job[c].ord \in PendingOrders /\ LocalsAt("markMem", job[c])
  BY <1>1 DEF LocalsAt, Jobs
<1>3. CallsOK'
  BY <1>1, <1>2, StepType DEF Taste, Labels
<1>4. BooksType'
  <2>1. WriteForOrder(job[c]) => job[c].cw.basket \in Baskets \cup {None}
    BY <1>1 DEF WriteForOrder, Jobs, CartWrites
  <2> QED BY <1>2, <2>1 DEF Taste, TypeOK, BooksType, PendingOrders
<1> QED BY <1>3, <1>4, Frame DEF CallsOK, Taste, TypeOK

LEMMA ClearIMType ==
  ASSUME TypeOK, LocalsOK, NEW c \in Calls, ClearIM(c)
  PROVE  TypeOK' /\ LocalsOK'
<1>1. CallsOK'
  BY ReturnType DEF ClearIM, TypeOK, CallsOK
<1>2. SwiggyType'
  BY ClearedType, BasketVertical DEF ClearIM, TypeOK
<1> QED BY <1>1, <1>2, Frame DEF CallsOK, ClearIM, TypeOK

-----------------------------------------------------------------------------
(* check_payment and confirm_order *)

LEMMA PayingType ==
  ASSUME TypeOK, NEW id \in PayIds, payments[id] # None,
         NEW tool \in {"check_payment", "confirm_order"}
  PROVE  LET j == Paying(tool, id)
         IN  /\ j \in Jobs /\ j.tool = tool /\ j.pay = id
             /\ j.ord = payments[id].ord
             /\ LocalsAt("poll", j) /\ LocalsAt("discard", j) /\ LocalsAt("confirm", j)
<1> DEFINE e == payments[id]
           r == Request(tool, e.ord.vert)
           j == [r EXCEPT !.ord = e.ord, !.pay = id]
<1>1. e.ord \in PendingOrders /\ e.ord.vert \in Verticals
  BY DEF TypeOK, StoresType, PaymentEntries, PendingOrders
<1>2. r \in Jobs /\ r.tool = tool
  BY <1>1, RequestType DEF AllTools
<1>3. Paying(tool, id) = j
  BY DEF Paying
<1> HIDE DEF r, e
<1>4. j \in Jobs /\ j.tool = tool /\ j.pay = id /\ j.ord = e.ord
  BY <1>1, <1>2 DEF Jobs
<1>6. j.ord = payments[id].ord
  BY <1>4 DEF e
<1> HIDE DEF j
<1>5. LocalsAt("poll", j) /\ LocalsAt("discard", j) /\ LocalsAt("confirm", j)
  BY <1>1, <1>4, NoneAssumption DEF LocalsAt, Preparers, Orderers
<1> QED BY <1>3, <1>4, <1>5, <1>6

LEMMA CheckType ==
  ASSUME TypeOK, LocalsOK, NEW c \in Calls, Check(c)
  PROVE  TypeOK' /\ LocalsOK'
<1>1. PICK id \in PayIds :
        /\ payments[id] # None
        /\ Goto(c, IF Closed(payments[id]) THEN "discard" ELSE "poll",
                Paying("check_payment", id))
  BY DEF Check
<1>2. CallsOK'
  BY <1>1, PayingType, GotoType DEF TypeOK, CallsOK, Labels
<1> QED BY <1>2, Frame DEF CallsOK, Check, TypeOK

LEMMA PollType ==
  ASSUME TypeOK, LocalsOK, NEW c \in Calls, Poll(c)
  PROVE  TypeOK' /\ LocalsOK'
<1>1. CallsOK /\ LocalsAt("discard", job[c])
  BY JobAt DEF TypeOK, CallsOK, Poll, At, LocalsAt
<1>2. CallsOK'
  BY <1>1, StepType, ReturnType DEF Poll, Labels
<1> QED BY <1>2, Frame DEF CallsOK, Poll, TypeOK

LEMMA DiscardType ==
  ASSUME TypeOK, LocalsOK, NEW c \in Calls, Discard(c)
  PROVE  TypeOK' /\ LocalsOK'
<1>1. CallsOK /\ job[c].pay \in PayIds
  BY JobAt DEF TypeOK, CallsOK, Discard, At, LocalsAt, Jobs
<1>2. CallsOK'
  BY <1>1, ReturnType DEF Discard
<1>3. StoresType' /\ ObservedType'
  BY <1>1 DEF Discard, RemovePayment, TypeOK, StoresType, ObservedType
<1> QED BY <1>2, <1>3, Frame DEF CallsOK, Discard, TypeOK

LEMMA ClaimConfirmType ==
  ASSUME TypeOK, LocalsOK, NEW c \in Calls, ClaimConfirm(c)
  PROVE  TypeOK' /\ LocalsOK'
<1>1. PICK id \in PayIds :
        /\ Claimable(id)
        /\ confirming' = confirming \cup {id}
        /\ Goto(c, IF Closed(payments[id]) THEN "discard" ELSE "confirm",
                Paying("confirm_order", id))
  BY DEF ClaimConfirm
<1>2. CallsOK'
  BY <1>1, PayingType, GotoType DEF TypeOK, CallsOK, Labels, Claimable
<1>3. StoresType'
  BY <1>1 DEF ClaimConfirm, TypeOK, StoresType
<1> QED BY <1>2, <1>3, Frame DEF CallsOK, ClaimConfirm, TypeOK

LEMMA ConfirmType ==
  ASSUME TypeOK, LocalsOK, LandedInv, NEW c \in Calls, Confirm(c)
  PROVE  TypeOK' /\ LocalsOK'
<1>1. /\ CallsOK /\ job[c] \in Jobs /\ LocalsAt("confirm", job[c])
      /\ pc[c] = "confirm"
  BY JobAt DEF TypeOK, CallsOK, Confirm, At
<1>2. /\ LocalsAt("release", job[c]) /\ LocalsAt("sweepCart", job[c])
      /\ LocalsAt("settle", job[c])
      /\ job[c].pay \in PayIds /\ job[c].ord.id \in ConfIds
  BY <1>1 DEF LocalsAt, Jobs, PendingOrders
<1>3. CallsOK'
  BY <1>1, <1>2, StepType DEF Confirm, Labels
<1>4. landed[job[c].ord.id] \in LandedOrders
  BY <1>1, <1>2 DEF LandedInv, TypeOK, SwiggyType
<1>5. [landed[job[c].ord.id] EXCEPT !.known = TRUE] \in LandedOrders
  BY <1>4 DEF LandedOrders
<1>6. SwiggyType'
  BY <1>2, <1>5 DEF Confirm, TypeOK, SwiggyType
<1>7. ObservedType'
  BY <1>2 DEF Confirm, TypeOK, ObservedType
<1> QED BY <1>3, <1>6, <1>7, Frame DEF CallsOK, Confirm, TypeOK

LEMMA SweepCartType ==
  ASSUME TypeOK, LocalsOK, NEW c \in Calls, SweepCart(c)
  PROVE  TypeOK' /\ LocalsOK'
<1>1. CallsOK /\ LocalsAt("settle", job[c])
  BY JobAt DEF TypeOK, CallsOK, SweepCart, At, LocalsAt
<1>2. CallsOK'
  BY <1>1, StepType DEF SweepCart, Labels
<1>3. SwiggyType'
  BY ClearedType, BasketVertical DEF SweepCart, TypeOK
<1> QED BY <1>2, <1>3, Frame DEF CallsOK, SweepCart, TypeOK

LEMMA ReleaseType ==
  ASSUME TypeOK, LocalsOK, NEW c \in Calls, Release(c)
  PROVE  TypeOK' /\ LocalsOK'
<1>1. CallsOK'
  BY ReturnType DEF Release, TypeOK, CallsOK
<1>2. StoresType'
  BY DEF Release, TypeOK, StoresType
<1> QED BY <1>1, <1>2, Frame DEF CallsOK, Release, TypeOK

LEMMA SettleType ==
  ASSUME TypeOK, LocalsOK, NEW c \in Calls, Settle(c)
  PROVE  TypeOK' /\ LocalsOK'
<1>1. CallsOK /\ job[c].pay \in PayIds /\ LocalsAt("active", job[c])
  BY JobAt DEF TypeOK, CallsOK, Settle, At, LocalsAt, Jobs
<1>2. CallsOK'
  BY <1>1, StepType DEF Settle, Labels
<1>3. StoresType'
  BY <1>1 DEF Settle, RemovePayment, TypeOK, StoresType
<1> QED BY <1>2, <1>3, Frame DEF CallsOK, Settle, TypeOK

-----------------------------------------------------------------------------
(* The rest of the world *)

LEMMA EnvironmentType ==
  ASSUME TypeOK, LocalsOK, Environment
  PROVE  TypeOK' /\ LocalsOK'
<1>1. CASE Pay
  <2>1. SwiggyType'
    BY <1>1 DEF Pay, TypeOK, SwiggyType, UpiStates
  <2> QED BY <1>1, <2>1, Frame, StayType DEF Pay, TypeOK, CallsOK
<1>2. CASE PayFails
  <2>1. SwiggyType'
    BY <1>2 DEF PayFails, TypeOK, SwiggyType, UpiStates
  <2> QED BY <1>2, <2>1, Frame, StayType DEF PayFails, TypeOK, CallsOK
<1>3. CASE ForeignEdit
  <2>1. SwiggyType'
    BY <1>3 DEF ForeignEdit, TypeOK, SwiggyType
  <2>2. WorldType'
    BY <1>3, ConstantsAssumption DEF ForeignEdit, TypeOK, WorldType
  <2> QED BY <1>3, <2>1, <2>2, Frame, StayType DEF ForeignEdit, TypeOK, CallsOK
<1>4. CASE Tick
  <2>1. WorldType'
    BY <1>4, ConstantsAssumption DEF Tick, TypeOK, WorldType
  <2> QED BY <1>4, <2>1, Frame, StayType DEF Tick, TypeOK, CallsOK
<1>5. CASE Restart
  <2>1. WorldType'
    BY <1>5, ConstantsAssumption DEF Restart, TypeOK, WorldType
  <2>2. StoresType' /\ MemoryType'
    BY <1>5 DEF Restart, TypeOK, StoresType, MemoryType
  <2>3. LocalsAt("idle", NoJob)
    BY NoneAssumption DEF LocalsAt, NoJob, AllTools, Preparers, Orderers
  <2>4. CallsType' /\ LocalsOK'
    BY <1>5, <2>3, NoJobType DEF Restart, CallsType, LocalsOK, Labels
  <2> QED BY <1>5, <2>1, <2>2, <2>4, Frame DEF Restart, TypeOK
<1> QED BY <1>1, <1>2, <1>3, <1>4, <1>5 DEF Environment

LEMMA StartType ==
  ASSUME TypeOK, LocalsOK, NEW c \in Calls, Start(c)
  PROVE  TypeOK' /\ LocalsOK'
BY UpdateCartType, ClearCartType, IMUpdateCartType, PrepareOrderType,
   IMPrepareOrderType, OrderPresetType, TakePendingType, CheckType,
   ClaimConfirmType DEF Start

LEMMA ContinueType ==
  ASSUME TypeOK, LocalsOK, LandedInv, NEW c \in Calls, Continue(c)
  PROVE  TypeOK' /\ LocalsOK'
BY LookType, LookDiskType, AdoptType, RecordType, SaveType, ForgetType,
   ForgetDiskType, MarkMemType, MarkLoadType, MarkSaveType, InspectType,
   EvictType, ReaddType, ResyncType, MintType, VerifyType, PlaceUPIType,
   HoldType, PlaceCODType, ActiveType, HistoryType, TasteType, ClearIMType,
   PollType, DiscardType, ConfirmType, SweepCartType, ReleaseType, SettleType
   DEF Continue

-----------------------------------------------------------------------------
(* The inductive invariant *)

PayInv == LandedInv /\ PurseInv /\ OneConfirmInFlight /\ ClaimIsHeld

LEMMA IInvParts == IInv <=> TypeOK /\ LocalsOK /\ TicketInv /\ PayInv
BY DEF IInv, PayInv

-----------------------------------------------------------------------------
(* Steps that leave tickets, or payments, alone *)

Others(c) == \A d \in Calls : d # c => pc'[d] = pc[d] /\ job'[d] = job[d]

LEMMA GotoMoves ==
  ASSUME CallsType, NEW c \in Calls, NEW l, NEW j, Goto(c, l, j)
  PROVE  Others(c) /\ pc'[c] = l /\ job'[c] = j
BY DEF CallsType, Goto, Others

LEMMA ReturnMoves ==
  ASSUME CallsType, NEW c \in Calls, Return(c)
  PROVE  Others(c) /\ pc'[c] = "idle"
BY GotoMoves DEF Return

LEMMA StepMoves ==
  ASSUME CallsType, NEW c \in Calls, NEW l, Step(c, l)
  PROVE  Others(c) /\ pc'[c] = l /\ job'[c] = job[c]
BY GotoMoves DEF Step

LEMMA StayMoves ==
  ASSUME UNCHANGED calls
  PROVE  \A c \in Calls : Others(c) /\ pc'[c] = pc[c] /\ job'[c] = job[c]
BY DEF calls, Others

TicketLabels == {"verify", "upi", "cod"}

LEMMA TicketQuiet ==
  ASSUME TicketInv, NEW c \in Calls, Others(c), pc'[c] \notin TicketLabels,
         UNCHANGED <<pending, spent, shown>>
  PROVE  TicketInv'
<1>1. \A i \in ConfIds, d \in Calls : HasTicket(d, i)' => HasTicket(d, i)
  BY DEF Others, HasTicket, TicketLabels
<1> QED BY <1>1 DEF TicketInv

ClaimLabels == {"confirm", "sweepCart", "settle", "release"}

\* What a step may do outside the payment store without disturbing it.
LEMMA PayQuiet ==
  ASSUME TypeOK, LocalsOK, PayInv, NEW c \in Calls, Others(c),
         pc[c] \notin ClaimLabels \cup {"discard"},
         pc'[c] \notin ClaimLabels \cup {"hold"},
         UNCHANGED <<payments, confirming, confirmed>>,
         \A p \in PayIds : upi'[p].status = "none" <=> upi[p].status = "none",
         \A i \in ConfIds : landed[i] # None => landed'[i] # None
  PROVE  PayInv'
<1>1. \A p \in PayIds, d \in Calls : InFlight(d, p)' <=> InFlight(d, p)
  BY DEF Others, InFlight, ClaimLabels
<1>2. \A p \in PayIds, d \in Calls : Answered(d, p)' <=> Answered(d, p)
  BY DEF Others, Answered, ClaimLabels
<1>3. \A p \in PayIds, d \in Calls : Hands(d, p)' => Hands(d, p)
  BY DEF Others, Hands
<1>4. PurseInv'
  BY <1>1, <1>2, <1>3 DEF PayInv, PurseInv
<1>5. OneConfirmInFlight'
  BY <1>1 DEF PayInv, OneConfirmInFlight
<1>6. ClaimIsHeld'
  BY DEF PayInv, ClaimIsHeld, Others, ClaimLabels
<1>7. LandedInv'
  <2>1. \A p \in PayIds : payments[p] # None => payments[p].ord.id \in ConfIds
    BY DEF TypeOK, StoresType, PaymentEntries, PendingOrders
  <2>2. \A d \in Calls : pc[d] \in {"hold", "confirm"} => job[d].ord.id \in ConfIds
    BY DEF TypeOK, CallsType, LocalsOK, LocalsAt, Jobs, PendingOrders
  <2> QED BY <2>1, <2>2 DEF PayInv, LandedInv, Others, ClaimLabels
<1> QED BY <1>4, <1>5, <1>6, <1>7 DEF PayInv

\* Most steps of a handler are of this kind.
Quiet1(c) ==
  /\ Others(c)
  /\ pc[c] \notin ClaimLabels \cup {"discard"}
  /\ pc'[c] \notin ClaimLabels \cup {"hold"} \cup TicketLabels
  /\ UNCHANGED <<pending, spent, shown, payments, confirming, confirmed, upi, landed>>

LEMMA QuietSafe ==
  ASSUME TypeOK, LocalsOK, TicketInv, PayInv, NEW c \in Calls, Quiet1(c)
  PROVE  TicketInv' /\ PayInv'
BY TicketQuiet, PayQuiet DEF Quiet1

-----------------------------------------------------------------------------
LEMMA MemorySteps ==
  ASSUME TypeOK, LocalsOK, NEW c \in Calls,
         Look(c) \/ LookDisk(c) \/ Adopt(c) \/ Record(c) \/ Save(c) \/ Forget(c)
           \/ ForgetDisk(c) \/ MarkMem(c) \/ MarkLoad(c) \/ MarkSave(c)
  PROVE  Quiet1(c)
<1> USE DEF Quiet1, ClaimLabels, TicketLabels, swiggy, stores, observed, At
<1>0. CallsType /\ job[c] \in Jobs
  BY DEF TypeOK, CallsType
<1>1. ASSUME NEW cw, Found(c, cw)
      PROVE  Others(c) /\ pc'[c] \in {"history", "taste", "decide", "resync", "mint"}
  BY <1>0, <1>1, GotoMoves DEF Found, AfterLook, Jobs
<1>2. CASE Look(c)
  BY <1>0, <1>1, <1>2, StepMoves DEF Look
<1>3. CASE LookDisk(c)
  BY <1>0, <1>1, <1>3, GotoMoves DEF LookDisk
<1>4. CASE Adopt(c)
  BY <1>0, <1>1, <1>4 DEF Adopt
<1>5. CASE Record(c)
  BY <1>0, <1>5, GotoMoves DEF Record
<1>6. CASE Save(c)
  BY <1>0, <1>6, StepMoves, ReturnMoves DEF Save
<1>7. CASE Forget(c)
  BY <1>0, <1>7, StepMoves DEF Forget
<1>8. CASE ForgetDisk(c)
  BY <1>0, <1>8, StepMoves, ReturnMoves DEF ForgetDisk
<1>9. CASE MarkMem(c)
  BY <1>0, <1>9, StepMoves DEF MarkMem
<1>10. CASE MarkLoad(c)
  BY <1>0, <1>10, GotoMoves, StepMoves, ReturnMoves DEF MarkLoad, AfterMark
<1>11. CASE MarkSave(c)
  BY <1>0, <1>11, StepMoves, ReturnMoves DEF MarkSave, AfterMark
<1> QED BY <1>2, <1>3, <1>4, <1>5, <1>6, <1>7, <1>8, <1>9, <1>10, <1>11

LEMMA CartSteps ==
  ASSUME TypeOK, LocalsOK, NEW c \in Calls,
         UpdateCart(c) \/ Inspect(c) \/ Evict(c) \/ Readd(c) \/ ClearCart(c)
           \/ IMUpdateCart(c) \/ PrepareOrder(c) \/ Resync(c) \/ OrderPreset(c)
           \/ IMPrepareOrder(c)
  PROVE  Quiet1(c)
<1> USE DEF Quiet1, ClaimLabels, TicketLabels, swiggy, stores, observed, At, Begins
<1>0. CallsType /\ job[c] \in Jobs
  BY DEF TypeOK, CallsType
<1>1. CASE UpdateCart(c)
  <2>1. UNCHANGED calls \/ \E l \in {"record", "inspect"} : \E j : Goto(c, l, j)
    BY <1>1 DEF UpdateCart
  <2>2. Others(c) /\ pc'[c] \in {"record", "inspect"} \cup {pc[c]}
    BY <1>0, <2>1, GotoMoves, StayMoves
  <2> QED BY <1>1, <2>2 DEF UpdateCart
<1>2. CASE Inspect(c)
  BY <1>0, <1>2, StepMoves, ReturnMoves DEF Inspect
<1>3. CASE Evict(c)
  BY <1>0, <1>3, StepMoves, ReturnMoves DEF Evict
<1>4. CASE Readd(c)
  BY <1>0, <1>4, StepMoves, ReturnMoves DEF Readd
<1>5. CASE ClearCart(c)
  BY <1>0, <1>5, GotoMoves, StayMoves DEF ClearCart
<1>6. CASE IMUpdateCart(c)
  BY <1>0, <1>6, GotoMoves, StayMoves DEF IMUpdateCart
<1>7. CASE PrepareOrder(c)
  <2>1. \E l \in {"look"} : \E j : Goto(c, l, j)
    BY <1>7 DEF PrepareOrder
  <2>2. Others(c) /\ pc'[c] \in {"look"}
    BY <1>0, <2>1, GotoMoves
  <2> QED BY <1>7, <2>2 DEF PrepareOrder
<1>8. CASE Resync(c)
  BY <1>0, <1>8, GotoMoves, ReturnMoves DEF Resync
<1>9. CASE OrderPreset(c)
  <2>1. UNCHANGED calls \/ \E l \in {"record"} : \E j : Goto(c, l, j)
    BY <1>9 DEF OrderPreset
  <2>2. Others(c) /\ pc'[c] \in {"record"} \cup {pc[c]}
    BY <1>0, <2>1, GotoMoves, StayMoves
  <2> QED BY <1>9, <2>2 DEF OrderPreset
<1>10. CASE IMPrepareOrder(c)
  <2>1. \E l \in {"mint"} : \E j : Goto(c, l, j)
    BY <1>10 DEF IMPrepareOrder
  <2>2. Others(c) /\ pc'[c] \in {"mint"}
    BY <1>0, <2>1, GotoMoves
  <2> QED BY <1>10, <2>2 DEF IMPrepareOrder
<1> QED BY <1>1, <1>2, <1>3, <1>4, <1>5, <1>6, <1>7, <1>8, <1>9, <1>10

LEMMA BookSteps ==
  ASSUME TypeOK, LocalsOK, NEW c \in Calls,
         Active(c) \/ History(c) \/ Taste(c) \/ ClearIM(c) \/ Check(c) \/ Poll(c)
  PROVE  Quiet1(c)
<1> USE DEF Quiet1, ClaimLabels, TicketLabels, swiggy, stores, observed, At, Begins
<1>0. CallsType /\ job[c] \in Jobs
  BY DEF TypeOK, CallsType
<1>1. CASE Active(c)
  BY <1>0, <1>1, GotoMoves, StepMoves DEF Active
<1>2. CASE History(c)
  BY <1>0, <1>2, GotoMoves DEF History
<1>3. CASE Taste(c)
  BY <1>0, <1>3, StepMoves DEF Taste
<1>4. CASE ClearIM(c)
  BY <1>0, <1>4, ReturnMoves DEF ClearIM
<1>5. CASE Check(c)
  BY <1>0, <1>5, GotoMoves DEF Check
<1>6. CASE Poll(c)
  BY <1>0, <1>6, StepMoves, ReturnMoves DEF Poll
<1> QED BY <1>1, <1>2, <1>3, <1>4, <1>5, <1>6

-----------------------------------------------------------------------------
(* Steps on the confirmation store and on orders *)

LEMMA MintSafe ==
  ASSUME IInv, NEW c \in Calls, Mint(c)
  PROVE  TicketInv' /\ PayInv'
<1>1. /\ TypeOK /\ LocalsOK /\ TicketInv /\ PayInv /\ CallsType
      /\ Others(c) /\ pc[c] = "mint" /\ pc'[c] = "idle" /\ UNCHANGED spent
  BY ReturnMoves, IInvParts DEF Mint, At, TypeOK
<1>2. PayInv'
  BY <1>1, PayQuiet DEF Mint, swiggy, ClaimLabels
<1>3. CASE UNCHANGED <<pending, shown>>
  BY <1>1, <1>2, <1>3, TicketQuiet DEF TicketLabels
<1>4. CASE ~UNCHANGED <<pending, shown>>
  <2> DEFINE j == job[c]
             p(id) == [id |-> id, addr |-> j.addr, vert |-> j.vert,
                       hash |-> Hash(j.addr, j.seen), at |-> now]
  <2>1. PICK id \in SpareConfIds : /\ PutPending(id, p(id))
                                   /\ shown' = [shown EXCEPT ![id] = j.seen]
                                   /\ j.seen # None
    BY <1>4 DEF Mint, Orderable
  <2>2. id \in ConfIds /\ shown[id] = None /\ p(id).id = id
    BY DEF SpareConfIds
  <2>3. \A i \in ConfIds, d \in Calls : HasTicket(d, i)' => HasTicket(d, i) /\ i # id
    BY <1>1, <2>2 DEF Others, HasTicket, TicketInv
  <2>4. spent[id] = 0
    BY <1>1, <2>2 DEF TicketInv
  <2>5. \A i \in ConfIds : i # id => (pending'[i] = None \/ pending'[i] = pending[i])
                                     /\ shown'[i] = shown[i]
    BY <1>1, <2>1, <2>2 DEF PutPending, TypeOK, ObservedType
  <2>6. pending'[id] = p(id) /\ shown'[id] # None
    BY <1>1, <2>1, <2>2 DEF PutPending, TypeOK, ObservedType
  <2>7. pending'[id].id = id
    BY <2>2, <2>6
  <2> HIDE DEF p, j
  <2>8. ASSUME NEW i \in ConfIds
        PROVE  /\ spent'[i] <= 1
               /\ pending'[i] # None =>
                    pending'[i].id = i /\ spent'[i] = 0 /\ shown'[i] # None
               /\ shown'[i] = None => spent'[i] = 0
    BY <1>1, <2>2, <2>4, <2>5, <2>6, <2>7 DEF TicketInv
  <2>9. ASSUME NEW i \in ConfIds, NEW d \in Calls, HasTicket(d, i)'
        PROVE  /\ pending'[i] = None /\ spent'[i] = 0 /\ shown'[i] # None
               /\ \A e \in Calls : HasTicket(e, i)' => e = d
    BY <1>1, <2>3, <2>5, <2>9 DEF TicketInv
  <2> QED BY <1>2, <2>8, <2>9 DEF TicketInv
<1> QED BY <1>3, <1>4

LEMMA TakePendingSafe ==
  ASSUME IInv, NEW c \in Calls, TakePending(c)
  PROVE  TicketInv' /\ PayInv'
<1>1. TypeOK /\ LocalsOK /\ TicketInv /\ PayInv /\ CallsType /\ pc[c] = "idle" /\ UNCHANGED <<spent, shown>>
  BY IInvParts DEF TakePending, Begins, TypeOK, observed
<1>2. PICK id \in ConfIds, m \in Methods :
        /\ pending[id] # None
        /\ TakeOut(id)
        /\ \/ UNCHANGED calls
           \/ Goto(c, "verify", [Request("place_order", pending[id].vert) EXCEPT
                                   !.ord = pending[id], !.method = m])
  BY DEF TakePending
<1>3. /\ pending'[id] = None
      /\ \A i \in ConfIds : i # id => pending'[i] = pending[i]
  BY <1>1, <1>2 DEF TakeOut, TypeOK, StoresType
<1>4. pending[id].id = id /\ spent[id] = 0 /\ shown[id] # None
  BY <1>1, <1>2 DEF TicketInv
<1>5. CASE UNCHANGED calls
  <2>1. Others(c) /\ pc'[c] = "idle"
    BY <1>1, <1>5, StayMoves
  <2>2. PayInv'
    BY <1>1, <2>1, PayQuiet DEF TakePending, swiggy, observed, ClaimLabels
  <2>3. \A i \in ConfIds, d \in Calls : HasTicket(d, i)' => HasTicket(d, i)
    BY <1>1, <2>1 DEF Others, HasTicket
  <2> QED BY <1>1, <1>3, <2>2, <2>3 DEF TicketInv
<1>6. CASE Goto(c, "verify", [Request("place_order", pending[id].vert) EXCEPT
                                !.ord = pending[id], !.method = m])
  <2> DEFINE j == [Request("place_order", pending[id].vert) EXCEPT
                     !.ord = pending[id], !.method = m]
  <2>1. Others(c) /\ pc'[c] = "verify" /\ job'[c] = j
    BY <1>1, <1>6, GotoMoves
  <2>2. PayInv'
    BY <1>1, <2>1, PayQuiet DEF TakePending, swiggy, observed, ClaimLabels
  <2>3. pending[id].vert \in Verticals
    BY <1>1, <1>2 DEF TypeOK, StoresType, PendingOrders
  <2>4. j.ord = pending[id]
    BY <2>3, RequestType DEF AllTools, Jobs
  <2> HIDE DEF j
  <2>5. \A i \in ConfIds, d \in Calls :
          HasTicket(d, i)' <=> (d = c /\ i = id) \/ (d # c /\ HasTicket(d, i))
    BY <1>1, <1>4, <2>1, <2>4 DEF Others, HasTicket
  <2> QED BY <1>1, <1>2, <1>3, <1>4, <2>2, <2>5 DEF TicketInv
<1> QED BY <1>2, <1>5, <1>6

LEMMA VerifySafe ==
  ASSUME IInv, NEW c \in Calls, Verify(c)
  PROVE  TicketInv' /\ PayInv'
<1>1. /\ TypeOK /\ LocalsOK /\ TicketInv /\ PayInv /\ CallsType /\ pc[c] = "verify"
      /\ UNCHANGED <<pending, spent, shown, payments, confirming, confirmed, upi, landed>>
  BY IInvParts DEF Verify, At, TypeOK, swiggy, stores, observed
<1>2. /\ Others(c) /\ pc'[c] \in {"idle", "cod", "upi"}
      /\ pc'[c] # "idle" => job'[c] = job[c]
  BY <1>1, StepMoves, ReturnMoves DEF Verify
<1>3. PayInv'
  BY <1>1, <1>2, PayQuiet DEF ClaimLabels
<1>4. \A i \in ConfIds, d \in Calls : HasTicket(d, i)' => HasTicket(d, i)
  BY <1>1, <1>2 DEF Others, HasTicket
<1> QED BY <1>1, <1>3, <1>4 DEF TicketInv

\* Once the order of its ticket has landed, a call no longer holds the ticket.
LEMMA LandSafe ==
  ASSUME TypeOK, TicketInv, NEW c \in Calls, pc[c] \in {"upi", "cod"},
         job[c].ord \in PendingOrders, NEW known, Land(c, known), Others(c),
         pc'[c] \notin TicketLabels, UNCHANGED <<pending, shown>>
  PROVE  TicketInv'
<1> DEFINE i == job[c].ord.id
<1>1. i \in ConfIds /\ HasTicket(c, i)
  BY DEF PendingOrders, HasTicket
<1>2. spent[i] = 0 /\ pending[i] = None /\ shown[i] # None
      /\ \A d \in Calls : HasTicket(d, i) => d = c
  BY <1>1 DEF TicketInv
<1>3. spent' = [spent EXCEPT ![i] = 1]
  BY <1>2 DEF Land
<1>4. \A k \in ConfIds, d \in Calls : HasTicket(d, k)' => HasTicket(d, k) /\ k # i
  BY <1>2 DEF Others, HasTicket, TicketLabels
<1> HIDE DEF i
<1> QED BY <1>1, <1>2, <1>3, <1>4 DEF TicketInv, TypeOK, ObservedType

LEMMA PlaceFailsSafe ==
  ASSUME IInv, NEW c \in Calls, pc[c] \in {"upi", "cod"}, PlaceFails(c),
         UNCHANGED <<pending, shown, payments, confirming, confirmed, upi>>
  PROVE  TicketInv' /\ PayInv'
<1>1. /\ TypeOK /\ LocalsOK /\ TicketInv /\ PayInv /\ CallsType
      /\ job[c] \in Jobs /\ job[c].ord \in PendingOrders
  BY IInvParts DEF TypeOK, CallsType, LocalsOK, LocalsAt, Jobs
<1>2. Others(c) /\ pc'[c] = "idle"
  BY <1>1, ReturnMoves DEF PlaceFails
<1>3. CASE Land(c, FALSE)
  <2>1. TicketInv'
    BY <1>1, <1>2, <1>3, LandSafe DEF TicketLabels
  <2>2. PayInv'
    BY <1>1, <1>2, <1>3, LandType, PayQuiet DEF ClaimLabels
  <2> QED BY <2>1, <2>2
<1>4. CASE UNCHANGED <<landed, spent, cart>>
  BY <1>1, <1>2, <1>4, QuietSafe DEF Quiet1, TicketLabels, ClaimLabels
<1> QED BY <1>3, <1>4 DEF PlaceFails

\* A payment just opened is in nobody else's hands.
LEMMA OpenSafe ==
  ASSUME IInv, NEW c \in Calls, pc[c] = "upi", Land(c, FALSE),
         NEW id \in SparePayIds,
         upi' = [upi EXCEPT ![id] = [status |-> "open", exp |-> now + PayWindow,
                                     conf |-> job[c].ord.id]],
         Goto(c, "hold", [job[c] EXCEPT !.pay = id]),
         UNCHANGED <<payments, confirming, confirmed>>
  PROVE  PayInv'
<1> DEFINE j == [job[c] EXCEPT !.pay = id]
<1>1. /\ TypeOK /\ LocalsOK /\ PayInv /\ CallsType
      /\ job[c] \in Jobs /\ job[c].ord \in PendingOrders
      /\ id \in PayIds /\ upi[id].status = "none"
  BY IInvParts DEF TypeOK, CallsType, LocalsOK, LocalsAt, Jobs, SparePayIds
<1>2. Others(c) /\ pc'[c] = "hold" /\ job'[c] = j
  BY <1>1, GotoMoves
<1>3. j.pay = id /\ j.ord = job[c].ord
  BY <1>1 DEF Jobs
<1>4. /\ upi'[id].status = "open"
      /\ \A p \in PayIds : p # id => upi'[p] = upi[p]
  BY <1>1 DEF TypeOK, SwiggyType
<1>5. \A i \in ConfIds : landed[i] # None => landed'[i] # None
  BY <1>1, LandType
<1>6. landed'[job[c].ord.id] # None
  <2>1. landed' = [landed EXCEPT ![job[c].ord.id] =
                     [basket |-> cart[job[c].vert], addr |-> job[c].ord.addr,
                      at |-> now, known |-> FALSE]]
    BY DEF Land
  <2>2. cart[job[c].vert] \in Baskets /\ job[c].ord.addr \in Addresses /\ job[c].ord.id \in ConfIds
    BY <1>1 DEF Land, TypeOK, SwiggyType, Jobs, PendingOrders
  <2>3. [basket |-> cart[job[c].vert], addr |-> job[c].ord.addr,
         at |-> now, known |-> FALSE] \in LandedOrders
    BY <1>1, <2>2 DEF LandedOrders, TypeOK, WorldType
  <2> QED BY <1>1, <2>1, <2>2, <2>3, NoneAssumption DEF TypeOK, SwiggyType
<1> HIDE DEF j
<1>7. \A p \in PayIds, d \in Calls : InFlight(d, p)' <=> InFlight(d, p)
  BY <1>2 DEF Others, InFlight
<1>8. \A p \in PayIds, d \in Calls : Answered(d, p)' <=> Answered(d, p)
  BY <1>2 DEF Others, Answered
<1>9. \A p \in PayIds, d \in Calls :
        Hands(d, p)' => (d = c /\ p = id) \/ (d # c /\ Hands(d, p))
  BY <1>2, <1>3 DEF Others, Hands
<1>10. /\ payments[id] = None /\ confirmed[id] = 0
       /\ \A d \in Calls : ~InFlight(d, id) /\ ~Hands(d, id)
  BY <1>1 DEF PayInv, PurseInv
<1>11. PurseInv'
  BY <1>1, <1>2, <1>3, <1>4, <1>7, <1>8, <1>9, <1>10 DEF PayInv, PurseInv
<1>12. OneConfirmInFlight'
  BY <1>1, <1>7 DEF PayInv, OneConfirmInFlight
<1>13. ClaimIsHeld'
  BY <1>1, <1>2 DEF PayInv, ClaimIsHeld, Others
<1>14. LandedInv'
  <2>1. \A p \in PayIds : payments[p] # None => payments[p].ord.id \in ConfIds
    BY <1>1 DEF TypeOK, StoresType, PaymentEntries, PendingOrders
  <2>2. \A d \in Calls : pc[d] \in {"hold", "confirm"} => job[d].ord.id \in ConfIds
    BY <1>1 DEF TypeOK, CallsType, LocalsOK, LocalsAt, Jobs, PendingOrders
  <2> QED BY <1>1, <1>2, <1>3, <1>5, <1>6, <2>1, <2>2 DEF PayInv, LandedInv, Others
<1> QED BY <1>11, <1>12, <1>13, <1>14 DEF PayInv

LEMMA PlaceUPISafe ==
  ASSUME IInv, NEW c \in Calls, PlaceUPI(c)
  PROVE  TicketInv' /\ PayInv'
<1>1. /\ TypeOK /\ LocalsOK /\ TicketInv /\ PayInv /\ CallsType /\ pc[c] = "upi"
      /\ job[c] \in Jobs /\ job[c].ord \in PendingOrders
      /\ UNCHANGED <<pending, shown, payments, confirming, confirmed>>
  BY IInvParts DEF PlaceUPI, At, TypeOK, CallsType, LocalsOK, LocalsAt, Jobs, stores
<1>2. CASE PlaceFails(c) /\ UNCHANGED upi
  BY <1>1, <1>2, PlaceFailsSafe
<1>3. CASE (Return(c) \/ Step(c, "cod")) /\ UNCHANGED <<landed, spent, cart, upi>>
  <2>1. /\ Others(c) /\ pc'[c] \in {"idle", "cod"}
        /\ pc'[c] # "idle" => job'[c] = job[c]
    BY <1>1, <1>3, ReturnMoves, StepMoves
  <2>2. \A i \in ConfIds, d \in Calls : HasTicket(d, i)' => HasTicket(d, i)
    BY <1>1, <2>1 DEF Others, HasTicket
  <2>3. PayInv'
    BY <1>1, <1>3, <2>1, PayQuiet DEF ClaimLabels
  <2> QED BY <1>1, <1>3, <2>2, <2>3 DEF TicketInv
<1>4. ASSUME Land(c, FALSE), NEW id \in SparePayIds,
             upi' = [upi EXCEPT ![id] = [status |-> "open", exp |-> now + PayWindow,
                                         conf |-> job[c].ord.id]],
             Goto(c, "hold", [job[c] EXCEPT !.pay = id])
      PROVE  TicketInv' /\ PayInv'
  <2>1. Others(c) /\ pc'[c] = "hold"
    BY <1>1, <1>4, GotoMoves
  <2>2. TicketInv'
    BY <1>1, <1>4, <2>1, LandSafe DEF TicketLabels
  <2> QED BY <1>1, <1>4, <2>2, OpenSafe
<1> QED BY <1>2, <1>3, <1>4 DEF PlaceUPI

LEMMA PlaceCODSafe ==
  ASSUME IInv, NEW c \in Calls, PlaceCOD(c)
  PROVE  TicketInv' /\ PayInv'
<1>1. /\ TypeOK /\ LocalsOK /\ TicketInv /\ PayInv /\ CallsType /\ pc[c] = "cod"
      /\ job[c] \in Jobs /\ job[c].ord \in PendingOrders
      /\ UNCHANGED <<pending, shown, payments, confirming, confirmed, upi>>
  BY IInvParts DEF PlaceCOD, At, TypeOK, CallsType, LocalsOK, LocalsAt, Jobs, stores
<1>2. CASE PlaceFails(c)
  BY <1>1, <1>2, PlaceFailsSafe
<1>3. CASE Land(c, TRUE) /\ Step(c, "active")
  <2>1. Others(c) /\ pc'[c] = "active"
    BY <1>1, <1>3, StepMoves
  <2>2. TicketInv'
    BY <1>1, <1>3, <2>1, LandSafe DEF TicketLabels
  <2>3. PayInv'
    BY <1>1, <1>3, <2>1, LandType, PayQuiet DEF ClaimLabels
  <2> QED BY <2>2, <2>3
<1> QED BY <1>2, <1>3 DEF PlaceCOD

-----------------------------------------------------------------------------
(* Steps on the payment store *)

\* A payment and its flag are dropped together by the call that is done with it.
LEMMA RemoveSafe ==
  ASSUME IInv, NEW c \in Calls, pc[c] \in {"settle", "discard"},
         RemovePayment(job[c].pay), Others(c),
         pc'[c] \notin ClaimLabels \cup {"hold"} \cup TicketLabels,
         UNCHANGED <<pending, spent, shown, confirmed, upi, landed>>
  PROVE  TicketInv' /\ PayInv'
<1> DEFINE id == job[c].pay
<1>1. TypeOK /\ LocalsOK /\ TicketInv /\ PayInv /\ id \in PayIds
  BY IInvParts DEF TypeOK, CallsType, LocalsOK, LocalsAt, Jobs
<1>2. /\ payments'[id] = None /\ confirming' = confirming \ {id}
      /\ \A p \in PayIds : p # id => payments'[p] = payments[p]
  BY <1>1 DEF RemovePayment, TypeOK, StoresType
<1>3. \A p \in PayIds, d \in Calls : InFlight(d, p)' <=> d # c /\ InFlight(d, p)
  BY DEF Others, InFlight, ClaimLabels
<1>4. \A p \in PayIds, d \in Calls : Answered(d, p)' <=> d # c /\ Answered(d, p)
  BY DEF Others, Answered, ClaimLabels
<1>5. \A p \in PayIds, d \in Calls : Hands(d, p)' => Hands(d, p)
  BY DEF Others, Hands
<1>6. \A p \in PayIds : Answered(c, p) => p = id
  BY DEF Answered
<1> HIDE DEF id
<1>7. TicketInv'
  BY <1>1, TicketQuiet
<1>8. PurseInv'
  <2>1. ASSUME NEW p \in PayIds
        PROVE  /\ upi'[p].status = "none" => payments'[p] = None /\ confirmed'[p] = 0
               /\ confirmed'[p] <= 1
               /\ confirmed'[p] # 0 /\ payments'[p] # None
                    => \E d \in Calls : Answered(d, p)'
               /\ p \in confirming' => payments'[p] # None
    <3>1. CASE p = id
      BY <1>1, <1>2, <3>1 DEF PayInv, PurseInv
    <3>2. CASE p # id
      BY <1>1, <1>2, <1>4, <1>6, <3>2 DEF PayInv, PurseInv
    <3> QED BY <3>1, <3>2
  <2>2. ASSUME NEW p \in PayIds, NEW d \in Calls
        PROVE  /\ Hands(d, p)' =>
                    /\ upi'[p].status # "none" /\ payments'[p] = None /\ confirmed'[p] = 0
                    /\ \A e \in Calls : ~InFlight(e, p)' /\ (Hands(e, p)' => e = d)
               /\ InFlight(d, p)' =>
                    /\ upi'[p].status # "none"
                    /\ payments'[p] # None => p \in confirming'
                    /\ confirmed'[p] # 0 => Answered(d, p)'
    BY <1>1, <1>2, <1>3, <1>4, <1>5 DEF PayInv, PurseInv
  <2> QED BY <2>1, <2>2 DEF PurseInv
<1>9. OneConfirmInFlight'
  BY <1>1, <1>3 DEF PayInv, OneConfirmInFlight
<1>10. ClaimIsHeld'
  BY <1>1, <1>2 DEF PayInv, ClaimIsHeld, Others, id
<1>11. LandedInv'
  BY <1>1, <1>2 DEF PayInv, LandedInv, Others, ClaimLabels
<1> QED BY <1>7, <1>8, <1>9, <1>10, <1>11 DEF PayInv

LEMMA DiscardSafe ==
  ASSUME IInv, NEW c \in Calls, Discard(c)
  PROVE  TicketInv' /\ PayInv'
<1>1. pc[c] = "discard" /\ Others(c) /\ pc'[c] = "idle"
  BY ReturnMoves, IInvParts DEF Discard, At, TypeOK
<1> QED BY <1>1, RemoveSafe DEF Discard, swiggy, ClaimLabels, TicketLabels

LEMMA SettleSafe ==
  ASSUME IInv, NEW c \in Calls, Settle(c)
  PROVE  TicketInv' /\ PayInv'
<1>1. pc[c] = "settle" /\ Others(c) /\ pc'[c] = "active"
  BY StepMoves, IInvParts DEF Settle, At, TypeOK
<1> QED BY <1>1, RemoveSafe DEF Settle, swiggy, observed, ClaimLabels, TicketLabels

LEMMA HoldSafe ==
  ASSUME IInv, NEW c \in Calls, Hold(c)
  PROVE  TicketInv' /\ PayInv'
<1> DEFINE id == job[c].pay
           e == [exp |-> upi[id].exp, ord |-> job[c].ord]
<1>1. /\ TypeOK /\ LocalsOK /\ TicketInv /\ PayInv /\ CallsType /\ pc[c] = "hold"
      /\ id \in PayIds
      /\ UNCHANGED <<pending, spent, shown, confirmed, upi, landed>>
  BY IInvParts DEF Hold, At, TypeOK, CallsType, LocalsOK, LocalsAt, Jobs, swiggy, observed
<1>2. Others(c) /\ pc'[c] = "idle"
  BY <1>1, ReturnMoves DEF Hold
<1>3. PutPayment(id, e)
  BY DEF Hold
<1>4. /\ payments'[id] = e
      /\ \A p \in PayIds : p # id /\ payments'[p] # None =>
           payments[p] # None /\ payments'[p] = payments[p] /\ ~Closed(payments[p])
      /\ \A p \in PayIds : p # id /\ payments[p] # None /\ ~Closed(payments[p]) =>
           payments'[p] = payments[p]
  BY <1>1, <1>3 DEF PutPayment
<1>5. /\ confirming' \subseteq confirming
      /\ \A p \in PayIds : p \in confirming' <=>
           p \in confirming /\ (payments[p] = None \/ ~Closed(payments[p]))
  BY <1>3 DEF PutPayment
<1>6. e # None /\ landed[e.ord.id] # None
  <2>1. e \in PaymentEntries
    BY <1>1 DEF TypeOK, SwiggyType, CallsType, UpiStates, LocalsOK, LocalsAt, Jobs, PaymentEntries
  <2> QED BY <1>1, <2>1, NoneAssumption DEF PayInv, LandedInv
<1>7. Hands(c, id)
  BY <1>1 DEF Hands
<1>8. \A p \in PayIds, d \in Calls : InFlight(d, p)' <=> InFlight(d, p)
  BY <1>1, <1>2 DEF Others, InFlight
<1>9. \A p \in PayIds, d \in Calls : Answered(d, p)' <=> Answered(d, p)
  BY <1>1, <1>2 DEF Others, Answered
<1>10. \A p \in PayIds, d \in Calls : Hands(d, p)' => Hands(d, p) /\ d # c
  BY <1>2 DEF Others, Hands
<1>11. /\ upi[id].status # "none" /\ payments[id] = None /\ confirmed[id] = 0
       /\ \A d \in Calls : ~InFlight(d, id) /\ (Hands(d, id) => d = c)
       /\ id \notin confirming
  BY <1>1, <1>7 DEF PayInv, PurseInv
<1> HIDE DEF e, id
<1>12. TicketInv'
  BY <1>1, <1>2, TicketQuiet DEF TicketLabels
<1>13. PurseInv'
  <2>1. ASSUME NEW p \in PayIds
        PROVE  /\ upi'[p].status = "none" => payments'[p] = None /\ confirmed'[p] = 0
               /\ confirmed'[p] <= 1
               /\ confirmed'[p] # 0 /\ payments'[p] # None
                    => \E d \in Calls : Answered(d, p)'
               /\ p \in confirming' => payments'[p] # None
    <3>1. CASE p = id
      BY <1>1, <1>4, <1>5, <1>6, <1>11, <3>1 DEF PayInv, PurseInv
    <3>2. CASE p # id
      BY <1>1, <1>4, <1>5, <1>9, <3>2 DEF PayInv, PurseInv
    <3> QED BY <3>1, <3>2
  <2>2. ASSUME NEW p \in PayIds, NEW d \in Calls
        PROVE  /\ Hands(d, p)' =>
                    /\ upi'[p].status # "none" /\ payments'[p] = None /\ confirmed'[p] = 0
                    /\ \A f \in Calls : ~InFlight(f, p)' /\ (Hands(f, p)' => f = d)
               /\ InFlight(d, p)' =>
                    /\ upi'[p].status # "none"
                    /\ payments'[p] # None => p \in confirming'
                    /\ confirmed'[p] # 0 => Answered(d, p)'
    <3>1. CASE p = id
      BY <1>1, <1>8, <1>10, <1>11, <3>1 DEF PayInv, PurseInv
    <3>2. CASE p # id
      BY <1>1, <1>4, <1>5, <1>8, <1>9, <1>10, <3>2 DEF PayInv, PurseInv
    <3> QED BY <3>1, <3>2
  <2> QED BY <2>1, <2>2 DEF PurseInv
<1>14. OneConfirmInFlight'
  BY <1>1, <1>8 DEF PayInv, OneConfirmInFlight
<1>15. ClaimIsHeld'
  BY <1>1, <1>2, <1>5 DEF PayInv, ClaimIsHeld, Others
<1>16. LandedInv'
  BY <1>1, <1>2, <1>4, <1>6 DEF PayInv, LandedInv, Others
<1> QED BY <1>12, <1>13, <1>14, <1>15, <1>16 DEF PayInv

LEMMA ClaimConfirmSafe ==
  ASSUME IInv, NEW c \in Calls, ClaimConfirm(c)
  PROVE  TicketInv' /\ PayInv'
<1>1. /\ TypeOK /\ LocalsOK /\ TicketInv /\ PayInv /\ CallsType /\ pc[c] = "idle"
      /\ UNCHANGED <<pending, spent, shown, payments, confirmed, upi, landed>>
  BY IInvParts DEF ClaimConfirm, Begins, TypeOK, swiggy, observed
<1>2. PICK id \in PayIds :
        /\ Claimable(id)
        /\ confirming' = confirming \cup {id}
        /\ Goto(c, IF Closed(payments[id]) THEN "discard" ELSE "confirm",
                Paying("confirm_order", id))
  BY DEF ClaimConfirm
<1> DEFINE j == Paying("confirm_order", id)
<1>3. payments[id] # None /\ id \notin confirming /\ payments[id] \in PaymentEntries
  BY <1>1, <1>2 DEF Claimable, TypeOK, StoresType
<1>4. j.pay = id /\ j.ord = payments[id].ord /\ j.tool = "confirm_order"
  BY <1>1, <1>3, PayingType DEF AllTools, Orderers
<1>5. Others(c) /\ pc'[c] \in {"discard", "confirm"} /\ job'[c] = j
  BY <1>1, <1>2, GotoMoves
<1> HIDE DEF j
<1>6. \A p \in PayIds, d \in Calls :
        InFlight(d, p)' => (d = c /\ p = id) \/ (d # c /\ InFlight(d, p))
  BY <1>4, <1>5 DEF Others, InFlight
<1>7. \A p \in PayIds, d \in Calls : Answered(d, p)' <=> Answered(d, p)
  BY <1>1, <1>5 DEF Others, Answered
<1>8. \A p \in PayIds, d \in Calls : Hands(d, p)' => Hands(d, p)
  BY <1>5 DEF Others, Hands
\* Nobody confirms a payment whose entry is there and whose flag is down.
<1>9. /\ upi[id].status # "none" /\ confirmed[id] = 0
      /\ \A d \in Calls : ~InFlight(d, id) /\ ~Hands(d, id)
  <2>1. \A d \in Calls : ~InFlight(d, id) /\ ~Hands(d, id)
    BY <1>1, <1>3 DEF PayInv, PurseInv
  <2>2. \A d \in Calls : Answered(d, id) => InFlight(d, id)
    BY DEF Answered, InFlight
  <2> QED BY <1>1, <1>3, <2>1, <2>2 DEF PayInv, PurseInv
<1>10. TicketInv'
  BY <1>1, <1>5, TicketQuiet DEF TicketLabels
<1>11. PurseInv'
  BY <1>1, <1>2, <1>3, <1>6, <1>7, <1>8, <1>9 DEF PayInv, PurseInv
<1>12. OneConfirmInFlight'
  BY <1>1, <1>6, <1>9 DEF PayInv, OneConfirmInFlight
<1>13. ClaimIsHeld'
  BY <1>1, <1>2, <1>4, <1>5 DEF PayInv, ClaimIsHeld, Others
<1>14. LandedInv'
  BY <1>1, <1>3, <1>4, <1>5 DEF PayInv, LandedInv, Others
<1> QED BY <1>10, <1>11, <1>12, <1>13, <1>14 DEF PayInv

LEMMA ConfirmSafe ==
  ASSUME IInv, NEW c \in Calls, Confirm(c)
  PROVE  TicketInv' /\ PayInv'
<1> DEFINE id == job[c].pay
<1>1. /\ TypeOK /\ LocalsOK /\ TicketInv /\ PayInv /\ CallsType /\ pc[c] = "confirm"
      /\ id \in PayIds /\ job[c].ord.id \in ConfIds
      /\ landed[job[c].ord.id] \in LandedOrders
      /\ UNCHANGED <<pending, spent, shown, payments, confirming, upi>>
  <2>1. /\ TypeOK /\ LocalsOK /\ TicketInv /\ PayInv /\ CallsType /\ pc[c] = "confirm"
        /\ UNCHANGED <<pending, spent, shown, payments, confirming, upi>>
    BY IInvParts DEF Confirm, At, TypeOK, stores
  <2>2. id \in PayIds /\ job[c].ord.id \in ConfIds
    BY <2>1 DEF CallsType, LocalsOK, LocalsAt, Jobs, PendingOrders
  <2>3. landed[job[c].ord.id] \in LandedOrders
    BY <2>1, <2>2 DEF PayInv, LandedInv, TypeOK, SwiggyType
  <2> QED BY <2>1, <2>2, <2>3
<1>2. CASE Step(c, "release") /\ UNCHANGED <<landed, confirmed>>
  <2>1. Others(c) /\ pc'[c] = "release" /\ job'[c] = job[c]
    BY <1>1, <1>2, StepMoves
  <2>2. \A p \in PayIds, d \in Calls : InFlight(d, p)' <=> InFlight(d, p)
    BY <1>1, <2>1 DEF Others, InFlight
  <2>3. \A p \in PayIds, d \in Calls : Answered(d, p)' <=> Answered(d, p)
    BY <1>1, <2>1 DEF Others, Answered
  <2>4. \A p \in PayIds, d \in Calls : Hands(d, p)' => Hands(d, p)
    BY <2>1 DEF Others, Hands
  <2>5. TicketInv'
    BY <1>1, <2>1, TicketQuiet DEF TicketLabels
  <2>6. PurseInv'
    BY <1>1, <1>2, <2>2, <2>3, <2>4 DEF PayInv, PurseInv
  <2>7. OneConfirmInFlight'
    BY <1>1, <2>2 DEF PayInv, OneConfirmInFlight
  <2>8. ClaimIsHeld'
    BY <1>1, <2>1 DEF PayInv, ClaimIsHeld, Others
  <2>9. LandedInv'
    BY <1>1, <1>2, <2>1 DEF PayInv, LandedInv, Others
  <2> QED BY <2>5, <2>6, <2>7, <2>8, <2>9 DEF PayInv
<1>3. ASSUME confirmed' = [confirmed EXCEPT ![id] = @ + 1],
             landed' = [landed EXCEPT ![job[c].ord.id].known = TRUE],
             NEW l \in {"sweepCart", "settle"}, Step(c, l)
      PROVE  TicketInv' /\ PayInv'
  <2>1. Others(c) /\ pc'[c] \in {"sweepCart", "settle"} /\ job'[c] = job[c]
    BY <1>1, <1>3, StepMoves
  <2>2. \A p \in PayIds, d \in Calls : InFlight(d, p)' <=> InFlight(d, p)
    BY <1>1, <2>1 DEF Others, InFlight
  <2>3. \A p \in PayIds, d \in Calls :
          Answered(d, p)' <=> Answered(d, p) \/ (d = c /\ p = id)
    BY <1>1, <2>1 DEF Others, Answered
  <2>4. \A p \in PayIds, d \in Calls : Hands(d, p)' => Hands(d, p)
    BY <2>1 DEF Others, Hands
  <2>5. InFlight(c, id) /\ ~Answered(c, id)
    BY <1>1 DEF InFlight, Answered
  <2>6. confirmed[id] = 0 /\ \A d \in Calls : ~Hands(d, id) /\ (InFlight(d, id) => d = c)
    BY <1>1, <2>5 DEF PayInv, PurseInv, OneConfirmInFlight
  <2>7. confirmed'[id] = 1 /\ \A p \in PayIds : p # id => confirmed'[p] = confirmed[p]
    BY <1>1, <1>3, <2>6 DEF TypeOK, ObservedType
  <2>8. \A i \in ConfIds : landed[i] # None => landed'[i] # None
    <3>1. [landed[job[c].ord.id] EXCEPT !.known = TRUE] \in LandedOrders
      BY <1>1 DEF LandedOrders
    <3> QED BY <1>1, <1>3, <3>1, NoneAssumption DEF TypeOK, SwiggyType
  <2> HIDE DEF id
  <2>9. TicketInv'
    BY <1>1, <2>1, TicketQuiet DEF TicketLabels
  <2>10. PurseInv'
    <3>1. ASSUME NEW p \in PayIds
          PROVE  /\ upi'[p].status = "none" => payments'[p] = None /\ confirmed'[p] = 0
                 /\ confirmed'[p] <= 1
                 /\ confirmed'[p] # 0 /\ payments'[p] # None
                      => \E d \in Calls : Answered(d, p)'
                 /\ p \in confirming' => payments'[p] # None
      BY <1>1, <2>3, <2>5, <2>7 DEF PayInv, PurseInv
    <3>2. ASSUME NEW p \in PayIds, NEW d \in Calls
          PROVE  /\ Hands(d, p)' =>
                      /\ upi'[p].status # "none" /\ payments'[p] = None /\ confirmed'[p] = 0
                      /\ \A f \in Calls : ~InFlight(f, p)' /\ (Hands(f, p)' => f = d)
                 /\ InFlight(d, p)' =>
                      /\ upi'[p].status # "none"
                      /\ payments'[p] # None => p \in confirming'
                      /\ confirmed'[p] # 0 => Answered(d, p)'
      BY <1>1, <2>2, <2>3, <2>4, <2>6, <2>7 DEF PayInv, PurseInv
    <3> QED BY <3>1, <3>2 DEF PurseInv
  <2>11. OneConfirmInFlight'
    BY <1>1, <2>2 DEF PayInv, OneConfirmInFlight
  <2>12. ClaimIsHeld'
    BY <1>1, <2>1 DEF PayInv, ClaimIsHeld, Others
  <2>13. LandedInv'
    <3>1. \A p \in PayIds : payments[p] # None => payments[p].ord.id \in ConfIds
      BY <1>1 DEF TypeOK, StoresType, PaymentEntries, PendingOrders
    <3>2. \A d \in Calls : pc[d] \in {"hold", "confirm"} => job[d].ord.id \in ConfIds
      BY <1>1 DEF TypeOK, CallsType, LocalsOK, LocalsAt, Jobs, PendingOrders
    <3> QED BY <1>1, <2>1, <2>8, <3>1, <3>2 DEF PayInv, LandedInv, Others
  <2> QED BY <2>9, <2>10, <2>11, <2>12, <2>13 DEF PayInv
<1> QED BY <1>2, <1>3 DEF Confirm

LEMMA SweepCartSafe ==
  ASSUME IInv, NEW c \in Calls, SweepCart(c)
  PROVE  TicketInv' /\ PayInv'
<1>1. /\ TypeOK /\ LocalsOK /\ TicketInv /\ PayInv /\ CallsType /\ pc[c] = "sweepCart"
      /\ UNCHANGED <<pending, spent, shown, payments, confirming, confirmed, upi, landed>>
  BY IInvParts DEF SweepCart, At, TypeOK, stores, observed
<1>2. Others(c) /\ pc'[c] = "settle" /\ job'[c] = job[c]
  BY <1>1, StepMoves DEF SweepCart
<1>3. \A p \in PayIds, d \in Calls : InFlight(d, p)' <=> InFlight(d, p)
  BY <1>1, <1>2 DEF Others, InFlight
<1>4. \A p \in PayIds, d \in Calls : Answered(d, p)' <=> Answered(d, p)
  BY <1>1, <1>2 DEF Others, Answered
<1>5. \A p \in PayIds, d \in Calls : Hands(d, p)' => Hands(d, p)
  BY <1>2 DEF Others, Hands
<1>6. TicketInv'
  BY <1>1, <1>2, TicketQuiet DEF TicketLabels
<1>7. PurseInv'
  BY <1>1, <1>3, <1>4, <1>5 DEF PayInv, PurseInv
<1>8. OneConfirmInFlight'
  BY <1>1, <1>3 DEF PayInv, OneConfirmInFlight
<1>9. ClaimIsHeld'
  BY <1>1, <1>2 DEF PayInv, ClaimIsHeld, Others
<1>10. LandedInv'
  BY <1>1, <1>2 DEF PayInv, LandedInv, Others
<1> QED BY <1>6, <1>7, <1>8, <1>9, <1>10 DEF PayInv

LEMMA ReleaseSafe ==
  ASSUME IInv, NEW c \in Calls, Release(c)
  PROVE  TicketInv' /\ PayInv'
<1> DEFINE id == job[c].pay
<1>1. /\ TypeOK /\ LocalsOK /\ TicketInv /\ PayInv /\ CallsType /\ pc[c] = "release"
      /\ id \in PayIds /\ confirming' = confirming \ {id}
      /\ UNCHANGED <<pending, spent, shown, payments, confirmed, upi, landed>>
  BY IInvParts DEF Release, At, TypeOK, CallsType, LocalsOK, LocalsAt, Jobs, swiggy, observed
<1>2. Others(c) /\ pc'[c] = "idle"
  BY <1>1, ReturnMoves DEF Release
<1>3. \A p \in PayIds, d \in Calls : InFlight(d, p)' => d # c /\ InFlight(d, p)
  BY <1>2 DEF Others, InFlight
<1>4. \A p \in PayIds, d \in Calls : Answered(d, p)' <=> Answered(d, p)
  BY <1>1, <1>2 DEF Others, Answered
<1>5. \A p \in PayIds, d \in Calls : Hands(d, p)' => Hands(d, p)
  BY <1>2 DEF Others, Hands
<1>6. \A p \in PayIds, d \in Calls : InFlight(d, p)' => p # id
  BY <1>1, <1>3 DEF PayInv, OneConfirmInFlight, InFlight
<1> HIDE DEF id
<1>7. TicketInv'
  BY <1>1, <1>2, TicketQuiet DEF TicketLabels
<1>8. PurseInv'
  BY <1>1, <1>3, <1>4, <1>5, <1>6 DEF PayInv, PurseInv
<1>9. OneConfirmInFlight'
  BY <1>1, <1>3 DEF PayInv, OneConfirmInFlight
<1>10. ClaimIsHeld'
  BY <1>1, <1>2 DEF PayInv, ClaimIsHeld, Others, id
<1>11. LandedInv'
  BY <1>1, <1>2 DEF PayInv, LandedInv, Others
<1> QED BY <1>7, <1>8, <1>9, <1>10, <1>11 DEF PayInv

-----------------------------------------------------------------------------
(* The rest of the world *)

LEMMA EnvironmentSafe ==
  ASSUME IInv, Environment
  PROVE  TicketInv' /\ PayInv'
<1>1. TypeOK /\ LocalsOK /\ TicketInv /\ PayInv
  BY IInvParts
<1>2. CASE Restart
  <2>1. \A i \in ConfIds, c \in Calls : ~HasTicket(c, i)'
    BY <1>2 DEF Restart, HasTicket
  <2>2. \A p \in PayIds, c \in Calls : ~InFlight(c, p)' /\ ~Hands(c, p)'
    BY <1>2 DEF Restart, InFlight, Hands
  <2>3. UNCHANGED <<spent, shown, upi, landed, confirmed>>
    BY <1>2 DEF Restart, swiggy, observed
  <2>4. TicketInv'
    BY <1>1, <1>2, <2>1, <2>3 DEF TicketInv, Restart
  <2>5. PurseInv'
    BY <1>1, <1>2, <2>2, <2>3 DEF PayInv, PurseInv, Restart
  <2>6. OneConfirmInFlight' /\ ClaimIsHeld'
    BY <1>2, <2>2 DEF OneConfirmInFlight, ClaimIsHeld, Restart
  <2>7. LandedInv'
    BY <1>2 DEF LandedInv, Restart
  <2> QED BY <2>4, <2>5, <2>6, <2>7 DEF PayInv
<1>3. CASE ~Restart
  <2>1. /\ UNCHANGED <<pending, spent, shown, payments, confirming, confirmed, landed, pc, job>>
        /\ \A p \in PayIds : upi'[p].status = "none" <=> upi[p].status = "none"
    <3>1. CASE Pay
      BY <1>1, <3>1 DEF Pay, TypeOK, SwiggyType, UpiStates, stores, calls, observed
    <3>2. CASE PayFails
      BY <1>1, <3>2 DEF PayFails, TypeOK, SwiggyType, UpiStates, stores, calls, observed
    <3>3. CASE ForeignEdit
      BY <3>3 DEF ForeignEdit, stores, calls, observed
    <3>4. CASE Tick
      BY <3>4 DEF Tick, swiggy, stores, calls, observed
    <3> QED BY <1>3, <3>1, <3>2, <3>3, <3>4 DEF Environment
  <2>2. TicketInv'
    BY <1>1, <2>1 DEF TicketInv, HasTicket
  <2>3. PurseInv'
    BY <1>1, <2>1 DEF PayInv, PurseInv, InFlight, Answered, Hands
  <2>4. OneConfirmInFlight' /\ ClaimIsHeld' /\ LandedInv'
    BY <1>1, <2>1 DEF PayInv, OneConfirmInFlight, InFlight, ClaimIsHeld, LandedInv
  <2> QED BY <2>2, <2>3, <2>4 DEF PayInv
<1> QED BY <1>2, <1>3

-----------------------------------------------------------------------------
(* The inductive invariant *)

\* Nothing was minted, taken, opened or claimed yet.
LEMMA InitIInv == Init => IInv
<1> SUFFICES ASSUME Init PROVE IInv
  OBVIOUS
<1>1. LocalsAt("idle", NoJob)
  BY NoneAssumption DEF LocalsAt, NoJob, AllTools, Preparers, Orderers
<1>2. CallsType /\ LocalsOK
  BY <1>1, NoJobType DEF Init, CallsType, LocalsOK, Labels
<1>3. WorldType /\ SwiggyType
  BY ConstantsAssumption DEF Init, WorldType, SwiggyType, UpiStates
<1>4. StoresType /\ MemoryType /\ BooksType /\ ObservedType
  BY DEF Init, StoresType, MemoryType, BooksType, ObservedType
<1>5. TicketInv
  BY DEF Init, TicketInv, HasTicket
<1>6. PayInv
  BY DEF Init, PayInv, PurseInv, InFlight, Hands, Answered, OneConfirmInFlight,
         ClaimIsHeld, LandedInv
<1> QED BY <1>2, <1>3, <1>4, <1>5, <1>6, IInvParts DEF TypeOK

LEMMA StartSafe ==
  ASSUME IInv, NEW c \in Calls, Start(c)
  PROVE  TicketInv' /\ PayInv'
<1>1. TypeOK /\ LocalsOK /\ TicketInv /\ PayInv
  BY IInvParts
<1> QED BY <1>1, CartSteps, BookSteps, QuietSafe, TakePendingSafe,
           ClaimConfirmSafe DEF Start

LEMMA ContinueSafe ==
  ASSUME IInv, NEW c \in Calls, Continue(c)
  PROVE  TicketInv' /\ PayInv'
<1>1. TypeOK /\ LocalsOK /\ TicketInv /\ PayInv
  BY IInvParts
<1> QED BY <1>1, MemorySteps, CartSteps, BookSteps, QuietSafe, MintSafe,
           VerifySafe, PlaceUPISafe, HoldSafe, PlaceCODSafe, DiscardSafe,
           ConfirmSafe, SweepCartSafe, ReleaseSafe, SettleSafe DEF Continue

LEMMA NextIInv == IInv /\ [Next]_vars => IInv'
<1> SUFFICES ASSUME IInv, [Next]_vars PROVE IInv'
  OBVIOUS
<1>1. TypeOK /\ LocalsOK /\ LandedInv
  BY DEF IInv
<1>2. CASE Environment
  BY <1>1, <1>2, EnvironmentType, EnvironmentSafe DEF IInv, PayInv
<1>3. ASSUME NEW c \in Calls, Start(c) PROVE IInv'
  BY <1>1, <1>3, StartType, StartSafe DEF IInv, PayInv
<1>4. ASSUME NEW c \in Calls, Continue(c) PROVE IInv'
  BY <1>1, <1>4, ContinueType, ContinueSafe DEF IInv, PayInv
<1>5. CASE UNCHANGED vars
  <2>1. UNCHANGED <<now, cart, upi, landed, pending, payments, confirming,
                    lastCart, diskCart, books, pc, job, shown, spent,
                    confirmed, told, faults>>
    BY <1>5 DEF vars, swiggy, stores, memory, calls, observed
  <2>2. TypeOK' /\ LocalsOK'
    BY <1>1, <2>1 DEF TypeOK, WorldType, SwiggyType, StoresType, MemoryType,
       BooksType, CallsType, ObservedType, LocalsOK
  <2>3. LandedInv' /\ TicketInv' /\ PurseInv' /\ OneConfirmInFlight' /\ ClaimIsHeld'
    BY <2>1 DEF IInv, LandedInv, TicketInv, HasTicket, PurseInv, InFlight,
       Answered, Hands, OneConfirmInFlight, ClaimIsHeld
  <2> QED BY <2>2, <2>3 DEF IInv
<1> QED BY <1>2, <1>3, <1>4, <1>5 DEF Next

\* Tickets, payments, locals and types keep together through every behaviour.
THEOREM Invariance == Spec => []IInv
BY InitIInv, NextIInv, PTL DEF Spec

\* Every variable keeps its type, whatever the handlers do.
THEOREM TypeCorrect == Spec => []TypeOK
<1>1. IInv => TypeOK
  BY DEF IInv
<1> QED BY <1>1, Invariance, PTL

\* No interleaving of handlers, failure of a placing call or restart makes one
\* confirmation of prepare_order order twice at Swiggy.
THEOREM PlacedAtMostOnce == Spec => []PlacedOnce
<1>1. IInv => PlacedOnce
  BY DEF IInv, TicketInv, PlacedOnce
<1> QED BY <1>1, Invariance, PTL

\* claimConfirm excludes: at no time do two handlers confirm the same payment,
\* although polls and sweeps may drop the entry of one being confirmed.
THEOREM ConfirmExcludes == Spec => []OneConfirmInFlight
<1>1. IInv => OneConfirmInFlight
  BY DEF IInv
<1> QED BY <1>1, Invariance, PTL

\* A payment confirmed with success is never confirmed with success again.
THEOREM ConfirmedAtMostOnce == Spec => []ConfirmedOnce
<1>1. IInv => ConfirmedOnce
  BY DEF IInv, PurseInv, ConfirmedOnce
<1> QED BY <1>1, Invariance, PTL

\* No flag of claimConfirm is left behind by the handler that raised it.
THEOREM FlagsAreHeld == Spec => []ClaimIsHeld
<1>1. IInv => ClaimIsHeld
  BY DEF IInv
<1> QED BY <1>1, Invariance, PTL
-----------------------------------------------------------------------------
(* The server implements OrderLifecycle                                    *)

\* A payment was opened for one order, which its confirmation has placed, and
\* no order has two payments.
BuysInv ==
  \A p \in PayIds :
    /\ upi[p].status = "none" <=> upi[p].conf = None
    /\ upi[p].conf # None => spent[upi[p].conf] > 0
    /\ \A q \in PayIds : upi[p].conf # None /\ upi[p].conf = upi[q].conf => p = q

\* How tickets may move in one step: orders are counted up by the holder of the
\* ticket only, a bill is shown when its ticket is issued, and a ticket is taken
\* in hand from the store.
TicketsMove ==
  \A i \in ConfIds :
    /\ spent'[i] # spent[i] => InHand(i) /\ spent'[i] = 1
    /\ shown[i] # None => shown'[i] # None
    /\ pending'[i] # None /\ pending[i] = None => shown[i] = None
    /\ shown[i] = None /\ shown'[i] # None => pending'[i] # None
    /\ InHand(i)' => InHand(i) \/ pending[i] # None

\* How payments may move in one step: a confirm starts from the store and settles
\* once, and only a payment that is handed out enters the store.
PursesMove ==
  \A p \in PayIds :
    /\ confirmed'[p] # confirmed[p] => Confirming(p) /\ confirmed'[p] > confirmed[p]
    /\ Confirming(p)' => Confirming(p) \/ payments[p] # None
    /\ payments'[p] # None /\ payments[p] = None => Handing(p)
    /\ Handing(p)' => Handing(p) \/ upi[p].status = "none"

\* No payment is opened.
SameBuys ==
  \A p \in PayIds : /\ upi'[p].conf = upi[p].conf
                    /\ upi'[p].status = "none" <=> upi[p].status = "none"

\* A payment is opened once.
OpensOnce ==
  \A p \in PayIds : upi[p].status # "none" =>
    upi'[p].status # "none" /\ upi'[p].conf = upi[p].conf

LEMMA BuysKept ==
  ASSUME TypeOK, BuysInv, TicketsMove, SameBuys
  PROVE  BuysInv' /\ OpensOnce
<1>1. \A p \in PayIds : upi[p].conf # None => upi[p].conf \in ConfIds
  BY DEF TypeOK, SwiggyType, UpiStates
<1>2. \A i \in ConfIds : spent[i] \in Nat /\ (spent'[i] = spent[i] \/ spent'[i] = 1)
  BY DEF TypeOK, ObservedType, TicketsMove
<1>3. \A i \in ConfIds : spent[i] > 0 => spent'[i] > 0
  BY <1>2
<1>4. BuysInv'
  BY <1>1, <1>3 DEF BuysInv, SameBuys
<1> QED BY <1>4 DEF SameBuys, OpensOnce

Moved == TicketsMove /\ PursesMove /\ OpensOnce /\ BuysInv'

\* A step that leaves tickets and payments alone moves none.
LEMMA QuietMoves ==
  ASSUME IInv, BuysInv, NEW c \in Calls, Quiet1(c)
  PROVE  Moved
<1>1. TicketsMove
  BY DEF Quiet1, Others, TicketsMove, InHand, TicketLabels
<1>2. PursesMove
  BY DEF Quiet1, Others, PursesMove, Confirming, Handing, ClaimLabels
<1> QED BY <1>1, <1>2, BuysKept DEF Moved, SameBuys, Quiet1, IInv

LEMMA MintMoves ==
  ASSUME IInv, BuysInv, NEW c \in Calls, Mint(c)
  PROVE  Moved
<1>1. /\ TypeOK /\ Others(c) /\ pc[c] = "mint" /\ pc'[c] = "idle"
      /\ UNCHANGED <<spent, confirmed, payments, upi>>
  BY ReturnMoves, IInvParts DEF Mint, At, TypeOK, swiggy
<1>2. \A i \in ConfIds : InHand(i)' => InHand(i)
  BY <1>1 DEF Others, InHand
<1>3. PursesMove
  BY <1>1 DEF Others, PursesMove, Confirming, Handing
<1>4. CASE UNCHANGED <<pending, shown>>
  BY <1>1, <1>2, <1>3, <1>4, BuysKept DEF Moved, TicketsMove, SameBuys
<1>5. CASE ~UNCHANGED <<pending, shown>>
  <2> DEFINE j == job[c]
             p(id) == [id |-> id, addr |-> j.addr, vert |-> j.vert,
                       hash |-> Hash(j.addr, j.seen), at |-> now]
  <2>1. PICK id \in SpareConfIds : /\ PutPending(id, p(id))
                                   /\ shown' = [shown EXCEPT ![id] = j.seen]
                                   /\ j.seen # None
    BY <1>5 DEF Mint, Orderable
  <2>2. id \in ConfIds /\ shown[id] = None
    BY DEF SpareConfIds
  <2>3. \A i \in ConfIds : i # id => /\ pending'[i] = None \/ pending'[i] = pending[i]
                                     /\ shown'[i] = shown[i]
    BY <1>1, <2>1, <2>2 DEF PutPending, TypeOK, ObservedType
  <2>4. p(id) # None
    <3>1. LocalsAt("mint", j) /\ j \in Jobs
      BY <1>1 DEF IInv, TypeOK, CallsType, LocalsOK
    <3>2. p(id) \in PendingOrders
      BY <1>1, <2>1, <2>2, <3>1 DEF PendingOrders, Jobs, LocalsAt, TypeOK, WorldType
    <3> QED BY <3>2, NoneAssumption
  <2>5. pending'[id] # None /\ shown'[id] # None
    BY <1>1, <2>1, <2>2, <2>4 DEF PutPending, TypeOK, ObservedType
  <2> HIDE DEF p, j
  <2>6. TicketsMove
    BY <1>1, <1>2, <2>2, <2>3, <2>5 DEF TicketsMove
  <2> QED BY <1>1, <1>3, <2>6, BuysKept DEF Moved, SameBuys
<1> QED BY <1>4, <1>5

LEMMA TakePendingMoves ==
  ASSUME IInv, BuysInv, NEW c \in Calls, TakePending(c)
  PROVE  Moved
<1>1. /\ TypeOK /\ TicketInv /\ CallsType /\ pc[c] = "idle"
      /\ UNCHANGED <<spent, shown, confirmed, payments, upi>>
  BY IInvParts DEF TakePending, Begins, TypeOK, observed, swiggy
<1>2. PICK id \in ConfIds, m \in Methods :
        /\ pending[id] # None
        /\ TakeOut(id)
        /\ \/ UNCHANGED calls
           \/ Goto(c, "verify", [Request("place_order", pending[id].vert) EXCEPT
                                   !.ord = pending[id], !.method = m])
  BY DEF TakePending
<1>3. \A i \in ConfIds : pending'[i] # None => pending[i] # None
  BY <1>1, <1>2 DEF TakeOut, TypeOK, StoresType
<1>4. /\ Others(c) /\ pc'[c] \in {"idle", "verify"}
      /\ \A i \in ConfIds : InHand(i)' => InHand(i) \/ pending[i] # None
  <2>1. CASE UNCHANGED calls
    BY <1>1, <2>1, StayMoves DEF InHand, Others
  <2>2. CASE Goto(c, "verify", [Request("place_order", pending[id].vert) EXCEPT
                                  !.ord = pending[id], !.method = m])
    <3> DEFINE j == [Request("place_order", pending[id].vert) EXCEPT
                       !.ord = pending[id], !.method = m]
    <3>1. Others(c) /\ pc'[c] = "verify" /\ job'[c] = j
      BY <1>1, <2>2, GotoMoves
    <3>2. pending[id].vert \in Verticals
      BY <1>1, <1>2 DEF TypeOK, StoresType, PendingOrders
    <3>3. j.ord = pending[id] /\ pending[id].id = id
      BY <1>1, <1>2, <3>2, RequestType DEF AllTools, Jobs, TicketInv
    <3> HIDE DEF j
    <3> QED BY <1>1, <1>2, <3>1, <3>3 DEF Others, InHand
  <2> QED BY <1>2, <2>1, <2>2
<1>5. PursesMove
  BY <1>1, <1>4 DEF Others, PursesMove, Confirming, Handing
<1>6. TicketsMove
  BY <1>1, <1>3, <1>4 DEF TicketsMove
<1> QED BY <1>1, <1>5, <1>6, BuysKept DEF Moved, SameBuys

LEMMA VerifyMoves ==
  ASSUME IInv, BuysInv, NEW c \in Calls, Verify(c)
  PROVE  Moved
<1>1. /\ TypeOK /\ CallsType /\ pc[c] = "verify"
      /\ UNCHANGED <<pending, spent, shown, payments, confirmed, upi>>
  BY IInvParts DEF Verify, At, TypeOK, swiggy, stores, observed
<1>2. /\ Others(c) /\ pc'[c] \in {"idle", "cod", "upi"}
      /\ pc'[c] # "idle" => job'[c] = job[c]
  BY <1>1, StepMoves, ReturnMoves DEF Verify
<1>3. TicketsMove
  BY <1>1, <1>2 DEF Others, InHand, TicketsMove
<1>4. PursesMove
  BY <1>1, <1>2 DEF Others, PursesMove, Confirming, Handing
<1> QED BY <1>1, <1>3, <1>4, BuysKept DEF Moved, SameBuys

\* An order is counted for the ticket that its call holds.
LEMMA LandMoves ==
  ASSUME IInv, NEW c \in Calls, pc[c] \in {"upi", "cod"}, NEW known, Land(c, known)
  PROVE  /\ job[c].ord \in PendingOrders /\ job[c].ord.id \in ConfIds
         /\ InHand(job[c].ord.id) /\ HasTicket(c, job[c].ord.id)
         /\ spent[job[c].ord.id] = 0
         /\ spent' = [spent EXCEPT ![job[c].ord.id] = 1]
<1>1. job[c].ord \in PendingOrders
  BY DEF IInv, TypeOK, CallsType, LocalsOK, LocalsAt, Jobs
<1>2. /\ job[c].ord # None /\ job[c].ord.id \in ConfIds
  BY <1>1, NoneAssumption DEF PendingOrders
<1>3. spent[job[c].ord.id] = 0
  BY <1>2 DEF IInv, TicketInv, HasTicket
<1> QED BY <1>1, <1>2, <1>3 DEF Land, InHand, HasTicket

LEMMA PlaceFailsMoves ==
  ASSUME IInv, BuysInv, NEW c \in Calls, pc[c] \in {"upi", "cod"}, PlaceFails(c),
         UNCHANGED <<pending, shown, payments, confirmed, upi>>
  PROVE  Moved
<1>1. Others(c) /\ pc'[c] = "idle" /\ TypeOK
  BY ReturnMoves DEF PlaceFails, IInv, TypeOK
<1>2. \A i \in ConfIds : /\ InHand(i)' => InHand(i)
                         /\ spent'[i] # spent[i] => InHand(i) /\ spent'[i] = 1
  BY <1>1, LandMoves DEF PlaceFails, Others, InHand, TypeOK, ObservedType
<1>3. PursesMove
  BY <1>1 DEF Others, PursesMove, Confirming, Handing
<1>4. TicketsMove
  BY <1>2 DEF TicketsMove
<1> QED BY <1>1, <1>3, <1>4, BuysKept DEF Moved, SameBuys

\* The payment that is opened is a fresh one, for an order that had none.
LEMMA OpenMoves ==
  ASSUME IInv, BuysInv, NEW c \in Calls, pc[c] = "upi", Land(c, FALSE),
         NEW id \in SparePayIds,
         upi' = [upi EXCEPT ![id] = [status |-> "open", exp |-> now + PayWindow,
                                     conf |-> job[c].ord.id]],
         Goto(c, "hold", [job[c] EXCEPT !.pay = id]),
         UNCHANGED <<pending, shown, payments, confirmed>>
  PROVE  Moved
<1> DEFINE i == job[c].ord.id
           j == [job[c] EXCEPT !.pay = id]
<1>1. /\ TypeOK /\ Others(c) /\ pc'[c] = "hold" /\ job'[c] = j
      /\ id \in PayIds /\ upi[id].status = "none"
  BY GotoMoves DEF IInv, TypeOK, SparePayIds
<1>2. j.pay = id
  BY DEF IInv, TypeOK, CallsType, Jobs
<1> HIDE DEF j
<1>3. i \in ConfIds /\ InHand(i) /\ spent[i] = 0 /\ spent' = [spent EXCEPT ![i] = 1]
  BY LandMoves
<1>4. /\ upi'[id].status = "open" /\ upi'[id].conf = i
      /\ \A p \in PayIds : p # id => upi'[p] = upi[p]
  BY <1>1 DEF TypeOK, SwiggyType
<1> HIDE DEF i
<1>5. \A k \in ConfIds : /\ spent[k] > 0 => spent'[k] > 0
                         /\ spent'[k] # spent[k] => InHand(k) /\ spent'[k] = 1
  BY <1>1, <1>3 DEF TypeOK, ObservedType
<1>6. TicketsMove
  BY <1>1, <1>5 DEF TicketsMove, Others, InHand
<1>7. PursesMove
  BY <1>1, <1>2 DEF PursesMove, Others, Confirming, Handing
<1>8. \A p \in PayIds : upi[p].conf # None => upi[p].conf \in ConfIds /\ upi[p].conf # i
  BY <1>3 DEF BuysInv, IInv, TypeOK, SwiggyType, UpiStates
<1>9. i # None /\ spent'[i] > 0
  BY <1>1, <1>3, NoneAssumption DEF TypeOK, ObservedType
<1>10. BuysInv'
  BY <1>1, <1>4, <1>5, <1>8, <1>9 DEF BuysInv
<1>11. OpensOnce
  BY <1>1, <1>4 DEF OpensOnce
<1> QED BY <1>6, <1>7, <1>10, <1>11 DEF Moved

LEMMA PlaceUPIMoves ==
  ASSUME IInv, BuysInv, NEW c \in Calls, PlaceUPI(c)
  PROVE  Moved
<1>1. /\ TypeOK /\ pc[c] = "upi"
      /\ UNCHANGED <<pending, shown, payments, confirmed>>
  BY DEF PlaceUPI, At, IInv, stores
<1>2. CASE PlaceFails(c) /\ UNCHANGED upi
  BY <1>1, <1>2, PlaceFailsMoves
<1>3. CASE (Return(c) \/ Step(c, "cod")) /\ UNCHANGED <<landed, spent, cart, upi>>
  <2>1. /\ Others(c) /\ pc'[c] \in {"idle", "cod"}
        /\ pc'[c] # "idle" => job'[c] = job[c]
    BY <1>1, <1>3, ReturnMoves, StepMoves DEF TypeOK
  <2>2. TicketsMove
    BY <1>1, <1>3, <2>1 DEF Others, InHand, TicketsMove
  <2>3. PursesMove
    BY <1>1, <1>3, <2>1 DEF Others, PursesMove, Confirming, Handing
  <2> QED BY <1>1, <1>3, <2>2, <2>3, BuysKept DEF Moved, SameBuys
<1>4. ASSUME Land(c, FALSE), NEW id \in SparePayIds,
             upi' = [upi EXCEPT ![id] = [status |-> "open", exp |-> now + PayWindow,
                                         conf |-> job[c].ord.id]],
             Goto(c, "hold", [job[c] EXCEPT !.pay = id])
      PROVE  Moved
  BY <1>1, <1>4, OpenMoves
<1> QED BY <1>2, <1>3, <1>4 DEF PlaceUPI

LEMMA PlaceCODMoves ==
  ASSUME IInv, BuysInv, NEW c \in Calls, PlaceCOD(c)
  PROVE  Moved
<1>1. /\ TypeOK /\ pc[c] = "cod"
      /\ UNCHANGED <<pending, shown, payments, confirmed, upi>>
  BY DEF PlaceCOD, At, IInv, stores
<1>2. CASE PlaceFails(c)
  BY <1>1, <1>2, PlaceFailsMoves
<1>3. CASE Land(c, TRUE) /\ Step(c, "active")
  <2>1. Others(c) /\ pc'[c] = "active"
    BY <1>1, <1>3, StepMoves DEF TypeOK
  <2>2. \A i \in ConfIds : /\ InHand(i)' => InHand(i)
                           /\ spent'[i] # spent[i] => InHand(i) /\ spent'[i] = 1
    BY <1>1, <1>3, <2>1, LandMoves DEF Others, InHand, TypeOK, ObservedType
  <2>3. TicketsMove
    BY <1>1, <2>2 DEF TicketsMove
  <2>4. PursesMove
    BY <1>1, <2>1 DEF Others, PursesMove, Confirming, Handing
  <2> QED BY <1>1, <2>3, <2>4, BuysKept DEF Moved, SameBuys
<1> QED BY <1>2, <1>3 DEF PlaceCOD

-----------------------------------------------------------------------------
(* Steps on the payment store *)

\* What a step on payments leaves of the tickets.
LEMMA NoTicketMoves ==
  ASSUME NEW c \in Calls, Others(c), pc'[c] \notin TicketLabels,
         UNCHANGED <<pending, spent, shown>>
  PROVE  TicketsMove
BY DEF Others, TicketLabels, TicketsMove, InHand

LEMMA HoldMoves ==
  ASSUME IInv, BuysInv, NEW c \in Calls, Hold(c)
  PROVE  Moved
<1>1. /\ TypeOK /\ Others(c) /\ pc[c] = "hold" /\ pc'[c] = "idle"
      /\ UNCHANGED <<pending, spent, shown, confirmed, upi>>
      /\ job[c].pay \in PayIds
  BY ReturnMoves DEF Hold, At, IInv, TypeOK, CallsType, LocalsOK, LocalsAt, Jobs, swiggy, observed
<1>2. \A p \in PayIds : payments'[p] # None => payments[p] # None \/ p = job[c].pay
  BY <1>1 DEF Hold, PutPayment
<1>3. PursesMove
  BY <1>1, <1>2 DEF PursesMove, Others, Confirming, Handing
<1> QED BY <1>1, <1>3, NoTicketMoves, BuysKept DEF Moved, SameBuys, TicketLabels

LEMMA RemoveMoves ==
  ASSUME IInv, BuysInv, NEW c \in Calls, Discard(c) \/ Settle(c)
  PROVE  Moved
<1>1. /\ TypeOK /\ Others(c) /\ pc'[c] \in {"idle", "active"}
      /\ UNCHANGED <<pending, spent, shown, confirmed, upi>>
      /\ RemovePayment(job[c].pay)
  BY ReturnMoves, StepMoves DEF Discard, Settle, IInv, TypeOK, swiggy, observed
<1>2. \A p \in PayIds : payments'[p] # None => payments[p] # None
  BY <1>1 DEF RemovePayment, TypeOK, StoresType
<1>3. PursesMove
  BY <1>1, <1>2 DEF PursesMove, Others, Confirming, Handing
<1> QED BY <1>1, <1>3, NoTicketMoves, BuysKept DEF Moved, SameBuys, TicketLabels

LEMMA ClaimConfirmMoves ==
  ASSUME IInv, BuysInv, NEW c \in Calls, ClaimConfirm(c)
  PROVE  Moved
<1>1. /\ TypeOK /\ CallsType
      /\ UNCHANGED <<pending, spent, shown, confirmed, upi, payments>>
  BY DEF ClaimConfirm, IInv, TypeOK, swiggy, observed
<1>2. PICK id \in PayIds :
        /\ payments[id] # None
        /\ Goto(c, IF Closed(payments[id]) THEN "discard" ELSE "confirm",
                Paying("confirm_order", id))
  BY DEF ClaimConfirm, Claimable
<1>3. /\ Others(c) /\ pc'[c] \in {"discard", "confirm"}
      /\ job'[c] = Paying("confirm_order", id)
  BY <1>1, <1>2, GotoMoves
<1>4. payments[id].ord.vert \in Verticals
  BY <1>1, <1>2 DEF TypeOK, StoresType, PaymentEntries, PendingOrders
<1>5. job'[c].pay = id
  BY <1>3, <1>4, RequestType DEF Paying, Jobs, AllTools
<1>6. PursesMove
  BY <1>1, <1>2, <1>3, <1>5 DEF PursesMove, Others, Confirming, Handing
<1> QED BY <1>1, <1>3, <1>6, NoTicketMoves, BuysKept DEF Moved, SameBuys, TicketLabels

LEMMA ConfirmMoves ==
  ASSUME IInv, BuysInv, NEW c \in Calls, Confirm(c)
  PROVE  Moved
<1>1. /\ TypeOK /\ CallsType /\ pc[c] = "confirm" /\ job[c].pay \in PayIds
      /\ UNCHANGED <<pending, spent, shown, upi, payments>>
  BY DEF Confirm, At, IInv, TypeOK, CallsType, LocalsOK, LocalsAt, Jobs, stores
<1>2. Others(c) /\ pc'[c] \in {"release", "sweepCart", "settle"}
  BY <1>1, StepMoves DEF Confirm
<1>3. Confirming(job[c].pay)
  BY <1>1 DEF Confirming
<1>4. \A p \in PayIds : confirmed'[p] # confirmed[p] => p = job[c].pay /\ confirmed'[p] > confirmed[p]
  BY <1>1 DEF Confirm, TypeOK, ObservedType
<1>5. PursesMove
  BY <1>1, <1>2, <1>3, <1>4 DEF PursesMove, Others, Confirming, Handing
<1> QED BY <1>1, <1>2, <1>5, NoTicketMoves, BuysKept DEF Moved, SameBuys, TicketLabels

LEMMA SweepAndReleaseMoves ==
  ASSUME IInv, BuysInv, NEW c \in Calls, SweepCart(c) \/ Release(c)
  PROVE  Moved
<1>1. /\ TypeOK /\ CallsType
      /\ UNCHANGED <<pending, spent, shown, confirmed, upi, payments>>
  BY DEF SweepCart, Release, IInv, TypeOK, swiggy, stores, observed
<1>2. Others(c) /\ pc'[c] \in {"idle", "settle"}
  BY <1>1, StepMoves, ReturnMoves DEF SweepCart, Release
<1>3. PursesMove
  BY <1>1, <1>2 DEF PursesMove, Others, Confirming, Handing
<1> QED BY <1>1, <1>2, <1>3, NoTicketMoves, BuysKept DEF Moved, SameBuys, TicketLabels

LEMMA EnvironmentMoves ==
  ASSUME IInv, BuysInv, Environment
  PROVE  Moved
<1>1. TypeOK
  BY DEF IInv
<1>2. CASE Restart
  <2>1. /\ UNCHANGED <<spent, shown, confirmed, upi>>
        /\ \A i \in ConfIds : pending'[i] = None
        /\ \A p \in PayIds : payments'[p] = None
        /\ \A c \in Calls : pc'[c] = "idle"
    BY <1>2 DEF Restart, swiggy, observed
  <2>2. TicketsMove
    BY <2>1 DEF TicketsMove, InHand
  <2>3. PursesMove
    BY <2>1 DEF PursesMove, Confirming, Handing
  <2> QED BY <1>1, <2>1, <2>2, <2>3, BuysKept DEF Moved, SameBuys
<1>3. CASE ~Restart
  <2>1. /\ UNCHANGED <<pending, spent, shown, confirmed, payments, pc, job>>
        /\ \A p \in PayIds : /\ upi'[p].conf = upi[p].conf
                             /\ upi'[p].status = "none" <=> upi[p].status = "none"
    <3>1. CASE Pay
      BY <1>1, <3>1 DEF Pay, TypeOK, SwiggyType, UpiStates, stores, calls, observed
    <3>2. CASE PayFails
      BY <1>1, <3>2 DEF PayFails, TypeOK, SwiggyType, UpiStates, stores, calls, observed
    <3>3. CASE ForeignEdit
      BY <3>3 DEF ForeignEdit, stores, calls, observed
    <3>4. CASE Tick
      BY <3>4 DEF Tick, swiggy, stores, calls, observed
    <3> QED BY <1>3, <3>1, <3>2, <3>3, <3>4 DEF Environment
  <2>2. TicketsMove
    BY <2>1 DEF TicketsMove, InHand
  <2>3. PursesMove
    BY <2>1 DEF PursesMove, Confirming, Handing
  <2> QED BY <1>1, <2>1, <2>2, <2>3, BuysKept DEF Moved, SameBuys
<1> QED BY <1>2, <1>3

LEMMA NextMoves ==
  ASSUME IInv, BuysInv, Next
  PROVE  Moved
<1>1. TypeOK /\ LocalsOK
  BY DEF IInv
<1>2. ASSUME NEW c \in Calls, Start(c) PROVE Moved
  BY <1>1, <1>2, CartSteps, BookSteps, QuietMoves, TakePendingMoves,
     ClaimConfirmMoves DEF Start
<1>3. ASSUME NEW c \in Calls, Continue(c) PROVE Moved
  BY <1>1, <1>3, MemorySteps, CartSteps, BookSteps, QuietMoves, MintMoves, VerifyMoves,
     PlaceUPIMoves, HoldMoves, PlaceCODMoves, RemoveMoves, ConfirmMoves,
     SweepAndReleaseMoves DEF Continue
<1> QED BY <1>2, <1>3, EnvironmentMoves DEF Next

-----------------------------------------------------------------------------
(* From the moves to the life of tickets and payments *)

LEMMA TicketLife ==
  ASSUME IInv, IInv', TicketsMove, NEW i \in ConfIds
  PROVE  TicketOf(i)' = TicketOf(i) \/ <<TicketOf(i), TicketOf(i)'>> \in Lifecycle!TicketMoves
<1>1. /\ spent[i] \in Nat /\ spent'[i] \in Nat
      /\ pending[i] # None => spent[i] = 0 /\ shown[i] # None
      /\ pending'[i] # None => spent'[i] = 0 /\ shown'[i] # None
      /\ shown[i] = None => spent[i] = 0
      /\ shown'[i] = None => spent'[i] = 0
  BY DEF IInv, TypeOK, ObservedType, TicketInv
<1>2. InHand(i) => pending[i] = None /\ spent[i] = 0 /\ shown[i] # None
  BY DEF IInv, TicketInv, InHand, HasTicket
<1>3. InHand(i)' => pending'[i] = None /\ spent'[i] = 0 /\ shown'[i] # None
  BY DEF IInv, TicketInv, InHand, HasTicket
<1> DEFINE hand == InHand(i)
           handAfter == InHand(i)'
<1>4. /\ spent'[i] # spent[i] => hand /\ spent'[i] = 1
      /\ shown[i] # None => shown'[i] # None
      /\ pending'[i] # None /\ pending[i] = None => shown[i] = None
      /\ shown[i] = None /\ shown'[i] # None => pending'[i] # None
      /\ handAfter => hand \/ pending[i] # None
  BY DEF TicketsMove
<1>5. TicketOf(i) = IF spent[i] > 0 THEN "ordered"
                    ELSE IF pending[i] # None THEN "open"
                    ELSE IF shown[i] = None THEN "unused"
                    ELSE IF hand THEN "inhand" ELSE "void"
  BY DEF TicketOf
<1>6. TicketOf(i)' = IF spent'[i] > 0 THEN "ordered"
                     ELSE IF pending'[i] # None THEN "open"
                     ELSE IF shown'[i] = None THEN "unused"
                     ELSE IF handAfter THEN "inhand" ELSE "void"
  BY DEF TicketOf
<1> HIDE DEF hand, handAfter
<1> QED BY <1>1, <1>2, <1>3, <1>4, <1>5, <1>6 DEF Lifecycle!TicketMoves, hand, handAfter

LEMMA PurseLife ==
  ASSUME IInv, IInv', BuysInv, PursesMove, NEW p \in PayIds,
         upi[p].status # "none" => upi'[p].status # "none"
  PROVE  PurseOf(p)' = PurseOf(p) \/ <<PurseOf(p), PurseOf(p)'>> \in Lifecycle!PurseMoves
<1> DEFINE conf == Confirming(p)
           confAfter == Confirming(p)'
           hand == Handing(p)
           handAfter == Handing(p)'
           fresh == upi[p].status = "none"
           freshAfter == upi'[p].status = "none"
<1>1. /\ confirmed[p] \in {0, 1} /\ confirmed'[p] \in {0, 1}
      /\ fresh => payments[p] = None /\ confirmed[p] = 0
      /\ freshAfter => payments'[p] = None /\ confirmed'[p] = 0
  BY DEF IInv, TypeOK, ObservedType, PurseInv
<1>2. /\ conf => ~fresh /\ confirmed[p] = 0
      /\ hand => ~fresh /\ payments[p] = None /\ confirmed[p] = 0 /\ ~conf
  BY DEF IInv, PurseInv, Confirming, Handing, InFlight, Hands, Answered
<1>3. /\ confAfter => ~freshAfter /\ confirmed'[p] = 0
      /\ handAfter => ~freshAfter /\ payments'[p] = None /\ confirmed'[p] = 0 /\ ~confAfter
  BY DEF IInv, PurseInv, Confirming, Handing, InFlight, Hands, Answered
<1>4. /\ confirmed'[p] # confirmed[p] => conf /\ confirmed'[p] > confirmed[p]
      /\ confAfter => conf \/ payments[p] # None
      /\ payments'[p] # None /\ payments[p] = None => hand
      /\ handAfter => hand \/ fresh
      /\ freshAfter => fresh
  BY DEF PursesMove
<1>5. PurseOf(p) = IF confirmed[p] > 0 THEN "settled" ELSE IF conf THEN "claimed"
                   ELSE IF payments[p] # None THEN "held"
                   ELSE IF fresh \/ hand THEN "none" ELSE "lost"
  BY DEF PurseOf
<1>6. PurseOf(p)' = IF confirmed'[p] > 0 THEN "settled" ELSE IF confAfter THEN "claimed"
                    ELSE IF payments'[p] # None THEN "held"
                    ELSE IF freshAfter \/ handAfter THEN "none" ELSE "lost"
  BY DEF PurseOf
<1> HIDE DEF conf, confAfter, hand, handAfter, fresh, freshAfter
<1> QED BY <1>1, <1>2, <1>3, <1>4, <1>5, <1>6 DEF Lifecycle!PurseMoves

\* A payment leaves "none" for an order that its confirmation has placed.
LEMMA PursePays ==
  ASSUME IInv, IInv', BuysInv', NEW p \in PayIds, PurseOf(p)' # "none"
  PROVE  /\ upi'[p].conf \in ConfIds
         /\ spent'[upi'[p].conf] > 0
<1>1. upi'[p].status # "none"
  BY DEF IInv, PurseInv, PurseOf, Confirming, InFlight, TypeOK, ObservedType
<1>2. upi'[p].conf # None /\ upi'[p].conf \in ConfIds \cup {None}
  BY <1>1 DEF BuysInv, IInv, TypeOK, SwiggyType, UpiStates
<1> QED BY <1>2 DEF BuysInv

\* Every step of the server is a step of OrderLifecycle, or none.
LEMMA StepsOfLife ==
  ASSUME IInv, IInv', BuysInv, Moved
  PROVE  Lifecycle!Next
<1>1. \A i \in ConfIds : Lifecycle!TicketStep(i)
  BY TicketLife DEF Moved, Lifecycle!TicketStep
<1>2. ASSUME NEW p \in PayIds PROVE Lifecycle!PurseStep(p)
  <2>1. PurseOf(p)' = PurseOf(p) \/ <<PurseOf(p), PurseOf(p)'>> \in Lifecycle!PurseMoves
    BY PurseLife DEF Moved, OpensOnce
  <2>2. upi'[p].conf = upi[p].conf \/ (upi[p].conf = None /\ PurseOf(p) = "none")
    <3>1. CASE upi[p].status # "none"
      <4>1. OpensOnce
        BY DEF Moved
      <4> QED BY <3>1, <4>1 DEF OpensOnce
    <3>2. CASE upi[p].status = "none"
      <4>1. upi[p].conf = None /\ payments[p] = None /\ confirmed[p] = 0
        BY <3>2 DEF BuysInv, IInv, PurseInv
      <4>2. ~Confirming(p)
        BY <3>2 DEF IInv, PurseInv, Confirming, InFlight
      <4> QED BY <3>2, <4>1, <4>2 DEF PurseOf
    <3> QED BY <3>1, <3>2
  <2>3. PurseOf(p)' # "none" =>
          \E i \in ConfIds : i # None /\ upi'[p].conf = i /\ TicketOf(i)' = "ordered"
    <3>1. \A i \in ConfIds : spent'[i] > 0 => TicketOf(i)' = "ordered"
      BY DEF TicketOf
    <3> QED BY <3>1, PursePays, NoneAssumption DEF Moved
  <2> QED BY <2>1, <2>2, <2>3 DEF Lifecycle!PurseStep
<1>3. Lifecycle!OneEach
  BY DEF Moved, BuysInv, Lifecycle!OneEach
<1> QED BY <1>1, <1>2, <1>3 DEF Lifecycle!Next

LEMMA StutterOfLife ==
  ASSUME UNCHANGED vars
  PROVE  UNCHANGED Lifecycle!lifeVars
<1>1. /\ \A i \in ConfIds : TicketOf(i)' = TicketOf(i)
      /\ \A p \in PayIds : PurseOf(p)' = PurseOf(p)
      /\ upi' = upi
  BY DEF vars, swiggy, stores, calls, observed, TicketOf, PurseOf, InHand, Confirming, Handing
<1> QED BY <1>1 DEF Lifecycle!lifeVars

LEMMA InitOfLife ==
  ASSUME Init
  PROVE  BuysInv /\ Lifecycle!Init
<1>1. BuysInv
  BY DEF Init, BuysInv
<1>2. /\ \A i \in ConfIds : TicketOf(i) = "unused"
      /\ \A p \in PayIds : PurseOf(p) = "none" /\ upi[p].conf = None
  BY DEF Init, TicketOf, PurseOf, Confirming
<1> QED BY <1>1, <1>2 DEF Lifecycle!Init

\* The server implements OrderLifecycle: whatever the calls in flight, failed calls,
\* sweeps and restarts do, a confirmation is good for one attempt to order, and a
\* payment is settled at most once, by the one confirm that claimed it, for an order
\* that its own confirmation placed.
THEOREM Refines == Spec => ImplementsLifecycle
<1>1. Init => BuysInv /\ Lifecycle!Init
  BY InitOfLife
<1>2. IInv /\ IInv' /\ BuysInv /\ [Next]_vars =>
        BuysInv' /\ [Lifecycle!Next]_Lifecycle!lifeVars
  <2> SUFFICES ASSUME IInv, IInv', BuysInv, [Next]_vars
               PROVE  BuysInv' /\ [Lifecycle!Next]_Lifecycle!lifeVars
    OBVIOUS
  <2>1. CASE Next
    BY <2>1, NextMoves, StepsOfLife DEF Moved
  <2>2. CASE UNCHANGED vars
    <3>1. BuysInv'
      BY <2>2 DEF vars, swiggy, observed, BuysInv
    <3> QED BY <2>2, <3>1, StutterOfLife
  <2> QED BY <2>1, <2>2
<1> QED BY <1>1, <1>2, Invariance, PTL DEF Spec, ImplementsLifecycle, Lifecycle!Spec

-----------------------------------------------------------------------------
(* A payment is not forgotten while it can be confirmed                    *)

\* The window of a payment is open and no confirm of it was answered.
Payable(p) == /\ faults.restarts = 0 /\ upi[p].status \in {"open", "paid"}
              /\ now < upi[p].exp /\ confirmed[p] = 0

\* It has failed, or its window is over.
Over(p) == \/ upi[p].status = "failed"
           \/ upi[p].status # "none" /\ now >= upi[p].exp

\* A payable payment is in the store, or on its way there before anybody can pay it.
\* What is dropped has failed or is over, and what is settled was confirmed.
KeepInv ==
  /\ \A p \in PayIds :
       /\ payments[p] # None => payments[p].exp = upi[p].exp
       /\ Payable(p) => payments[p] # None \/ Handing(p)
  /\ \A c \in Calls :
       /\ pc[c] = "hold" => upi[job[c].pay].status # "paid"
       /\ pc[c] = "discard" => Over(job[c].pay)
       /\ pc[c] \in {"sweepCart", "settle"} => confirmed[job[c].pay] # 0

SameClock == now' = now /\ faults'.restarts = faults.restarts

LEMMA FileClock ==
  ASSUME TypeOK
  PROVE  /\ FileFails => faults'.restarts = faults.restarts
         /\ \A f : FileIs(f) => faults'.restarts = faults.restarts
BY DEF FileFails, FileIs, TypeOK, WorldType

LEMMA CallClock ==
  ASSUME TypeOK, NEW c \in Calls, Start(c) \/ Continue(c)
  PROVE  SameClock
<1>1. CASE Start(c)
  BY <1>1 DEF Start, UpdateCart, ClearCart, IMUpdateCart, PrepareOrder, IMPrepareOrder,
              OrderPreset, TakePending, Check, ClaimConfirm, SameClock
<1>2. CASE Look(c) \/ LookDisk(c) \/ Adopt(c) \/ Record(c) \/ Save(c) \/ Forget(c)
           \/ ForgetDisk(c) \/ MarkMem(c) \/ MarkLoad(c) \/ MarkSave(c)
  BY <1>2, FileClock DEF Look, LookDisk, Adopt, Record, Save, Forget, ForgetDisk, DropFile,
                         MarkMem, MarkLoad, MarkSave, SameClock
<1>3. CASE Inspect(c) \/ Evict(c) \/ Readd(c) \/ Resync(c) \/ Mint(c) \/ Verify(c)
           \/ PlaceUPI(c) \/ Hold(c) \/ PlaceCOD(c)
  BY <1>3 DEF Inspect, Evict, Readd, Resync, Mint, Verify, PlaceUPI, Hold, PlaceCOD, SameClock
<1>4. CASE Active(c) \/ History(c) \/ Taste(c) \/ ClearIM(c) \/ Poll(c) \/ Discard(c)
           \/ Confirm(c) \/ SweepCart(c) \/ Release(c) \/ Settle(c)
  BY <1>4 DEF Active, History, Taste, ClearIM, Poll, Discard, Confirm, SweepCart, Release,
              Settle, SameClock
<1> QED BY <1>1, <1>2, <1>3, <1>4 DEF Continue

\* What a payment keeps: its place in the store unless it is not payable any more.
LEMMA KeepMoves ==
  ASSUME TypeOK, LocalsOK, KeepInv, NEW c \in Calls, Others(c), SameClock,
         UNCHANGED upi, pc'[c] # "hold",
         \A p \in PayIds :
           /\ payments'[p] # None => payments'[p].exp = upi[p].exp
           /\ payments'[p] = None /\ (payments[p] # None \/ Hands(c, p)) => ~Payable(p)
           /\ confirmed[p] # 0 => confirmed'[p] # 0,
         pc'[c] = "discard" => Over(job'[c].pay),
         pc'[c] \in {"sweepCart", "settle"} => confirmed'[job'[c].pay] # 0
  PROVE  KeepInv'
<1>1. \A d \in Calls : pc[d] \in {"hold", "discard", "sweepCart", "settle"} => job[d].pay \in PayIds
  BY DEF TypeOK, CallsType, LocalsOK, LocalsAt, Jobs
<1>2. \A p \in PayIds : Handing(p) => Handing(p)' \/ Hands(c, p)
  BY DEF Others, Handing, Hands
<1>3. \A p \in PayIds : Payable(p)' => Payable(p)
  BY DEF SameClock, Payable
<1>4. \A p \in PayIds : /\ payments'[p] # None => payments'[p].exp = upi'[p].exp
                        /\ Payable(p)' => payments'[p] # None \/ Handing(p)'
  BY <1>2, <1>3 DEF KeepInv
<1>5. \A d \in Calls :
       /\ pc'[d] = "hold" => upi'[job'[d].pay].status # "paid"
       /\ pc'[d] = "discard" => Over(job[d].pay)'
       /\ pc'[d] \in {"sweepCart", "settle"} => confirmed'[job'[d].pay] # 0
  BY <1>1 DEF Others, KeepInv, SameClock, Over
<1> QED BY <1>4, <1>5 DEF KeepInv

LEMMA KeepQuiet ==
  ASSUME TypeOK, LocalsOK, KeepInv, NEW c \in Calls, Quiet1(c), SameClock,
         pc[c] # "hold", pc'[c] = "discard" => Over(job'[c].pay)
  PROVE  KeepInv'
<1>1. \A p \in PayIds : ~Hands(c, p)
  BY DEF Hands
<1> QED BY <1>1, KeepMoves DEF Quiet1, ClaimLabels, KeepInv

LEMMA KeepStarts ==
  ASSUME IInv, KeepInv, NEW c \in Calls, Start(c)
  PROVE  KeepInv'
<1>1. TypeOK /\ LocalsOK /\ TicketInv /\ PurseInv /\ CallsType /\ pc[c] = "idle" /\ SameClock
  BY CallClock DEF IInv, TypeOK, Start, UpdateCart, ClearCart, IMUpdateCart, PrepareOrder,
     IMPrepareOrder, OrderPreset, TakePending, Check, ClaimConfirm, Begins
<1>2. ASSUME UpdateCart(c) \/ ClearCart(c) \/ IMUpdateCart(c) \/ PrepareOrder(c)
               \/ IMPrepareOrder(c) \/ OrderPreset(c)
      PROVE  KeepInv'
  <2>1. Quiet1(c)
    BY <1>1, <1>2, CartSteps
  <2>2. pc'[c] # "discard"
    <3>1. UNCHANGED calls \/ \E l \in {"record", "inspect", "forget", "look", "mint"} : \E j : Goto(c, l, j)
      BY <1>2 DEF UpdateCart, ClearCart, IMUpdateCart, PrepareOrder, IMPrepareOrder, OrderPreset
    <3> QED BY <1>1, <3>1, GotoMoves, StayMoves
  <2> QED BY <1>1, <2>1, <2>2, KeepQuiet
<1>3. CASE TakePending(c)
  <2>1. /\ Others(c) /\ pc'[c] \in {"idle", "verify"}
        /\ UNCHANGED <<upi, payments, confirmed>>
    BY <1>1, <1>3, GotoMoves, StayMoves DEF TakePending, swiggy, observed
  <2> QED BY <1>1, <2>1, KeepMoves DEF KeepInv, Hands
<1>4. CASE Check(c) \/ ClaimConfirm(c)
  <2>1. PICK id \in PayIds, tool \in {"check_payment", "confirm_order"} :
          /\ payments[id] # None /\ job'[c] = Paying(tool, id) /\ Others(c)
          /\ pc'[c] \in {"discard", "poll", "confirm"}
          /\ pc'[c] = "discard" => Closed(payments[id])
          /\ UNCHANGED <<upi, payments, confirmed>>
    <3>1. CASE Check(c)
      BY <1>1, <3>1, GotoMoves DEF Check, swiggy, stores, observed
    <3>2. CASE ClaimConfirm(c)
      BY <1>1, <3>2, GotoMoves DEF ClaimConfirm, Claimable, swiggy, observed
    <3> QED BY <1>4, <3>1, <3>2
  <2>2. job'[c].pay = id
    BY <1>1, <2>1, PayingType DEF TypeOK, StoresType, AllTools, Orderers
  <2>3. pc'[c] = "discard" => Over(job'[c].pay)
    BY <1>1, <2>1, <2>2 DEF Over, Closed, KeepInv, PurseInv
  <2> QED BY <1>1, <2>1, <2>3, KeepMoves DEF KeepInv, Hands
<1> QED BY <1>2, <1>3, <1>4 DEF Start

\* The steps that open, hand out, drop and settle a payment.
LEMMA KeepOpen ==
  ASSUME IInv, KeepInv, NEW c \in Calls, PlaceUPI(c)
  PROVE  KeepInv'
<1>1. /\ TypeOK /\ LocalsOK /\ PurseInv /\ CallsType /\ pc[c] = "upi" /\ SameClock
      /\ job[c] \in Jobs /\ UNCHANGED <<payments, confirmed>>
  BY CallClock DEF IInv, TypeOK, CallsType, PlaceUPI, At, stores, Continue
<1>2. ASSUME PlaceFails(c) \/ Return(c) \/ Step(c, "cod"), UNCHANGED upi
      PROVE  KeepInv'
  <2>1. Others(c) /\ pc'[c] \in {"idle", "cod"}
    <3>1. CASE Return(c)
      BY <1>1, <3>1, ReturnMoves
    <3>2. CASE Step(c, "cod")
      BY <1>1, <3>2, StepMoves
    <3> QED BY <1>2, <3>1, <3>2 DEF PlaceFails
  <2> QED BY <1>1, <1>2, <2>1, KeepMoves DEF KeepInv, Hands
<1>3. ASSUME NEW id \in SparePayIds,
             upi' = [upi EXCEPT ![id] = [status |-> "open", exp |-> now + PayWindow,
                                         conf |-> job[c].ord.id]],
             Goto(c, "hold", [job[c] EXCEPT !.pay = id])
      PROVE  KeepInv'
  <2>1. /\ id \in PayIds /\ upi[id].status = "none" /\ payments[id] = None
        /\ upi'[id].status = "open"
        /\ \A p \in PayIds : p # id => upi'[p] = upi[p]
    BY <1>1, <1>3 DEF SparePayIds, TypeOK, SwiggyType, PurseInv
  <2>2. Others(c) /\ pc'[c] = "hold" /\ job'[c].pay = id
    BY <1>1, <1>3, GotoMoves DEF Jobs
  <2>3. \A d \in Calls : /\ pc[d] = "hold" => job[d].pay # id
                         /\ pc[d] = "discard" => job[d].pay # id
                         /\ pc[d] \in {"hold", "discard", "sweepCart", "settle"} => job[d].pay \in PayIds
    <3>1. \A d \in Calls : pc[d] = "hold" => job[d].pay # id
      BY <1>1, <2>1 DEF PurseInv, Hands
    <3>2. \A d \in Calls : pc[d] = "discard" => job[d].pay # id
      BY <2>1 DEF KeepInv, Over
    <3> QED BY <1>1, <3>1, <3>2 DEF CallsType, LocalsOK, LocalsAt, Jobs
  <2>4. ASSUME NEW p \in PayIds
        PROVE  /\ payments'[p] # None => payments'[p].exp = upi'[p].exp
               /\ Payable(p)' => payments'[p] # None \/ Handing(p)'
    <3>1. CASE p = id
      BY <1>1, <2>1, <2>2, <3>1 DEF Handing
    <3>2. CASE p # id
      <4>1. Handing(p) => Handing(p)'
        BY <1>1, <2>2 DEF Handing, Others
      <4>2. Payable(p)' => Payable(p)
        BY <1>1, <2>1, <3>2 DEF Payable, SameClock
      <4> QED BY <1>1, <2>1, <3>2, <4>1, <4>2 DEF KeepInv
    <3> QED BY <3>1, <3>2
  <2>5. \A d \in Calls :
         /\ pc'[d] = "hold" => upi'[job'[d].pay].status # "paid"
         /\ pc'[d] = "discard" => Over(job[d].pay)'
         /\ pc'[d] \in {"sweepCart", "settle"} => confirmed'[job'[d].pay] # 0
    BY <1>1, <2>1, <2>2, <2>3 DEF Others, KeepInv, Over, SameClock
  <2> QED BY <2>4, <2>5 DEF KeepInv
<1> QED BY <1>2, <1>3 DEF PlaceUPI

LEMMA KeepHold ==
  ASSUME IInv, KeepInv, NEW c \in Calls, Hold(c)
  PROVE  KeepInv'
<1>1. /\ TypeOK /\ LocalsOK /\ CallsType /\ pc[c] = "hold" /\ SameClock
      /\ Others(c) /\ pc'[c] = "idle" /\ UNCHANGED <<upi, confirmed>> /\ job[c].pay \in PayIds
      /\ PutPayment(job[c].pay, [exp |-> upi[job[c].pay].exp, ord |-> job[c].ord])
  BY CallClock, ReturnMoves
     DEF IInv, TypeOK, CallsType, LocalsOK, LocalsAt, Jobs, Hold, At, swiggy, observed, Continue
<1> DEFINE e == [exp |-> upi[job[c].pay].exp, ord |-> job[c].ord]
<1>2. e # None /\ e.exp = upi[job[c].pay].exp
  <2>1. e \in PaymentEntries
    BY <1>1 DEF TypeOK, SwiggyType, CallsType, UpiStates, LocalsOK, LocalsAt, Jobs, PaymentEntries
  <2> QED BY <2>1, NoneAssumption
<1> HIDE DEF e
<1>3. \A p \in PayIds :
        payments'[p] = IF p = job[c].pay THEN e
                       ELSE IF payments[p] # None /\ Closed(payments[p]) THEN None ELSE payments[p]
  BY <1>1 DEF PutPayment, e
<1>4. \A p \in PayIds :
        /\ payments'[p] # None => payments'[p].exp = upi[p].exp
        /\ payments'[p] = None /\ (payments[p] # None \/ Hands(c, p)) => ~Payable(p)
  <2>1. \A p \in PayIds : payments[p] # None /\ Closed(payments[p]) => ~Payable(p)
    BY <1>1 DEF KeepInv, Closed, Payable, TypeOK, SwiggyType, UpiStates, WorldType
  <2> QED BY <1>2, <1>3, <2>1 DEF KeepInv, Hands
<1> QED BY <1>1, <1>4, KeepMoves

LEMMA KeepRemove ==
  ASSUME IInv, KeepInv, NEW c \in Calls, Discard(c) \/ Settle(c)
  PROVE  KeepInv'
<1>1. /\ TypeOK /\ LocalsOK /\ CallsType /\ pc[c] \in {"discard", "settle"} /\ SameClock
      /\ Others(c) /\ pc'[c] \in {"idle", "active"} /\ UNCHANGED <<upi, confirmed>>
      /\ RemovePayment(job[c].pay) /\ job[c].pay \in PayIds
  BY CallClock, ReturnMoves, StepMoves
     DEF IInv, TypeOK, CallsType, LocalsOK, LocalsAt, Jobs, Discard, Settle, At, swiggy,
         observed, Continue
<1>2. ~Payable(job[c].pay)
  BY <1>1 DEF KeepInv, Over, Payable, TypeOK, SwiggyType, UpiStates, WorldType
<1>3. \A p \in PayIds : payments'[p] = IF p = job[c].pay THEN None ELSE payments[p]
  BY <1>1 DEF RemovePayment, TypeOK, StoresType
<1> QED BY <1>1, <1>2, <1>3, KeepMoves DEF KeepInv, Hands

LEMMA KeepConfirm ==
  ASSUME IInv, KeepInv, NEW c \in Calls, Confirm(c) \/ SweepCart(c) \/ Release(c)
  PROVE  KeepInv'
<1>0. /\ TypeOK /\ LocalsOK /\ CallsType /\ SameClock /\ UNCHANGED <<upi, payments>>
      /\ pc[c] \in {"confirm", "sweepCart", "release"}
  BY CallClock DEF IInv, TypeOK, Confirm, SweepCart, Release, At, swiggy, stores, Continue
<1>1. /\ job[c].pay \in PayIds /\ Others(c)
      /\ (pc'[c] = "idle" \/ (pc'[c] \in {"release", "sweepCart", "settle"} /\ job'[c] = job[c]))
  <2>1. job[c].pay \in PayIds
    BY <1>0 DEF CallsType, LocalsOK, LocalsAt, Jobs
  <2>2. Return(c) \/ \E l \in {"release", "sweepCart", "settle"} : Step(c, l)
    BY DEF Confirm, SweepCart, Release
  <2>3. CASE Return(c)
    BY <1>0, <2>1, <2>3, ReturnMoves
  <2>4. ASSUME NEW l \in {"release", "sweepCart", "settle"}, Step(c, l)
        PROVE  Others(c) /\ pc'[c] \in {"release", "sweepCart", "settle"} /\ job'[c] = job[c]
    BY <1>0, <2>4, StepMoves
  <2> QED BY <2>1, <2>2, <2>3, <2>4
<1>2. pc'[c] \in {"sweepCart", "settle"} => confirmed'[job'[c].pay] # 0
  <2>1. CASE Confirm(c)
    BY <1>0, <1>1, <2>1, StepMoves DEF Confirm, TypeOK, ObservedType
  <2>2. CASE SweepCart(c)
    BY <1>0, <1>1, <2>2 DEF SweepCart, At, observed, KeepInv
  <2>3. CASE Release(c)
    BY <1>0, <2>3, ReturnMoves DEF Release
  <2> QED BY <2>1, <2>2, <2>3
<1>3. \A p \in PayIds : confirmed[p] # 0 => confirmed'[p] # 0
  BY <1>0, <1>1 DEF Confirm, SweepCart, Release, observed, TypeOK, ObservedType
<1> QED BY <1>0, <1>1, <1>2, <1>3, KeepMoves DEF KeepInv, Hands

LEMMA KeepContinues ==
  ASSUME IInv, KeepInv, NEW c \in Calls, Continue(c)
  PROVE  KeepInv'
<1>1. TypeOK /\ LocalsOK /\ CallsType /\ SameClock /\ job[c] \in Jobs
  BY CallClock DEF IInv, TypeOK, CallsType
<1>2. ASSUME Look(c) \/ LookDisk(c) \/ Adopt(c) \/ Record(c) \/ Save(c) \/ Forget(c)
               \/ ForgetDisk(c) \/ MarkMem(c) \/ MarkLoad(c) \/ MarkSave(c)
      PROVE  KeepInv'
  <2>1. Quiet1(c) /\ pc[c] # "hold"
    BY <1>1, <1>2, MemorySteps DEF Look, LookDisk, Adopt, Record, Save, Forget, ForgetDisk,
       MarkMem, MarkLoad, MarkSave, At
  <2>2. pc'[c] # "discard"
    <3>1. ASSUME NEW cw, Found(c, cw) PROVE pc'[c] # "discard"
      BY <1>1, <3>1, GotoMoves DEF Found, AfterLook, Jobs
    <3>2. CASE Look(c) \/ LookDisk(c) \/ Adopt(c)
      BY <1>1, <3>1, <3>2, GotoMoves, StepMoves DEF Look, LookDisk, Adopt
    <3>3. CASE Record(c) \/ Save(c) \/ Forget(c) \/ ForgetDisk(c)
      BY <1>1, <3>3, GotoMoves, StepMoves, ReturnMoves DEF Record, Save, Forget, ForgetDisk
    <3>4. CASE MarkMem(c) \/ MarkLoad(c) \/ MarkSave(c)
      BY <1>1, <3>4, GotoMoves, StepMoves, ReturnMoves DEF MarkMem, MarkLoad, MarkSave, AfterMark
    <3> QED BY <1>2, <3>2, <3>3, <3>4
  <2> QED BY <1>1, <2>1, <2>2, KeepQuiet
<1>3. ASSUME Inspect(c) \/ Evict(c) \/ Readd(c) \/ Resync(c)
      PROVE  KeepInv'
  <2>1. \E l \in {"evict", "forget", "record", "idle"} : \E j : Goto(c, l, j)
    BY <1>3 DEF Inspect, Evict, Readd, Resync, Step, Return
  <2>2. Quiet1(c) /\ pc[c] # "hold" /\ pc'[c] # "discard"
    BY <1>1, <1>3, <2>1, CartSteps, GotoMoves DEF Inspect, Evict, Readd, Resync, At
  <2> QED BY <1>1, <2>2, KeepQuiet
<1>4. ASSUME Active(c) \/ History(c) \/ Taste(c) \/ ClearIM(c) \/ Poll(c)
      PROVE  KeepInv'
  <2>1. Quiet1(c) /\ pc[c] # "hold"
    BY <1>1, <1>4, BookSteps DEF Active, History, Taste, ClearIM, Poll, At
  <2>2. pc'[c] = "discard" => Over(job'[c].pay)
    <3>1. CASE Poll(c)
      <4>1. CASE Return(c)
        BY <1>1, <4>1, ReturnMoves
      <4>2. CASE Step(c, "discard") /\ upi[job[c].pay].status = "failed"
        <5>1. job'[c] = job[c]
          BY <1>1, <4>2, StepMoves
        <5> QED BY <4>2, <5>1 DEF Over
      <4> QED BY <3>1, <4>1, <4>2 DEF Poll
    <3>2. CASE ~Poll(c)
      <4>1. \E l \in {"look", "markMem", "idle"} : \E j : Goto(c, l, j)
        BY <1>4, <3>2 DEF Active, History, Taste, ClearIM, Step, Return
      <4> QED BY <1>1, <4>1, GotoMoves
    <3> QED BY <3>1, <3>2
  <2> QED BY <1>1, <2>1, <2>2, KeepQuiet
<1>5. ASSUME Mint(c) \/ Verify(c) \/ PlaceCOD(c)
      PROVE  KeepInv'
  <2>1. /\ Others(c) /\ pc[c] # "hold" /\ UNCHANGED <<upi, payments, confirmed>>
        /\ pc'[c] \in {"idle", "cod", "upi", "active"}
    BY <1>1, <1>5, StepMoves, ReturnMoves
       DEF Mint, Verify, PlaceCOD, PlaceFails, At, swiggy, stores, observed
  <2> QED BY <1>1, <2>1, KeepMoves DEF KeepInv, Hands
<1> QED BY <1>2, <1>3, <1>4, <1>5, KeepOpen, KeepHold, KeepRemove, KeepConfirm DEF Continue

LEMMA KeepEnvironment ==
  ASSUME IInv, KeepInv, Environment
  PROVE  KeepInv'
<1>1. TypeOK /\ \A d \in Calls :
        pc[d] \in {"hold", "discard", "sweepCart", "settle"} => job[d].pay \in PayIds
  BY DEF IInv, TypeOK, CallsType, LocalsOK, LocalsAt, Jobs
<1>2. CASE Restart
  <2>1. /\ \A c \in Calls : pc'[c] = "idle"
        /\ \A p \in PayIds : payments'[p] = None /\ ~Payable(p)'
    BY <1>1, <1>2 DEF Restart, Payable, TypeOK, WorldType
  <2> QED BY <2>1 DEF KeepInv
<1>3. CASE ~Restart
  <2>1. /\ UNCHANGED <<payments, confirmed, pc, job>> /\ faults'.restarts = faults.restarts
        /\ now' \in Nat /\ now' >= now
        /\ \A p \in PayIds :
             /\ upi'[p].exp = upi[p].exp
             /\ upi'[p].status = "none" <=> upi[p].status = "none"
             /\ upi[p].status = "failed" => upi'[p].status = "failed"
             /\ upi'[p].status = "open" => upi[p].status = "open"
             /\ upi'[p].status = "paid" =>
                  upi[p].status = "paid" \/ (upi[p].status = "open" /\ ~Handing(p))
    <3>1. CASE Pay
      BY <1>1, <3>1 DEF Pay, Handing, At, TypeOK, WorldType, SwiggyType, UpiStates, stores, calls, observed
    <3>2. CASE PayFails
      BY <1>1, <3>2 DEF PayFails, TypeOK, WorldType, SwiggyType, UpiStates, stores, calls, observed
    <3>3. CASE ForeignEdit
      BY <1>1, <3>3 DEF ForeignEdit, TypeOK, WorldType, stores, calls, observed
    <3>4. CASE Tick
      BY <1>1, <3>4 DEF Tick, TypeOK, WorldType, swiggy, stores, calls, observed
    <3> QED BY <1>3, <3>1, <3>2, <3>3, <3>4 DEF Environment
  <2>2. \A p \in PayIds : Handing(p)' = Handing(p)
    BY <2>1 DEF Handing
  <2>3. \A p \in PayIds : upi[p].exp \in Nat /\ now \in Nat
    BY <1>1 DEF TypeOK, SwiggyType, UpiStates, WorldType
  <2>4. \A p \in PayIds : (Payable(p)' => Payable(p)) /\ (Over(p) => Over(p)')
    BY <2>1, <2>3 DEF Payable, Over
  <2>5. \A c \in Calls : pc[c] = "hold" => upi'[job[c].pay].status # "paid"
    BY <1>1, <2>1 DEF KeepInv, Handing
  <2>6. \A p \in PayIds : /\ payments'[p] # None => payments'[p].exp = upi'[p].exp
                          /\ Payable(p)' => payments'[p] # None \/ Handing(p)'
    BY <2>1, <2>2, <2>4 DEF KeepInv
  <2>7. \A c \in Calls :
         /\ pc'[c] = "hold" => upi'[job'[c].pay].status # "paid"
         /\ pc'[c] = "discard" => Over(job[c].pay)'
         /\ pc'[c] \in {"sweepCart", "settle"} => confirmed'[job'[c].pay] # 0
    BY <1>1, <2>1, <2>4, <2>5 DEF KeepInv
  <2> QED BY <2>6, <2>7 DEF KeepInv
<1> QED BY <1>2, <1>3

\* While its window is open, a payment the user made and no confirm settled can still be
\* confirmed, unless the process was restarted: no sweep, poll, failed or concurrent
\* confirm drops it (paymentStore.put and remove, handleCheckPayment, handleConfirmOrder).
THEOREM PaymentsAreKept == Spec => []PaidNotForgotten
<1>1. Init => KeepInv
  BY DEF Init, KeepInv, Payable
<1>2. IInv /\ KeepInv /\ [Next]_vars => KeepInv'
  <2> SUFFICES ASSUME IInv, KeepInv, [Next]_vars
               PROVE  KeepInv'
    OBVIOUS
  <2>1. CASE Next
    BY <2>1, KeepStarts, KeepContinues, KeepEnvironment DEF Next
  <2>2. CASE UNCHANGED vars
    BY <2>2 DEF vars, swiggy, stores, calls, observed, KeepInv, Payable, Handing, Over
  <2> QED BY <2>1, <2>2
<1>3. KeepInv => PaidNotForgotten
  BY DEF KeepInv, PaidNotForgotten, Payable, Handing
<1> QED BY <1>1, <1>2, <1>3, Invariance, PTL DEF Spec

-----------------------------------------------------------------------------
(* One call at a time: what is ordered is what was confirmed               *)

\* An agent that waits for every answer.
OneCall == \A c, d \in Calls : c = d

\* The hash of a confirmation is that of the bill it was minted for, and a call that
\* is about to order has seen that very bill in the cart.
BoundInv ==
  /\ \A i \in ConfIds :
       /\ pending[i] # None => pending[i].hash = Hash(pending[i].addr, shown[i])
       /\ landed[i] # None => shown[i] # None
  /\ \A c \in Calls :
       /\ pc[c] \in TicketLabels =>
            job[c].ord.hash = Hash(job[c].ord.addr, shown[job[c].ord.id])
       /\ pc[c] \in {"upi", "cod"} =>
            /\ cart[job[c].vert] # None
            /\ job[c].ord.hash = Hash(job[c].ord.addr, cart[job[c].vert])
  /\ PlacedAsConfirmed

LEMMA HashBinds ==
  ASSUME NEW a, NEW b, NEW e, Hash(a, b) = Hash(a, e)
  PROVE  b.items = e.items /\ b.total = e.total
BY DEF Hash

LEMMA BoundQuiet ==
  ASSUME OneCall, BoundInv, NEW c \in Calls, pc'[c] \notin TicketLabels,
         UNCHANGED <<pending, shown, landed>>
  PROVE  BoundInv'
<1>1. \A d \in Calls : pc'[d] \notin TicketLabels
  BY DEF OneCall
<1>2. PlacedAsConfirmed'
  BY DEF BoundInv, PlacedAsConfirmed
<1> QED BY <1>1, <1>2 DEF BoundInv, TicketLabels

LEMMA BoundMint ==
  ASSUME OneCall, IInv, BoundInv, NEW c \in Calls, Mint(c)
  PROVE  BoundInv'
<1>1. /\ TypeOK /\ TicketInv /\ pc'[c] = "idle" /\ landed' = landed
      /\ job[c] \in Jobs
  BY ReturnMoves DEF Mint, IInv, TypeOK, CallsType, swiggy
<1>2. CASE UNCHANGED <<pending, shown>>
  BY <1>1, <1>2, BoundQuiet DEF TicketLabels
<1>3. CASE ~UNCHANGED <<pending, shown>>
  <2> DEFINE j == job[c]
             p(id) == [id |-> id, addr |-> j.addr, vert |-> j.vert,
                       hash |-> Hash(j.addr, j.seen), at |-> now]
  <2>1. PICK id \in SpareConfIds : /\ PutPending(id, p(id))
                                   /\ shown' = [shown EXCEPT ![id] = j.seen]
                                   /\ j.seen # None
    BY <1>3 DEF Mint, Orderable
  <2>2. id \in ConfIds /\ shown[id] = None /\ shown'[id] = j.seen
    BY <1>1, <2>1 DEF SpareConfIds, TypeOK, ObservedType
  <2>3. \A i \in ConfIds : i # id => /\ pending'[i] = None \/ pending'[i] = pending[i]
                                     /\ shown'[i] = shown[i]
    BY <1>1, <2>1, <2>2 DEF PutPending, TypeOK, ObservedType
  <2>4. pending'[id].hash = Hash(pending'[id].addr, shown'[id])
    BY <2>1, <2>2 DEF PutPending
  <2> HIDE DEF p, j
  <2>5. \A i \in ConfIds :
          /\ pending'[i] # None => pending'[i].hash = Hash(pending'[i].addr, shown'[i])
          /\ landed'[i] # None => shown'[i] # None
    BY <1>1, <2>1, <2>2, <2>3, <2>4 DEF BoundInv
  <2>6. PlacedAsConfirmed'
    BY <1>1, <2>2, <2>3 DEF BoundInv, PlacedAsConfirmed
  <2>7. \A d \in Calls : pc'[d] = "idle"
    BY <1>1 DEF OneCall
  <2> QED BY <2>5, <2>6, <2>7 DEF BoundInv, TicketLabels
<1> QED BY <1>2, <1>3

LEMMA BoundTake ==
  ASSUME OneCall, IInv, BoundInv, NEW c \in Calls, TakePending(c)
  PROVE  BoundInv'
<1>1. TypeOK /\ TicketInv /\ CallsType /\ UNCHANGED <<landed, shown>> /\ pc[c] = "idle"
  BY DEF TakePending, Begins, IInv, TypeOK, swiggy, observed
<1>2. PICK id \in ConfIds, m \in Methods :
        /\ pending[id] # None
        /\ TakeOut(id)
        /\ \/ UNCHANGED calls
           \/ Goto(c, "verify", [Request("place_order", pending[id].vert) EXCEPT
                                   !.ord = pending[id], !.method = m])
  BY DEF TakePending
<1>3. \A i \in ConfIds : pending'[i] # None => pending'[i] = pending[i]
  BY <1>1, <1>2 DEF TakeOut, TypeOK, StoresType
<1>4. \/ pc'[c] = "idle"
      \/ pc'[c] = "verify" /\ job'[c].ord = pending[id] /\ pending[id].id = id
  <2>1. CASE UNCHANGED calls
    BY <1>1, <2>1 DEF calls
  <2>2. CASE Goto(c, "verify", [Request("place_order", pending[id].vert) EXCEPT
                                  !.ord = pending[id], !.method = m])
    <3> DEFINE j == [Request("place_order", pending[id].vert) EXCEPT
                       !.ord = pending[id], !.method = m]
    <3>1. pc'[c] = "verify" /\ job'[c] = j
      BY <1>1, <2>2, GotoMoves
    <3>2. pending[id].vert \in Verticals
      BY <1>1, <1>2 DEF TypeOK, StoresType, PendingOrders
    <3>3. j.ord = pending[id] /\ pending[id].id = id
      BY <1>1, <1>2, <3>2, RequestType DEF AllTools, Jobs, TicketInv
    <3> QED BY <3>1, <3>3
  <2> QED BY <1>2, <2>1, <2>2
<1>5. \A d \in Calls : pc'[d] \in TicketLabels =>
        /\ pc'[d] = "verify"
        /\ job'[d].ord.hash = Hash(job'[d].ord.addr, shown'[job'[d].ord.id])
  BY <1>1, <1>2, <1>4 DEF BoundInv, OneCall, TicketLabels
<1>6. PlacedAsConfirmed'
  BY <1>1 DEF BoundInv, PlacedAsConfirmed
<1> QED BY <1>1, <1>3, <1>5, <1>6 DEF BoundInv, TicketLabels

LEMMA BoundVerify ==
  ASSUME OneCall, IInv, BoundInv, NEW c \in Calls, Verify(c)
  PROVE  BoundInv'
<1>1. /\ TypeOK /\ CallsType /\ pc[c] = "verify"
      /\ UNCHANGED <<pending, shown, landed, cart>>
  BY DEF Verify, At, IInv, TypeOK, swiggy, stores, observed
<1>2. \/ pc'[c] = "idle"
      \/ /\ pc'[c] \in {"upi", "cod"} /\ job'[c] = job[c]
         /\ cart[job[c].vert] # None
         /\ job[c].ord.hash = Hash(job[c].ord.addr, cart[job[c].vert])
  BY <1>1, StepMoves, ReturnMoves DEF Verify
<1>3. PlacedAsConfirmed'
  BY <1>1 DEF BoundInv, PlacedAsConfirmed
<1> QED BY <1>1, <1>2, <1>3 DEF BoundInv, OneCall, TicketLabels

\* The order that lands is for the bill that was confirmed.
LEMMA BoundLand ==
  ASSUME OneCall, IInv, BoundInv, NEW c \in Calls, pc[c] \in {"upi", "cod"},
         NEW known \in BOOLEAN, Land(c, known), UNCHANGED <<pending, shown>>,
         pc'[c] \notin TicketLabels
  PROVE  BoundInv'
<1> DEFINE o == job[c].ord
           b == cart[job[c].vert]
<1>1. /\ TypeOK /\ TicketInv /\ o.id \in ConfIds /\ HasTicket(c, o.id)
      /\ shown[o.id] # None
  BY LandMoves DEF IInv, TicketInv
<1>2. /\ landed'[o.id].basket = b
      /\ \A i \in ConfIds : i # o.id => landed'[i] = landed[i]
  BY <1>1 DEF Land, TypeOK, SwiggyType
<1>3. b.items = shown[o.id].items /\ b.total = shown[o.id].total
  BY HashBinds DEF BoundInv, TicketLabels
<1> HIDE DEF b, o
<1>4. PlacedAsConfirmed'
  BY <1>1, <1>2, <1>3 DEF BoundInv, PlacedAsConfirmed
<1>5. \A i \in ConfIds :
        /\ pending'[i] # None => pending'[i].hash = Hash(pending'[i].addr, shown'[i])
        /\ landed'[i] # None => shown'[i] # None
  BY <1>1, <1>2 DEF BoundInv
<1>6. \A d \in Calls : pc'[d] \notin TicketLabels
  BY DEF OneCall
<1> QED BY <1>4, <1>5, <1>6 DEF BoundInv, TicketLabels

LEMMA BoundPlace ==
  ASSUME OneCall, IInv, BoundInv, NEW c \in Calls, PlaceUPI(c) \/ PlaceCOD(c)
  PROVE  BoundInv'
<1>1. /\ CallsType /\ pc[c] \in {"upi", "cod"} /\ UNCHANGED <<pending, shown>>
      /\ FALSE \in BOOLEAN /\ TRUE \in BOOLEAN
  BY DEF PlaceUPI, PlaceCOD, At, IInv, TypeOK, stores
<1>2. ASSUME NEW known \in BOOLEAN, Land(c, known), pc'[c] \notin TicketLabels
      PROVE  BoundInv'
  BY <1>1, <1>2, BoundLand
<1>3. CASE PlaceFails(c)
  <2>1. pc'[c] = "idle"
    BY <1>1, <1>3, ReturnMoves DEF PlaceFails
  <2> QED BY <1>1, <1>2, <1>3, <2>1, BoundQuiet DEF PlaceFails, TicketLabels
<1>4. CASE PlaceUPI(c) /\ ~PlaceFails(c)
  <2>1. CASE (Return(c) \/ Step(c, "cod")) /\ UNCHANGED <<landed, cart>>
    <3>1. pc'[c] = "idle" \/ (pc'[c] = "cod" /\ job'[c] = job[c])
      <4>1. CASE Return(c)
        BY <1>1, <4>1, ReturnMoves
      <4>2. CASE Step(c, "cod")
        BY <1>1, <4>2, StepMoves
      <4> QED BY <2>1, <4>1, <4>2
    <3>2. PlacedAsConfirmed'
      BY <1>1, <2>1 DEF BoundInv, PlacedAsConfirmed
    <3> QED BY <1>1, <2>1, <3>1, <3>2 DEF BoundInv, OneCall, TicketLabels
  <2>2. CASE Land(c, FALSE) /\ \E j : Goto(c, "hold", j)
    <3>1. pc'[c] = "hold"
      BY <1>1, <2>2, GotoMoves
    <3> QED BY <1>1, <1>2, <2>2, <3>1 DEF TicketLabels
  <2> QED BY <1>4, <2>1, <2>2 DEF PlaceUPI
<1>5. CASE Land(c, TRUE) /\ Step(c, "active")
  <2>1. pc'[c] = "active"
    BY <1>1, <1>5, StepMoves
  <2> QED BY <1>1, <1>2, <1>5, <2>1 DEF TicketLabels
<1> QED BY <1>3, <1>4, <1>5 DEF PlaceCOD

LEMMA BoundConfirm ==
  ASSUME OneCall, IInv, BoundInv, NEW c \in Calls, Confirm(c)
  PROVE  BoundInv'
<1>1. /\ TypeOK /\ CallsType /\ UNCHANGED <<pending, shown>>
      /\ pc[c] = "confirm" /\ landed[job[c].ord.id] # None
      /\ job[c].ord.id \in ConfIds
  BY DEF Confirm, At, IInv, TypeOK, CallsType, LocalsOK, LocalsAt, Jobs, PendingOrders,
         LandedInv, stores
<1>2. pc'[c] \notin TicketLabels
  BY <1>1, StepMoves DEF Confirm, TicketLabels
<1>3. \A i \in ConfIds : landed'[i] # None =>
        landed[i] # None /\ landed'[i].basket = landed[i].basket
  BY <1>1 DEF Confirm, TypeOK, SwiggyType, LandedOrders
<1>4. PlacedAsConfirmed'
  BY <1>1, <1>3 DEF BoundInv, PlacedAsConfirmed
<1>5. \A d \in Calls : pc'[d] \notin TicketLabels
  BY <1>2 DEF OneCall
<1> QED BY <1>1, <1>3, <1>4, <1>5 DEF BoundInv, TicketLabels

LEMMA BoundNext ==
  ASSUME OneCall, MaxForeign = 0, IInv, BoundInv, Next
  PROVE  BoundInv'
<1>1. TypeOK /\ LocalsOK /\ CallsType
  BY DEF IInv, TypeOK
<1>2. ASSUME NEW c \in Calls, Quiet1(c) PROVE BoundInv'
  BY <1>2, BoundQuiet DEF Quiet1
<1>3. ASSUME NEW c \in Calls, Start(c) PROVE BoundInv'
  <2>1. CASE ClaimConfirm(c)
    <3>1. pc'[c] \in {"discard", "confirm"} /\ UNCHANGED <<pending, shown, landed>>
      BY <1>1, <2>1, GotoMoves DEF ClaimConfirm, swiggy, observed
    <3> QED BY <3>1, BoundQuiet DEF TicketLabels
  <2> QED BY <1>1, <1>2, <1>3, <2>1, CartSteps, BookSteps, BoundTake DEF Start
<1>4. ASSUME NEW c \in Calls, Continue(c) PROVE BoundInv'
  <2>1. CASE Hold(c) \/ Discard(c) \/ SweepCart(c) \/ Release(c) \/ Settle(c)
    <3>1. pc'[c] \notin TicketLabels /\ UNCHANGED <<pending, shown, landed>>
      BY <1>1, <2>1, StepMoves, ReturnMoves
         DEF Hold, Discard, SweepCart, Release, Settle, TicketLabels, swiggy, stores, observed
    <3> QED BY <3>1, BoundQuiet
  <2> QED BY <1>1, <1>2, <1>4, <2>1, MemorySteps, CartSteps, BookSteps, BoundMint,
             BoundVerify, BoundPlace, BoundConfirm DEF Continue
<1>5. ASSUME Environment PROVE BoundInv'
  <2>1. CASE Restart
    <3>1. /\ UNCHANGED <<shown, landed>> /\ \A i \in ConfIds : pending'[i] = None
          /\ \A d \in Calls : pc'[d] = "idle"
      BY <2>1 DEF Restart, swiggy, observed
    <3>2. PlacedAsConfirmed'
      BY <3>1 DEF BoundInv, PlacedAsConfirmed
    <3> QED BY <3>1, <3>2 DEF BoundInv, TicketLabels
  <2>2. ~ForeignEdit
    BY <1>1 DEF ForeignEdit, TypeOK, WorldType
  <2>3. CASE Pay \/ PayFails \/ Tick
    <3>1. UNCHANGED <<pending, shown, landed, cart, pc, job>>
      BY <2>3 DEF Pay, PayFails, Tick, swiggy, stores, calls, observed
    <3>2. PlacedAsConfirmed'
      BY <3>1 DEF BoundInv, PlacedAsConfirmed
    <3> QED BY <3>1, <3>2 DEF BoundInv
  <2> QED BY <1>5, <2>1, <2>2, <2>3 DEF Environment
<1> QED BY <1>3, <1>4, <1>5 DEF Next

\* With one call at a time and nobody else editing the cart, an order that Swiggy holds
\* has the items and the bill of its confirmation: place_order compares the live cart
\* with the hash, and nothing of this process can come between that and the order.
THEOREM OrdersAsConfirmed ==
  ASSUME OneCall, MaxForeign = 0
  PROVE  Spec => []PlacedAsConfirmed
<1>1. Init => BoundInv
  BY DEF Init, BoundInv, PlacedAsConfirmed, TicketLabels
<1>2. IInv /\ BoundInv /\ [Next]_vars => BoundInv'
  <2> SUFFICES ASSUME IInv, BoundInv, [Next]_vars
               PROVE  BoundInv'
    OBVIOUS
  <2>1. CASE Next
    BY <2>1, BoundNext
  <2>2. CASE UNCHANGED vars
    <3>1. UNCHANGED <<pending, shown, landed, cart, pc, job>>
      BY <2>2 DEF vars, swiggy, stores, calls, observed
    <3>2. PlacedAsConfirmed'
      BY <3>1 DEF BoundInv, PlacedAsConfirmed
    <3> QED BY <3>1, <3>2 DEF BoundInv
  <2> QED BY <2>1, <2>2
<1>3. BoundInv => PlacedAsConfirmed
  BY DEF BoundInv
<1> QED BY <1>1, <1>2, <1>3, Invariance, PTL DEF Spec

-----------------------------------------------------------------------------
(* One call at a time: the cart memory, its file, and what a rebuild replays *)

\* Memory and file may differ while a write-through is half done.
HalfDone == {"save", "forgetDisk", "markLoad", "markSave"}

\* What is remembered was written by this process or read from the file.
Remembers == lastCart # None \/ faults.restarts = 0

Placed(cw) == [cw EXCEPT !.placed = TRUE]

\* Memory and file agree, or differ by exactly what the call in progress is going to write.
MemInv ==
  faults.lost = 0 =>
    /\ Remembers /\ (\A c \in Calls : pc[c] \notin HalfDone) => lastCart = diskCart
    /\ \A c \in Calls :
         /\ pc[c] = "save" => lastCart = job[c].cw
         /\ pc[c] \in {"forgetDisk", "lookDisk", "adopt"} => lastCart = None
         /\ pc[c] = "adopt" => job[c].cw = diskCart
         /\ pc[c] = "markLoad" /\ Remembers =>
              IF lastCart = None THEN diskCart = None
              ELSE diskCart # None /\ lastCart = Placed(diskCart)
         /\ pc[c] = "markSave" /\ Remembers => lastCart = Placed(job[c].cw)

Known(i) == landed[i] # None /\ landed[i].known

\* The call between an order's answer and the mark on the write it consumed.
BookLabels == {"sweepCart", "settle", "active", "look", "lookDisk", "history",
               "taste", "markMem"}
Booking(c, i) == /\ pc[c] \in BookLabels /\ job[c].tool \in Orderers
                 /\ job[c].ord.id = i

\* A remembered write that is not marked is no older than any order the process
\* knows of, except the one whose bookkeeping is under way.
SeedInv ==
  /\ \A i \in ConfIds : landed[i] # None => landed[i].at <= now
  /\ Undisturbed => \A i \in ConfIds : Known(i) =>
       /\ lastCart # None /\ ~lastCart.placed /\ (\A c \in Calls : ~Booking(c, i))
            => lastCart.at >= landed[i].at
       /\ \A c \in Calls : pc[c] = "resync" => job[c].cw.at >= landed[i].at

LEMMA FileWritten ==
  ASSUME TypeOK
  PROVE  /\ FileFails => faults'.lost # 0
         /\ \A f : FileIs(f) => \/ faults'.lost # 0
                                \/ diskCart' = f /\ UNCHANGED faults
BY DEF FileFails, FileIs, TypeOK, WorldType

LEMMA AfterLookMoves ==
  ASSUME NEW j \in Jobs, NEW cw, NEW l, LocalsAt(l, j), l \in {"look", "lookDisk", "adopt"}
  PROVE  /\ AfterLook(j, cw) \in {"history", "taste", "resync", "mint"}
         /\ AfterLook(j, cw) = "resync" => Rebuilds(j, cw) /\ j.tool \in Preparers
         /\ j.tool \in Orderers => AfterLook(j, cw) \in {"history", "taste"}
BY DEF AfterLook, Jobs, LocalsAt, Preparers, Orderers

LEMMA FoundMoves ==
  ASSUME TypeOK, LocalsOK, NEW c \in Calls, pc[c] \in {"look", "lookDisk", "adopt"},
         NEW cw, Found(c, cw)
  PROVE  /\ pc'[c] = AfterLook(job[c], cw)
         /\ pc'[c] \in {"history", "taste", "resync", "mint"}
         /\ pc'[c] = "resync" => Rebuilds(job[c], cw) /\ job[c].tool \in Preparers
         /\ job[c].tool \in Orderers => pc'[c] \in {"history", "taste"}
         /\ job'[c] = [job[c] EXCEPT !.cw = cw]
<1>1. CallsType /\ job[c] \in Jobs /\ LocalsAt(pc[c], job[c])
  BY DEF TypeOK, CallsType, LocalsOK
<1> QED BY <1>1, GotoMoves, AfterLookMoves DEF Found

LEMMA MemQuiet ==
  ASSUME OneCall, MemInv, NEW c \in Calls,
         pc[c] \notin HalfDone, pc'[c] \notin HalfDone \cup {"lookDisk", "adopt"},
         UNCHANGED <<memory, faults>>
  PROVE  MemInv'
<1>1. \A d \in Calls : d = c
  BY DEF OneCall
<1> QED BY <1>1 DEF MemInv, HalfDone, Remembers, memory

LEMMA MemLook ==
  ASSUME OneCall, TypeOK, LocalsOK, MemInv, NEW c \in Calls, Look(c) \/ LookDisk(c) \/ Adopt(c)
  PROVE  MemInv'
<1>1. CallsType /\ \A d \in Calls : d = c
  BY DEF OneCall, TypeOK
<1>2. CASE Look(c) /\ lastCart # None
  <2>1. pc[c] = "look" /\ UNCHANGED <<memory, faults>> /\ Found(c, lastCart)
    BY <1>2 DEF Look, At
  <2>2. pc'[c] \notin HalfDone \cup {"lookDisk", "adopt"}
    BY <2>1, FoundMoves DEF HalfDone
  <2> QED BY <2>1, <2>2, MemQuiet DEF HalfDone
<1>3. CASE Look(c) /\ lastCart = None
  <2>1. pc[c] = "look" /\ pc'[c] = "lookDisk" /\ UNCHANGED <<lastCart, diskCart, faults>>
    BY <1>1, <1>3, StepMoves DEF Look, At, memory
  <2> QED BY <1>1, <1>3, <2>1 DEF MemInv, HalfDone, Remembers
<1>4. CASE LookDisk(c)
  <2>1. pc[c] = "lookDisk" /\ UNCHANGED <<lastCart, diskCart>>
    BY <1>4 DEF LookDisk, At, memory
  <2>2. CASE FileFails
    BY <2>2, FileWritten DEF MemInv
  <2>3. CASE Found(c, None) /\ UNCHANGED faults
    <3>1. pc'[c] \notin HalfDone \cup {"lookDisk", "adopt"}
      BY <2>1, <2>3, FoundMoves DEF HalfDone
    <3> QED BY <2>1, <2>3, <3>1, MemQuiet DEF HalfDone, memory
  <2>4. CASE Goto(c, "adopt", [job[c] EXCEPT !.cw = diskCart]) /\ UNCHANGED faults
    <3>1. pc'[c] = "adopt" /\ job'[c].cw = diskCart
      BY <1>1, <2>4, GotoMoves DEF CallsType, Jobs
    <3> QED BY <1>1, <2>1, <2>4, <3>1 DEF MemInv, HalfDone, Remembers
  <2> QED BY <1>4, <2>2, <2>3, <2>4 DEF LookDisk
<1>5. CASE Adopt(c)
  <2>1. /\ pc[c] = "adopt" /\ UNCHANGED <<diskCart, faults>>
        /\ lastCart' = job[c].cw /\ Found(c, job[c].cw)
    BY <1>5 DEF Adopt, At
  <2>2. pc'[c] \notin HalfDone \cup {"lookDisk", "adopt"}
    BY <2>1, FoundMoves DEF HalfDone
  <2> QED BY <1>1, <2>1, <2>2 DEF MemInv, HalfDone
<1> QED BY <1>2, <1>3, <1>4, <1>5

LEMMA MemWrite ==
  ASSUME OneCall, TypeOK, LocalsOK, MemInv, NEW c \in Calls,
         Record(c) \/ Save(c) \/ Forget(c) \/ ForgetDisk(c)
  PROVE  MemInv'
<1>1. CallsType /\ \A d \in Calls : d = c
  BY DEF OneCall, TypeOK
<1>2. CASE Record(c)
  <2>1. pc'[c] = "save" /\ lastCart' = job'[c].cw
    BY <1>1, <1>2, GotoMoves DEF Record, CallsType, Jobs
  <2> QED BY <1>1, <2>1 DEF MemInv, HalfDone
<1>3. CASE Save(c)
  <2>1. pc[c] = "save" /\ pc'[c] \in {"mint", "idle"} /\ lastCart' = lastCart
    BY <1>1, <1>3, StepMoves, ReturnMoves DEF Save, At
  <2>2. faults'.lost # 0 \/ (diskCart' = job[c].cw /\ UNCHANGED faults)
    BY <1>3, FileWritten DEF Save
  <2> QED BY <1>1, <2>1, <2>2 DEF MemInv, HalfDone
<1>4. CASE Forget(c)
  <2>1. pc'[c] = "forgetDisk" /\ lastCart' = None
    BY <1>1, <1>4, StepMoves DEF Forget
  <2> QED BY <1>1, <2>1 DEF MemInv, HalfDone
<1>5. CASE ForgetDisk(c)
  <2>1. pc[c] = "forgetDisk" /\ pc'[c] \in {"readd", "idle"} /\ lastCart' = lastCart
    BY <1>1, <1>5, StepMoves, ReturnMoves DEF ForgetDisk, At
  <2>2. faults'.lost # 0 \/ (diskCart' = None /\ UNCHANGED faults)
    BY <1>5, FileWritten DEF ForgetDisk, DropFile
  <2> QED BY <1>1, <2>1, <2>2 DEF MemInv, HalfDone
<1> QED BY <1>2, <1>3, <1>4, <1>5

LEMMA AfterMarkMoves ==
  ASSUME CallsType, NEW c \in Calls, AfterMark(c)
  PROVE  pc'[c] \in {"clearIM", "idle"}
BY StepMoves, ReturnMoves DEF AfterMark

LEMMA MemMark ==
  ASSUME OneCall, TypeOK, LocalsOK, MemInv, NEW c \in Calls,
         MarkMem(c) \/ MarkLoad(c) \/ MarkSave(c)
  PROVE  MemInv'
<1>1. CallsType /\ (\A d \in Calls : d = c) /\ None \notin CartWrites
  BY NoneAssumption DEF OneCall, TypeOK
<1>2. CASE MarkMem(c)
  <2>1. /\ pc[c] = "markMem" /\ pc'[c] = "markLoad" /\ UNCHANGED <<diskCart, faults>>
        /\ lastCart' = IF lastCart = None THEN None ELSE Placed(lastCart)
    BY <1>1, <1>2, StepMoves DEF MarkMem, At, Placed
  <2>2. lastCart # None => lastCart' # None
    BY <1>1, <2>1 DEF TypeOK, MemoryType, CartWrites, Placed
  <2>3. faults.lost = 0 /\ Remembers => lastCart = diskCart
    BY <1>1, <2>1 DEF MemInv, HalfDone
  <2> QED BY <1>1, <2>1, <2>2, <2>3 DEF MemInv, HalfDone, Remembers
<1>3. CASE MarkLoad(c)
  <2>1. pc[c] = "markLoad" /\ UNCHANGED <<lastCart, diskCart>>
    BY <1>3 DEF MarkLoad, At, memory
  <2>2. CASE FileFails
    BY <2>2, FileWritten DEF MemInv
  <2>3. CASE diskCart = None /\ AfterMark(c) /\ UNCHANGED faults
    <3>1. pc'[c] \in {"clearIM", "idle"}
      BY <1>1, <2>3, AfterMarkMoves
    <3> QED BY <1>1, <2>1, <2>3, <3>1 DEF MemInv, HalfDone, Remembers
  <2>4. CASE /\ diskCart # None /\ UNCHANGED faults
             /\ Goto(c, "markSave", [job[c] EXCEPT !.cw = diskCart])
    <3>1. pc'[c] = "markSave" /\ job'[c].cw = diskCart
      BY <1>1, <2>4, GotoMoves DEF CallsType, Jobs
    <3>2. faults.lost = 0 /\ Remembers => lastCart = Placed(diskCart)
      BY <2>1, <2>4 DEF MemInv, Remembers
    <3> QED BY <1>1, <2>1, <2>4, <3>1, <3>2 DEF MemInv, HalfDone, Remembers
  <2> QED BY <1>3, <2>2, <2>3, <2>4 DEF MarkLoad
<1>4. CASE MarkSave(c)
  <2>1. pc[c] = "markSave" /\ pc'[c] \in {"clearIM", "idle"} /\ lastCart' = lastCart
    BY <1>1, <1>4, AfterMarkMoves DEF MarkSave, At
  <2>2. faults'.lost # 0 \/ (diskCart' = Placed(job[c].cw) /\ UNCHANGED faults)
    BY <1>4, FileWritten DEF MarkSave, Placed
  <2> QED BY <1>1, <2>1, <2>2 DEF MemInv, HalfDone, Remembers
<1> QED BY <1>2, <1>3, <1>4

\* Every other step of a call leaves the memory alone and keeps a bookkeeping going.
Away(c) ==
  /\ pc[c] \notin HalfDone
  /\ pc'[c] \notin HalfDone \cup {"lookDisk", "adopt", "resync"}
  /\ UNCHANGED <<memory, faults, now>>
  /\ \A i \in ConfIds : Booking(c, i) => Booking(c, i)'

LEMMA CartAway ==
  ASSUME TypeOK, LocalsOK, NEW c \in Calls,
         UpdateCart(c) \/ Inspect(c) \/ Evict(c) \/ Readd(c) \/ ClearCart(c)
           \/ IMUpdateCart(c) \/ PrepareOrder(c) \/ Resync(c) \/ OrderPreset(c)
           \/ IMPrepareOrder(c)
  PROVE  Away(c)
<1> USE DEF Away, Booking, BookLabels, HalfDone, At, Begins
<1>0. CallsType
  BY DEF TypeOK
<1>1. CASE UpdateCart(c)
  <2>1. UNCHANGED calls \/ \E l \in {"record", "inspect"} : \E j : Goto(c, l, j)
    BY <1>1 DEF UpdateCart
  <2>2. pc'[c] \in {"record", "inspect"} \cup {pc[c]}
    BY <1>0, <2>1, GotoMoves, StayMoves
  <2> QED BY <1>1, <2>2 DEF UpdateCart
<1>2. CASE Inspect(c)
  BY <1>0, <1>2, StepMoves, ReturnMoves DEF Inspect
<1>3. CASE Evict(c)
  BY <1>0, <1>3, StepMoves, ReturnMoves DEF Evict
<1>4. CASE Readd(c)
  BY <1>0, <1>4, StepMoves, ReturnMoves DEF Readd
<1>5. CASE ClearCart(c)
  BY <1>0, <1>5, GotoMoves, StayMoves DEF ClearCart
<1>6. CASE IMUpdateCart(c)
  BY <1>0, <1>6, GotoMoves, StayMoves DEF IMUpdateCart
<1>7. CASE PrepareOrder(c)
  <2>1. \E j : Goto(c, "look", j)
    BY <1>7 DEF PrepareOrder
  <2>2. pc'[c] = "look"
    BY <1>0, <2>1, GotoMoves
  <2> QED BY <1>7, <2>2 DEF PrepareOrder
<1>8. CASE Resync(c)
  BY <1>0, <1>8, GotoMoves, ReturnMoves DEF Resync
<1>9. CASE OrderPreset(c)
  <2>1. UNCHANGED calls \/ \E j : Goto(c, "record", j)
    BY <1>9 DEF OrderPreset
  <2>2. pc'[c] \in {"record"} \cup {pc[c]}
    BY <1>0, <2>1, GotoMoves, StayMoves
  <2> QED BY <1>9, <2>2 DEF OrderPreset
<1>10. CASE IMPrepareOrder(c)
  <2>1. \E j : Goto(c, "mint", j)
    BY <1>10 DEF IMPrepareOrder
  <2>2. pc'[c] = "mint"
    BY <1>0, <2>1, GotoMoves
  <2> QED BY <1>10, <2>2 DEF IMPrepareOrder
<1> QED BY <1>1, <1>2, <1>3, <1>4, <1>5, <1>6, <1>7, <1>8, <1>9, <1>10

LEMMA BookAway ==
  ASSUME TypeOK, LocalsOK, NEW c \in Calls,
         Active(c) \/ History(c) \/ Taste(c) \/ ClearIM(c) \/ SweepCart(c) \/ Settle(c)
  PROVE  Away(c)
<1> USE DEF Away, Booking, BookLabels, HalfDone, At
<1>0. CallsType /\ job[c] \in Jobs
  BY DEF TypeOK, CallsType
<1>1. CASE Active(c)
  <2>1. \/ pc'[c] = "look" /\ job'[c] = [job[c] EXCEPT !.then = "history"]
        \/ pc'[c] = "markMem" /\ job'[c] = job[c]
    BY <1>0, <1>1, GotoMoves, StepMoves DEF Active
  <2>2. job'[c].tool = job[c].tool /\ job'[c].ord = job[c].ord
    BY <1>0, <2>1 DEF Jobs
  <2> QED BY <1>1, <2>1, <2>2 DEF Active
<1>2. CASE History(c)
  <2>1. pc'[c] = "look" /\ job'[c] = [job[c] EXCEPT !.then = "taste"]
    BY <1>0, <1>2, GotoMoves DEF History
  <2>2. job'[c].tool = job[c].tool /\ job'[c].ord = job[c].ord
    BY <1>0, <2>1 DEF Jobs
  <2> QED BY <1>2, <2>1, <2>2 DEF History
<1>3. CASE Taste(c)
  BY <1>0, <1>3, StepMoves DEF Taste
<1>4. CASE ClearIM(c)
  BY <1>0, <1>4, ReturnMoves DEF ClearIM
<1>5. CASE SweepCart(c)
  BY <1>0, <1>5, StepMoves DEF SweepCart
<1>6. CASE Settle(c)
  BY <1>0, <1>6, StepMoves DEF Settle
<1> QED BY <1>1, <1>2, <1>3, <1>4, <1>5, <1>6

LEMMA OrderAway ==
  ASSUME TypeOK, LocalsOK, NEW c \in Calls,
         Mint(c) \/ TakePending(c) \/ Verify(c) \/ PlaceUPI(c) \/ Hold(c) \/ PlaceCOD(c)
           \/ Check(c) \/ Poll(c) \/ Discard(c) \/ ClaimConfirm(c) \/ Confirm(c)
           \/ Release(c)
  PROVE  Away(c)
<1> USE DEF Away, Booking, BookLabels, HalfDone, At, Begins
<1>0. CallsType
  BY DEF TypeOK
<1>1. CASE Mint(c)
  BY <1>0, <1>1, ReturnMoves DEF Mint
<1>2. CASE TakePending(c)
  <2>1. UNCHANGED calls \/ \E j : Goto(c, "verify", j)
    BY <1>2 DEF TakePending
  <2>2. pc'[c] \in {"verify"} \cup {pc[c]}
    BY <1>0, <2>1, GotoMoves, StayMoves
  <2> QED BY <1>2, <2>2 DEF TakePending
<1>3. CASE Verify(c)
  BY <1>0, <1>3, StepMoves, ReturnMoves DEF Verify
<1>4. CASE PlaceUPI(c)
  <2>1. Return(c) \/ Step(c, "cod") \/ \E j : Goto(c, "hold", j)
    BY <1>4 DEF PlaceUPI, PlaceFails
  <2>2. pc'[c] \in {"idle", "cod", "hold"}
    BY <1>0, <2>1, GotoMoves, StepMoves, ReturnMoves
  <2> QED BY <1>4, <2>2 DEF PlaceUPI
<1>5. CASE Hold(c)
  BY <1>0, <1>5, ReturnMoves DEF Hold
<1>6. CASE PlaceCOD(c)
  <2>1. Return(c) \/ Step(c, "active")
    BY <1>6 DEF PlaceCOD, PlaceFails
  <2>2. pc'[c] \in {"idle", "active"}
    BY <1>0, <2>1, StepMoves, ReturnMoves
  <2> QED BY <1>6, <2>2 DEF PlaceCOD
<1>7. CASE Check(c)
  BY <1>0, <1>7, GotoMoves DEF Check
<1>8. CASE Poll(c)
  BY <1>0, <1>8, StepMoves, ReturnMoves DEF Poll
<1>9. CASE Discard(c)
  BY <1>0, <1>9, ReturnMoves DEF Discard
<1>10. CASE ClaimConfirm(c)
  BY <1>0, <1>10, GotoMoves DEF ClaimConfirm
<1>11. CASE Confirm(c)
  BY <1>0, <1>11, StepMoves DEF Confirm
<1>12. CASE Release(c)
  BY <1>0, <1>12, ReturnMoves DEF Release
<1> QED BY <1>1, <1>2, <1>3, <1>4, <1>5, <1>6, <1>7, <1>8, <1>9, <1>10, <1>11, <1>12

OnMemory(c) ==
  \/ Look(c) \/ LookDisk(c) \/ Adopt(c) \/ Record(c) \/ Save(c) \/ Forget(c)
  \/ ForgetDisk(c) \/ MarkMem(c) \/ MarkLoad(c) \/ MarkSave(c)

LEMMA StepsAway ==
  ASSUME TypeOK, LocalsOK, NEW c \in Calls, Start(c) \/ Continue(c)
  PROVE  OnMemory(c) \/ Away(c)
BY CartAway, BookAway, OrderAway DEF Start, Continue, OnMemory

LEMMA MemNext ==
  ASSUME OneCall, IInv, MemInv, Next
  PROVE  MemInv'
<1>1. TypeOK /\ LocalsOK
  BY DEF IInv
<1>2. ASSUME NEW c \in Calls, Start(c) \/ Continue(c) PROVE MemInv'
  <2>1. CASE Away(c)
    BY <2>1, MemQuiet DEF Away
  <2>2. CASE OnMemory(c)
    BY <1>1, <2>2, MemLook, MemWrite, MemMark DEF OnMemory
  <2> QED BY <1>1, <1>2, <2>1, <2>2, StepsAway
<1>3. ASSUME Environment PROVE MemInv'
  <2>1. CASE Restart
    <3>1. ~Remembers'
      BY <1>1, <2>1 DEF Restart, Remembers, TypeOK, WorldType
    <3>2. \A c \in Calls : pc'[c] = "idle"
      BY <2>1 DEF Restart
    <3> QED BY <3>1, <3>2 DEF MemInv
  <2>2. CASE Pay \/ PayFails \/ Tick \/ ForeignEdit
    <3>1. /\ UNCHANGED <<lastCart, diskCart, pc, job>>
          /\ faults'.lost = faults.lost /\ faults'.restarts = faults.restarts
      BY <1>1, <2>2 DEF Pay, PayFails, Tick, ForeignEdit, memory, calls, TypeOK, WorldType
    <3> QED BY <3>1 DEF MemInv, Remembers
  <2> QED BY <1>3, <2>1, <2>2 DEF Environment
<1> QED BY <1>2, <1>3 DEF Next

\* What Undisturbed allows: only the file errors and restarts still to come end it.
LEMMA FaultsGrow ==
  ASSUME TypeOK, LocalsOK, NEW c \in Calls, Start(c) \/ Continue(c)
  PROVE  Undisturbed' => Undisturbed /\ ~FileFails
<1>1. FileFails => faults'.lost # 0
  BY FileWritten
<1>2. faults'.lost = 0 => faults.lost = 0
  <2>1. CASE Look(c) \/ LookDisk(c) \/ Adopt(c) \/ Record(c) \/ Save(c) \/ Forget(c)
             \/ ForgetDisk(c) \/ MarkMem(c) \/ MarkLoad(c) \/ MarkSave(c)
    <3>1. UNCHANGED faults \/ FileFails
      BY <2>1 DEF Look, LookDisk, Adopt, Record, Save, Forget, ForgetDisk, DropFile, FileIs,
                  MarkMem, MarkLoad, MarkSave
    <3> QED BY <1>1, <3>1
  <2> QED BY <2>1, CartAway, BookAway, OrderAway DEF Start, Continue, Away
<1> QED BY <1>1, <1>2, CallClock DEF SameClock, Undisturbed

LEMMA SeedQuiet ==
  ASSUME OneCall, SeedInv, NEW c \in Calls,
         UNCHANGED <<lastCart, landed, now>>, Undisturbed' => Undisturbed,
         pc'[c] # "resync", \A i \in ConfIds : Booking(c, i) => Booking(c, i)'
  PROVE  SeedInv'
<1>1. \A d \in Calls : d = c
  BY DEF OneCall
<1>2. \A i \in ConfIds, d \in Calls : Booking(d, i) => Booking(d, i)'
  BY <1>1
<1>3. \A i \in ConfIds : Known(i)' = Known(i)
  BY DEF Known
<1> QED BY <1>1, <1>2, <1>3 DEF SeedInv

LEMMA SeedMarked ==
  ASSUME OneCall, SeedInv, NEW c \in Calls, UNCHANGED <<landed, now>>,
         lastCart' = None \/ lastCart'.placed, pc'[c] # "resync"
  PROVE  SeedInv'
<1>1. \A d \in Calls : d = c
  BY DEF OneCall
<1> QED BY <1>1 DEF SeedInv

LEMMA SeedLook ==
  ASSUME OneCall, IInv, MemInv, SeedInv, NEW c \in Calls, Look(c) \/ LookDisk(c) \/ Adopt(c)
  PROVE  SeedInv'
<1>1. TypeOK /\ LocalsOK /\ CallsType /\ (\A d \in Calls : d = c) /\ UNCHANGED <<landed, now>>
  BY DEF OneCall, IInv, TypeOK, Look, LookDisk, Adopt, swiggy
<1>2. Undisturbed' => Undisturbed /\ ~FileFails
  BY <1>1, FaultsGrow DEF Continue
<1>3. ASSUME NEW cw, Found(c, cw), lastCart' = lastCart, cw = lastCart \/ cw = None
      PROVE  SeedInv'
  <2>1. /\ pc'[c] \in {"history", "taste", "resync", "mint"}
        /\ pc'[c] = "resync" => Rebuilds(job[c], cw) /\ job[c].tool \in Preparers
        /\ job[c].tool \in Orderers => pc'[c] \in {"history", "taste"}
        /\ job'[c] = [job[c] EXCEPT !.cw = cw]
    BY <1>1, <1>3, FoundMoves DEF Look, LookDisk, Adopt, At
  <2>2. job'[c].tool = job[c].tool /\ job'[c].ord = job[c].ord /\ job'[c].cw = cw
    BY <1>1, <2>1 DEF CallsType, Jobs
  <2>3. \A i \in ConfIds : Booking(c, i) => Booking(c, i)'
    BY <2>1, <2>2 DEF Booking, BookLabels
  <2>4. CASE pc'[c] # "resync"
    BY <1>1, <1>2, <1>3, <2>3, <2>4, SeedQuiet
  <2>5. CASE pc'[c] = "resync"
    <3>1. /\ cw = lastCart /\ lastCart # None /\ ~lastCart.placed
          /\ \A i \in ConfIds, d \in Calls : ~Booking(d, i)
      BY <1>1, <1>3, <2>1, <2>5 DEF Rebuilds, Booking, Preparers, Orderers
    <3>2. \A i \in ConfIds : Known(i)' = Known(i)
      BY <1>1 DEF Known
    <3>3. Undisturbed' => \A i \in ConfIds : Known(i) => lastCart.at >= landed[i].at
      BY <1>2, <3>1 DEF SeedInv
    <3>4. \A d \in Calls : job'[d].cw = lastCart
      BY <1>1, <2>2, <3>1
    <3> QED BY <1>1, <1>2, <1>3, <3>2, <3>3, <3>4 DEF SeedInv
  <2> QED BY <2>4, <2>5
<1>4. ASSUME pc'[c] = "lookDisk", job'[c] = job[c], pc[c] = "look", lastCart' = lastCart
      PROVE  SeedInv'
  <2>1. \A i \in ConfIds : Booking(c, i) => Booking(c, i)'
    BY <1>4 DEF Booking, BookLabels
  <2> QED BY <1>1, <1>2, <1>4, <2>1, SeedQuiet
<1>5. CASE Look(c)
  <2>1. lastCart' = lastCart /\ pc[c] = "look"
    BY <1>5 DEF Look, memory, At
  <2>2. CASE lastCart # None
    BY <1>3, <1>5, <2>1, <2>2 DEF Look
  <2>3. CASE lastCart = None
    BY <1>1, <1>4, <1>5, <2>1, <2>3, StepMoves DEF Look
  <2> QED BY <2>2, <2>3
<1>6. ASSUME ~Undisturbed' PROVE SeedInv'
  BY <1>1, <1>6 DEF SeedInv
<1>7. CASE LookDisk(c)
  <2>1. lastCart' = lastCart /\ pc[c] = "lookDisk"
    BY <1>7 DEF LookDisk, memory, At
  <2>2. Undisturbed => diskCart = None
    BY <1>1, <2>1 DEF Undisturbed, MemInv, Remembers, HalfDone
  <2> QED BY <1>2, <1>3, <1>6, <1>7, <2>1, <2>2 DEF LookDisk
<1>8. CASE Adopt(c)
  <2>1. pc[c] = "adopt" /\ job[c].cw # None
    BY <1>1, <1>8 DEF Adopt, At, LocalsOK, LocalsAt
  <2>2. ~Undisturbed
    BY <1>1, <2>1 DEF Undisturbed, MemInv, Remembers, HalfDone
  <2> QED BY <1>2, <1>6, <2>2
<1> QED BY <1>5, <1>7, <1>8

LEMMA SeedMemory ==
  ASSUME OneCall, IInv, MemInv, SeedInv, NEW c \in Calls, OnMemory(c)
  PROVE  SeedInv'
<1>1. TypeOK /\ LocalsOK /\ CallsType /\ (\A d \in Calls : d = c) /\ UNCHANGED <<landed, now>>
  BY DEF OneCall, IInv, TypeOK, OnMemory, Look, LookDisk, Adopt, Record, Save, Forget,
         ForgetDisk, MarkMem, MarkLoad, MarkSave, swiggy
<1>2. Undisturbed' => Undisturbed
  BY <1>1, FaultsGrow DEF Continue, OnMemory
<1>3. CASE Record(c)
  <2>1. pc'[c] = "save" /\ lastCart'.at = now
    <3>1. job[c].cw \in CartWrites
      BY <1>1, <1>3 DEF Record, At, LocalsOK, LocalsAt, CallsType, Jobs
    <3>2. lastCart' = [job[c].cw EXCEPT !.at = now] /\ pc'[c] = "save"
      BY <1>1, <1>3, GotoMoves DEF Record
    <3> QED BY <3>1, <3>2 DEF CartWrites
  <2> QED BY <1>1, <2>1 DEF SeedInv, Known
<1>4. CASE Save(c) \/ ForgetDisk(c) \/ MarkLoad(c) \/ MarkSave(c)
  <2>1. pc[c] \in HalfDone /\ lastCart' = lastCart
    BY <1>4 DEF Save, ForgetDisk, MarkLoad, MarkSave, At, HalfDone, memory
  <2>2. pc'[c] # "resync"
    BY <1>1, <1>4, StepMoves, ReturnMoves, GotoMoves, AfterMarkMoves
       DEF Save, ForgetDisk, MarkLoad, MarkSave
  <2>3. \A i \in ConfIds : ~Booking(c, i)
    BY <2>1 DEF HalfDone, Booking, BookLabels
  <2> QED BY <1>1, <1>2, <2>1, <2>2, <2>3, SeedQuiet
<1>5. CASE Forget(c)
  BY <1>1, <1>5, StepMoves, SeedMarked DEF Forget
<1>6. CASE MarkMem(c)
  <2>1. lastCart' = None \/ lastCart'.placed
    BY <1>1, <1>6 DEF MarkMem, TypeOK, MemoryType, CartWrites
  <2> QED BY <1>1, <1>6, <2>1, StepMoves, SeedMarked DEF MarkMem
<1> QED BY <1>3, <1>4, <1>5, <1>6, SeedLook DEF OnMemory

\* An order lands: unknown, or known to the call that now does its bookkeeping.
LEMMA SeedLand ==
  ASSUME OneCall, TypeOK, SeedInv, NEW c \in Calls, Away(c), Undisturbed' => Undisturbed,
         NEW known \in BOOLEAN, Land(c, known),
         NEW id \in ConfIds, id = job[c].ord.id, known => Booking(c, id)'
  PROVE  SeedInv'
<1>1. (\A d \in Calls : d = c) /\ UNCHANGED <<lastCart, now>> /\ pc'[c] # "resync"
  BY DEF OneCall, Away, memory
<1>2. /\ landed'[id].at = now /\ landed'[id].known = known
      /\ \A i \in ConfIds : i # id => landed'[i] = landed[i]
  BY DEF Land, TypeOK, SwiggyType
<1>3. now \in Nat
  BY DEF TypeOK, WorldType
<1>4. \A i \in ConfIds : landed'[i] # None => landed'[i].at <= now'
  BY <1>1, <1>2, <1>3 DEF SeedInv
<1>5. \A i \in ConfIds : Known(i)' /\ i # id => Known(i)
  BY <1>2 DEF Known
<1>6. Known(id)' => Booking(c, id)'
  BY <1>2 DEF Known
<1>7. ASSUME Undisturbed', NEW i \in ConfIds, Known(i)'
      PROVE  /\ lastCart' # None /\ ~lastCart'.placed /\ (\A d \in Calls : ~Booking(d, i)')
                  => lastCart'.at >= landed'[i].at
             /\ \A d \in Calls : pc'[d] = "resync" => job'[d].cw.at >= landed'[i].at
  <2>1. CASE i = id
    BY <1>1, <1>6, <1>7, <2>1
  <2>2. CASE i # id
    BY <1>1, <1>2, <1>5, <1>7, <2>2 DEF SeedInv, Away
  <2> QED BY <2>1, <2>2
<1> QED BY <1>4, <1>7 DEF SeedInv

LEMMA SeedOrders ==
  ASSUME OneCall, IInv, SeedInv, NEW c \in Calls, PlaceUPI(c) \/ PlaceCOD(c) \/ Confirm(c)
  PROVE  SeedInv'
<1>1. TypeOK /\ LocalsOK /\ CallsType /\ (\A d \in Calls : d = c) /\ Away(c)
  BY OrderAway DEF OneCall, IInv, TypeOK
<1>2. Undisturbed' => Undisturbed
  BY <1>1, FaultsGrow DEF Continue
<1>3. job[c] \in Jobs /\ job[c].ord \in PendingOrders /\ job[c].tool \in Orderers
  BY <1>1 DEF PlaceUPI, PlaceCOD, Confirm, At, CallsType, LocalsOK, LocalsAt, Jobs
<1>4. PICK id \in ConfIds : id = job[c].ord.id
  BY <1>3 DEF PendingOrders
<1>5. ASSUME landed' = landed PROVE SeedInv'
  BY <1>1, <1>2, <1>5, SeedQuiet DEF Away, memory
<1>6. ASSUME Land(c, FALSE) PROVE SeedInv'
  BY <1>1, <1>2, <1>4, <1>6, SeedLand
<1>7. CASE PlaceUPI(c)
  BY <1>5, <1>6, <1>7 DEF PlaceUPI, PlaceFails
<1>8. CASE Land(c, TRUE) /\ Step(c, "active")
  <2>1. pc'[c] = "active" /\ job'[c] = job[c]
    BY <1>1, <1>8, StepMoves
  <2>2. Booking(c, id)'
    BY <1>3, <1>4, <2>1 DEF Booking, BookLabels
  <2> QED BY <1>1, <1>2, <1>4, <1>8, <2>2, SeedLand
<1>9. CASE PlaceCOD(c)
  BY <1>5, <1>6, <1>8, <1>9 DEF PlaceCOD, PlaceFails
<1>10. CASE Confirm(c)
  <2>1. CASE landed' = landed
    BY <1>5, <2>1
  <2>2. CASE /\ landed' = [landed EXCEPT ![job[c].ord.id].known = TRUE]
             /\ \E l \in {"sweepCart", "settle"} : Step(c, l)
    <3>1. landed[id] # None
      BY <1>4, <1>10 DEF Confirm, At, IInv, LandedInv
    <3>2. /\ landed'[id].at = landed[id].at
          /\ \A i \in ConfIds : i # id => landed'[i] = landed[i]
      BY <1>1, <1>4, <2>2, <3>1 DEF TypeOK, SwiggyType, LandedOrders
    <3>3. pc'[c] \in {"sweepCart", "settle"} /\ job'[c] = job[c]
      BY <1>1, <2>2, StepMoves
    <3>4. Booking(c, id)'
      BY <1>3, <1>4, <3>3 DEF Booking, BookLabels
    <3>5. lastCart' = lastCart /\ now' = now
      BY <1>1 DEF Away, memory
    <3>6. \A i \in ConfIds : Known(i)' /\ i # id => Known(i)
      BY <3>2 DEF Known
    <3>7. \A d \in Calls : pc'[d] # "resync"
      BY <1>1, <3>3
    <3>8. \A i \in ConfIds : landed'[i] # None => landed'[i].at <= now'
      BY <3>1, <3>2, <3>5 DEF SeedInv
    <3>9. ASSUME NEW i \in ConfIds, i # id, Booking(c, i) PROVE Booking(c, i)'
      BY <1>1, <3>9 DEF Away
    <3>10. ASSUME Undisturbed', NEW i \in ConfIds, Known(i)', lastCart' # None,
                  ~lastCart'.placed, \A d \in Calls : ~Booking(d, i)'
           PROVE  lastCart'.at >= landed'[i].at
      BY <1>1, <1>2, <3>2, <3>4, <3>5, <3>6, <3>9, <3>10 DEF SeedInv
    <3> QED BY <3>7, <3>8, <3>10 DEF SeedInv
  <2> QED BY <1>10, <2>1, <2>2 DEF Confirm
<1> QED BY <1>7, <1>9, <1>10

LEMMA SeedNext ==
  ASSUME OneCall, IInv, MemInv, SeedInv, Next
  PROVE  SeedInv'
<1>1. TypeOK /\ LocalsOK
  BY DEF IInv
<1>2. ASSUME NEW c \in Calls, Start(c) \/ Continue(c) PROVE SeedInv'
  <2>1. Undisturbed' => Undisturbed
    BY <1>1, <1>2, FaultsGrow
  <2>2. CASE OnMemory(c)
    BY <2>2, SeedMemory
  <2>3. CASE PlaceUPI(c) \/ PlaceCOD(c) \/ Confirm(c)
    BY <2>3, SeedOrders
  <2>4. CASE Away(c) /\ landed' = landed
    BY <2>1, <2>4, SeedQuiet DEF Away, memory
  <2>5. Away(c) => \/ landed' = landed \/ PlaceUPI(c) \/ PlaceCOD(c) \/ Confirm(c)
                   \/ OnMemory(c)
    <3>1. CASE Start(c)
      BY <3>1 DEF Start, UpdateCart, ClearCart, IMUpdateCart, PrepareOrder, IMPrepareOrder,
                  OrderPreset, TakePending, Check, ClaimConfirm, swiggy
    <3>2. CASE Inspect(c) \/ Evict(c) \/ Readd(c) \/ Resync(c) \/ Mint(c) \/ Verify(c)
               \/ Hold(c) \/ Active(c) \/ History(c) \/ Taste(c) \/ ClearIM(c) \/ Poll(c)
               \/ Discard(c) \/ SweepCart(c) \/ Release(c) \/ Settle(c)
      BY <3>2 DEF Inspect, Evict, Readd, Resync, Mint, Verify, Hold, Active, History, Taste,
                  ClearIM, Poll, Discard, SweepCart, Release, Settle, swiggy
    <3> QED BY <1>2, <3>1, <3>2 DEF Continue, OnMemory
  <2> QED BY <1>1, <1>2, <2>2, <2>3, <2>4, <2>5, StepsAway
<1>3. ASSUME Environment PROVE SeedInv'
  <2>1. /\ landed' = landed /\ (lastCart' = lastCart \/ lastCart' = None)
        /\ now' \in Nat /\ now \in Nat /\ now' >= now
        /\ Undisturbed' => Undisturbed /\ UNCHANGED <<pc, job>>
    BY <1>1, <1>3 DEF Environment, Pay, PayFails, ForeignEdit, Tick, Restart, Undisturbed,
       TypeOK, WorldType, swiggy, memory, calls
  <2>2. \A i \in ConfIds : landed[i] # None => landed[i].at \in Nat
    BY <1>1 DEF TypeOK, SwiggyType, LandedOrders
  <2>3. \A i \in ConfIds : landed'[i] # None => landed'[i].at <= now'
    BY <2>1, <2>2 DEF SeedInv
  <2>4. CASE ~Undisturbed'
    BY <2>3, <2>4 DEF SeedInv
  <2>5. CASE Undisturbed'
    BY <2>1, <2>3, <2>5 DEF SeedInv, Known, Booking
  <2> QED BY <2>4, <2>5
<1> QED BY <1>2, <1>3 DEF Next

LEMMA MemSeedInvariance ==
  ASSUME OneCall
  PROVE  Spec => [](IInv /\ MemInv /\ SeedInv)
<1>1. Init => MemInv /\ SeedInv
  BY DEF Init, MemInv, SeedInv, Remembers, Known
<1>2. IInv /\ MemInv /\ SeedInv /\ [Next]_vars => MemInv' /\ SeedInv'
  <2> SUFFICES ASSUME IInv, MemInv, SeedInv, [Next]_vars
               PROVE  MemInv' /\ SeedInv'
    OBVIOUS
  <2>1. CASE Next
    BY <2>1, MemNext, SeedNext
  <2>2. CASE UNCHANGED vars
    BY <2>2 DEF vars, swiggy, memory, calls, MemInv, SeedInv, Remembers, Known, Booking,
                Undisturbed
  <2> QED BY <2>1, <2>2
<1> QED BY <1>1, <1>2, Invariance, PTL DEF Spec

\* With one call at a time, and as long as no read or write of cart-cache.json failed,
\* the memory of the last cart write and its file agree whenever no call runs
\* (recordCartWrite, clearCartWrite, markCartWritePlaced), unless the process has
\* restarted and not looked at the file yet.
THEOREM FileAgrees ==
  ASSUME OneCall
  PROVE  Spec => []MemoryOnDisk
<1>1. IInv /\ MemInv /\ SeedInv => MemoryOnDisk
  <2> SUFFICES ASSUME MemInv, Quiet, faults.lost = 0, Remembers
               PROVE  lastCart = diskCart
    BY DEF MemoryOnDisk, Remembers
  <2> QED BY DEF MemInv, Quiet, HalfDone
<1> QED BY <1>1, MemSeedInvariance, PTL

\* With one call at a time, no rebuild of prepare_order replays a cart write that an
\* order known to this process has consumed: the write was marked, cleared or replaced
\* before the next prepare_order looks (markCartWritePlaced, recordCartWrite).
THEOREM OrdersNeverSeed ==
  ASSUME OneCall
  PROVE  Spec => []PlacedNeverSeeds
<1>1. IInv /\ MemInv /\ SeedInv => PlacedNeverSeeds
  <2> SUFFICES ASSUME IInv, SeedInv, NEW c \in Calls, NEW i \in ConfIds, Replaying(c),
                      landed[i] # None, landed[i].known, Undisturbed,
                      job[c].cw.at < landed[i].at
               PROVE  FALSE
    BY DEF PlacedNeverSeeds
  <2>1. job[c].cw.at >= landed[i].at
    BY DEF SeedInv, Known, Replaying
  <2>2. job[c].cw.at \in Nat /\ landed[i].at \in Nat
    BY DEF IInv, TypeOK, CallsType, SwiggyType, LocalsOK, LocalsAt, Jobs, CartWrites,
           LandedOrders, Replaying
  <2> QED BY <2>1, <2>2
<1> QED BY <1>1, MemSeedInvariance, PTL
=============================================================================
