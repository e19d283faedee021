--------------------------- MODULE CallDataProofs ---------------------------
(***************************************************************************)
(* What TLAPS proves of CallData, for any error codes, any length of       *)
(* Subversion's chains and any arguments: the heap nodes of a copied error *)
(* have one owner, JavaScript is told the whole chain, and nothing is left *)
(* of it.                                                                  *)
(***************************************************************************)
EXTENDS CallData, TLAPS

Steps == {"none", "failed", "copied", "moved", "thrown", "copied_in", "stored", "caught",
          "told", "handled", "over"}

\* The links a chain may have.
Raised == Links \cup {[code |-> TypeErrorCode, traced |-> FALSE]}

\* The heap: every node has one owner, nodes without an owner are deleted.
HeapInv ==
    /\ node \in Seq(Int)
    /\ heap \subseteq 1..Len(node)
    /\ object \in [Objects -> [code : Int, children : Seq(Nat)]]
    /\ OwnedOnce
    /\ \A n \in heap : \E o \in Objects : n \in ToSet(object[o].children)

\* The objects that hold the error.
Holders ==
    CASE step = "copied" -> {"local"}
      [] step \in {"moved", "thrown"} -> {"thrown"}
      [] step = "copied_in" -> {"thrown", "stored"}
      [] step \in {"stored", "handled"} -> {"stored"}
      [] step \in {"caught", "told"} -> IF copying THEN {"stored", "caught"} ELSE {"stored"}
      [] OTHER -> {}

\* An object holds the error Subversion raised.
Holds(o) ==
    /\ object[o].code = raised[1].code
    /\ Len(object[o].children) = Len(raised) - 1
    /\ \A i \in 1..(Len(raised) - 1) : node[object[o].children[i]] = raised[i + 1].code

\* The strengthening: the heap, and where the error is at each step.
ErrorInv ==
    /\ HeapInv
    /\ copying \in BOOLEAN
    /\ step \in Steps
    /\ raised \in Seq(Raised)
    /\ step # "none" => raised # <<>>
    /\ svn = IF step \in {"failed", "copied"} THEN raised ELSE <<>>
    /\ \A o \in Objects \ Holders : object[o].children = <<>>
    /\ \A o \in Holders : Holds(o)
    /\ step \notin {"told", "handled", "over"} => js = <<>>
    /\ ErrorTold

\* And that a call is over only when its error is.
IInv ==
    /\ ErrorInv
    /\ stage \in {"none", "converting", "working", "in_svn", "returned"} => step = "none"
    /\ stage \in {"none", "converting"} => memory = {}
    /\ stage = "over" => memory = {} /\ step \in {"none", "over"}
    /\ stage = "failed" => step # "none"

-----------------------------------------------------------------------------
(* The three things that happen to the heap. *)

\* New nodes are numbered after the old ones.
LEMMA New ==
    ASSUME node \in Seq(Int), NEW codes \in Seq(Int)
    PROVE  /\ NewNodes(codes) \in Seq(Nat)
           /\ Len(NewNodes(codes)) = Len(codes)
           /\ \A i \in 1..Len(codes) : NewNodes(codes)[i] = Len(node) + i
           /\ ToSet(NewNodes(codes)) = (Len(node) + 1)..(Len(node) + Len(codes))
           /\ node \o codes \in Seq(Int)
           /\ Len(node \o codes) = Len(node) + Len(codes)
           /\ \A i \in 1..Len(node) : (node \o codes)[i] = node[i]
           /\ \A i \in 1..Len(codes) : (node \o codes)[Len(node) + i] = codes[i]
<1>1. Len(codes) \in Nat /\ Len(node) \in Nat
  OBVIOUS
<1>2. NewNodes(codes) \in [1..Len(codes) -> Nat]
  BY <1>1 DEF NewNodes
<1>3. NewNodes(codes) \in Seq(Nat) /\ Len(NewNodes(codes)) = Len(codes)
  BY <1>1, <1>2
<1>4. \A i \in 1..Len(codes) : NewNodes(codes)[i] = Len(node) + i
  BY DEF NewNodes
<1>5. ToSet(NewNodes(codes)) = (Len(node) + 1)..(Len(node) + Len(codes))
  <2>1. ToSet(NewNodes(codes)) = {Len(node) + i : i \in 1..Len(codes)}
    BY <1>2, <1>4 DEF ToSet
  <2>2. ASSUME NEW n \in (Len(node) + 1)..(Len(node) + Len(codes))
        PROVE  n - Len(node) \in 1..Len(codes) /\ n = Len(node) + (n - Len(node))
    BY <1>1
  <2>3. ASSUME NEW i \in 1..Len(codes)
        PROVE  Len(node) + i \in (Len(node) + 1)..(Len(node) + Len(codes))
    BY <1>1
  <2> QED  BY <2>1, <2>2, <2>3
<1>6. /\ node \o codes \in Seq(Int)
      /\ Len(node \o codes) = Len(node) + Len(codes)
      /\ \A i \in 1..Len(node) : (node \o codes)[i] = node[i]
      /\ \A i \in 1..Len(codes) : (node \o codes)[Len(node) + i] = codes[i]
  OBVIOUS
<1> QED  BY <1>3, <1>4, <1>5, <1>6

\* An object is made, with new nodes for its children.
LEMMA Making ==
    ASSUME HeapInv, NEW o \in Objects, object[o].children = <<>>,
           NEW code \in Int, NEW codes \in Seq(Int), Allocate(codes),
           object' \in [Objects -> [code : Int, children : Seq(Nat)]],
           object'[o].code = code, object'[o].children = NewNodes(codes),
           \A p \in Objects \ {o} : object'[p] = object[p]
    PROVE  HeapInv'
<1> DEFINE new == NewNodes(codes)
<1>1. /\ node \in Seq(Int)
      /\ heap \subseteq 1..Len(node)
      /\ object \in [Objects -> [code : Int, children : Seq(Nat)]]
      /\ Len(node) \in Nat /\ Len(codes) \in Nat
  BY DEF HeapInv
<1>2. /\ new \in Seq(Nat)
      /\ Len(new) = Len(codes)
      /\ \A i \in 1..Len(codes) : new[i] = Len(node) + i
      /\ ToSet(new) = (Len(node) + 1)..(Len(node) + Len(codes))
  BY <1>1, New
<1>3. /\ node' \in Seq(Int)
      /\ Len(node') = Len(node) + Len(codes)
      /\ \A i \in 1..Len(node) : node'[i] = node[i]
      /\ \A i \in 1..Len(codes) : node'[Len(node) + i] = codes[i]
  BY <1>1, New DEF Allocate
<1>4. heap' = heap \cup ToSet(new)
  BY DEF Allocate
<1> HIDE DEF new
<1>6. /\ object' \in [Objects -> [code : Int, children : Seq(Nat)]]
      /\ object'[o].code = code /\ object'[o].children = new
      /\ \A p \in Objects \ {o} : object'[p] = object[p]
  BY DEF new
<1>7. \A p \in Objects : ToSet(object[p].children) \subseteq 1..Len(node)
  BY <1>1 DEF HeapInv, OwnedOnce
<1>8. \A p \in Objects : ToSet(object[p].children) \cap ToSet(new) = {}
  BY <1>1, <1>2, <1>7
<1>9. heap' \subseteq 1..Len(node')
  <2>1. ASSUME NEW n \in heap
        PROVE  n \in 1..Len(node')
    BY <1>1, <1>3
  <2>2. ASSUME NEW n \in ToSet(new)
        PROVE  n \in 1..Len(node')
    <3>1. n \in (Len(node) + 1)..(Len(node) + Len(codes))
      BY <1>2
    <3> QED  BY <1>1, <1>3, <3>1
  <2> QED  BY <1>4, <2>1, <2>2
<1>10. OwnedOnce'
  <2>1. ASSUME NEW p \in Objects
        PROVE  /\ ToSet(object'[p].children) \subseteq heap'
               /\ \A i, j \in DOMAIN object'[p].children :
                     object'[p].children[i] = object'[p].children[j] => i = j
    <3>1. CASE p = o
      <4>1. DOMAIN new = 1..Len(codes)
        BY <1>2
      <4>2. \A i, j \in DOMAIN new : new[i] = new[j] => i = j
        BY <1>1, <1>2, <4>1, SMTT(30)
      <4> QED  BY <1>4, <1>6, <3>1, <4>2
    <3>2. CASE p # o
      BY <1>4, <1>6, <3>2 DEF HeapInv, OwnedOnce
    <3> QED  BY <3>1, <3>2
  <2>2. ASSUME NEW p \in Objects, NEW q \in Objects \ {p}
        PROVE  ToSet(object'[p].children) \cap ToSet(object'[q].children) = {}
    BY <1>6, <1>8 DEF HeapInv, OwnedOnce
  <2> QED  BY <2>1, <2>2 DEF OwnedOnce
<1>11. \A n \in heap' : \E p \in Objects : n \in ToSet(object'[p].children)
  <2>1. ASSUME NEW n \in heap
        PROVE  \E p \in Objects : n \in ToSet(object'[p].children)
    <3>1. PICK p \in Objects : n \in ToSet(object[p].children)
      BY DEF HeapInv
    <3>2. p # o
      BY <3>1 DEF ToSet
    <3> QED  BY <1>6, <3>1, <3>2
  <2> QED  BY <1>4, <1>6, <2>1
<1> QED  BY <1>3, <1>6, <1>9, <1>10, <1>11 DEF HeapInv

\* An object is destroyed, with its nodes.
LEMMA Destroying ==
    ASSUME HeapInv, NEW o \in Objects, Destroy(o), UNCHANGED node
    PROVE  /\ HeapInv'
           /\ object'[o].children = <<>>
           /\ \A p \in Objects \ {o} : object'[p] = object[p]
<1>1. /\ object' \in [Objects -> [code : Int, children : Seq(Nat)]]
      /\ object'[o].children = <<>>
      /\ \A p \in Objects \ {o} : object'[p] = object[p]
  BY DEF HeapInv, Destroy, Gone
<1>2. heap' = heap \ ToSet(object[o].children)
  BY DEF Destroy, Delete
<1>3. ToSet(object'[o].children) = {} /\ DOMAIN object'[o].children = {}
  BY <1>1 DEF ToSet
<1>4. OwnedOnce'
  <2>1. ASSUME NEW p \in Objects
        PROVE  /\ ToSet(object'[p].children) \subseteq heap'
               /\ \A i, j \in DOMAIN object'[p].children :
                     object'[p].children[i] = object'[p].children[j] => i = j
               /\ \A q \in Objects \ {p} :
                     ToSet(object'[p].children) \cap ToSet(object'[q].children) = {}
    <3>1. CASE p = o
      BY <1>3, <3>1
    <3>2. CASE p # o
      BY <1>1, <1>2, <1>3, <3>2 DEF HeapInv, OwnedOnce
    <3> QED  BY <3>1, <3>2
  <2> QED  BY <2>1 DEF OwnedOnce
<1>5. \A n \in heap' : \E p \in Objects : n \in ToSet(object'[p].children)
  BY <1>1, <1>2 DEF HeapInv
<1> QED  BY <1>1, <1>2, <1>4, <1>5 DEF HeapInv

\* The children of one object become those of another.
LEMMA Moving ==
    ASSUME HeapInv, NEW o \in Objects, NEW p \in Objects \ {o}, object[p].children = <<>>,
           object' \in [Objects -> [code : Int, children : Seq(Nat)]],
           object'[p] = object[o], object'[o].children = <<>>,
           \A q \in Objects \ {o, p} : object'[q] = object[q],
           UNCHANGED <<node, heap>>
    PROVE  HeapInv'
<1>1. ToSet(object'[o].children) = {} /\ DOMAIN object'[o].children = {}
  BY DEF ToSet
<1>2. OwnedOnce'
  <2>1. ASSUME NEW q \in Objects
        PROVE  /\ ToSet(object'[q].children) \subseteq heap'
               /\ \A i, j \in DOMAIN object'[q].children :
                     object'[q].children[i] = object'[q].children[j] => i = j
               /\ \A r \in Objects \ {q} :
                     ToSet(object'[q].children) \cap ToSet(object'[r].children) = {}
    <3>1. CASE q = o
      BY <1>1, <3>1
    <3>2. CASE q = p
      <4>1. /\ ToSet(object[o].children) \subseteq heap
            /\ \A i, j \in DOMAIN object[o].children :
                  object[o].children[i] = object[o].children[j] => i = j
        BY DEF HeapInv, OwnedOnce
      <4>2. ASSUME NEW r \in Objects \ {o, p}
            PROVE  ToSet(object'[p].children) \cap ToSet(object'[r].children) = {}
        BY DEF HeapInv, OwnedOnce
      <4>3. ToSet(object'[p].children) \cap ToSet(object'[o].children) = {}
        BY <1>1
      <4> QED  BY <3>2, <4>1, <4>2, <4>3, ZenonT(60)
    <3>3. CASE q \in Objects \ {o, p}
      BY <1>1, <3>3, ZenonT(60) DEF HeapInv, OwnedOnce
    <3> QED  BY <3>1, <3>2, <3>3
  <2> QED  BY <2>1 DEF OwnedOnce
<1>3. \A n \in heap' : \E q \in Objects : n \in ToSet(object'[q].children)
  <2>1. ASSUME NEW n \in heap
        PROVE  \E q \in Objects : n \in ToSet(object'[q].children)
    <3>1. PICK q \in Objects : n \in ToSet(object[q].children)
      BY DEF HeapInv
    <3>2. q # p
      BY <3>1 DEF ToSet
    <3>3. CASE q = o
      BY <3>1, <3>3
    <3>4. CASE q # o
      BY <3>1, <3>2, <3>4
    <3> QED  BY <3>3, <3>4
  <2> QED  BY <2>1
<1> QED  BY <1>2, <1>3 DEF HeapInv

-----------------------------------------------------------------------------
(* The steps of an error. *)

\* An object whose nodes are left alone holds what it held.
LEMMA Kept ==
    ASSUME NEW p \in Objects, Holds(p), raised \in Seq(Raised),
           object \in [Objects -> [code : Int, children : Seq(Nat)]],
           UNCHANGED raised, object'[p] = object[p],
           \A i \in DOMAIN object[p].children :
              node'[object[p].children[i]] = node[object[p].children[i]]
    PROVE  Holds(p)'
<1>1. Len(object[p].children) = Len(raised) - 1 /\ object[p].children \in Seq(Nat)
  BY DEF Holds
<1>2. DOMAIN object[p].children = 1..(Len(raised) - 1)
  BY <1>1
<1> QED  BY <1>1, <1>2 DEF Holds

\* What an object holds, as a sequence of codes.
LEMMA Contents ==
    ASSUME HeapInv, NEW o \in Objects
    PROVE  /\ ChildCodes(o) \in Seq(Int)
           /\ Len(ChildCodes(o)) = Len(object[o].children)
           /\ \A i \in 1..Len(object[o].children) :
                 /\ object[o].children[i] \in 1..Len(node)
                 /\ ChildCodes(o)[i] = node[object[o].children[i]]
           /\ object[o].code \in Int
           /\ object[o].children \in Seq(Nat)
<1>1. object[o].children \in Seq(Nat) /\ object[o].code \in Int
  BY DEF HeapInv
<1>2. Len(object[o].children) \in Nat
      /\ DOMAIN object[o].children = 1..Len(object[o].children)
  BY <1>1
<1>3. ASSUME NEW i \in 1..Len(object[o].children)
      PROVE  object[o].children[i] \in 1..Len(node) /\ node[object[o].children[i]] \in Int
  <2>1. object[o].children[i] \in 1..Len(node)
    BY <1>2 DEF HeapInv, OwnedOnce, ToSet
  <2> QED  BY <2>1 DEF HeapInv
<1>4. ChildCodes(o) \in [1..Len(object[o].children) -> Int]
  BY <1>3 DEF ChildCodes
<1>5. ChildCodes(o) \in Seq(Int) /\ Len(ChildCodes(o)) = Len(object[o].children)
  BY <1>2, <1>4
<1>6. ASSUME NEW i \in 1..Len(object[o].children)
      PROVE  ChildCodes(o)[i] = node[object[o].children[i]]
  BY DEF ChildCodes
<1> QED  BY <1>1, <1>3, <1>5, <1>6

\* A new object with the codes of the error holds it.
LEMMA Filling ==
    ASSUME HeapInv, raised \in Seq(Raised), raised # <<>>, UNCHANGED raised,
           NEW to \in Objects, object[to].children = <<>>,
           NEW code \in Int, code = raised[1].code,
           NEW codes \in Seq(Int), Len(codes) = Len(raised) - 1,
           \A i \in 1..(Len(raised) - 1) : codes[i] = raised[i + 1].code,
           Allocate(codes),
           object' \in [Objects -> [code : Int, children : Seq(Nat)]],
           object'[to].code = code, object'[to].children = NewNodes(codes),
           \A p \in Objects \ {to} : object'[p] = object[p]
    PROVE  HeapInv' /\ Holds(to)'
<1>1. HeapInv'
  BY Making
<1>2. /\ Len(NewNodes(codes)) = Len(codes)
      /\ \A i \in 1..Len(codes) : NewNodes(codes)[i] = Len(node) + i
      /\ \A i \in 1..Len(codes) : node'[Len(node) + i] = codes[i]
  BY New DEF Allocate, HeapInv
<1>3. ASSUME NEW i \in 1..(Len(raised) - 1)
      PROVE  node'[object'[to].children[i]] = raised[i + 1].code
  <2>1. i \in 1..Len(codes)
    OBVIOUS
  <2>2. object'[to].children[i] = Len(node) + i
    BY <1>2, <2>1
  <2>3. node'[Len(node) + i] = codes[i]
    BY <1>2, <2>1
  <2> QED  BY <2>2, <2>3
<1>4. Len(object'[to].children) = Len(raised) - 1
  BY <1>2
<1> QED  BY <1>1, <1>3, <1>4 DEF Holds

\* What one object held another holds, or the same one still.
LEMMA HandedOver ==
    ASSUME NEW o \in Objects, NEW p \in Objects, Holds(o), object'[p] = object[o],
           UNCHANGED <<raised, node>>
    PROVE  Holds(p)'
BY DEF Holds

\* Copying, one holder becomes two.
LEMMA Copying ==
    ASSUME HeapInv, raised \in Seq(Raised), raised # <<>>,
           NEW from \in Objects, NEW to \in Objects \ {from}, object[to].children = <<>>,
           Holds(from), Copy(from, to), UNCHANGED raised
    PROVE  /\ HeapInv'
           /\ \A p \in Objects \ {to} : object'[p] = object[p]
           /\ Holds(from)' /\ Holds(to)'
<1> DEFINE codes == ChildCodes(from)
           code == object[from].code
<1>1. /\ codes \in Seq(Int)
      /\ Len(codes) = Len(raised) - 1
      /\ \A i \in 1..(Len(raised) - 1) : codes[i] = raised[i + 1].code
      /\ code \in Int
  BY Contents DEF Holds
<1>2. /\ object \in [Objects -> [code : Int, children : Seq(Nat)]]
      /\ NewNodes(codes) \in Seq(Nat)
  BY <1>1, New DEF HeapInv
<1>3. /\ Allocate(codes)
      /\ object' = [object EXCEPT ![to] = [object[from] EXCEPT !.children = NewNodes(codes)]]
  BY DEF Copy
<1>7. /\ object' \in [Objects -> [code : Int, children : Seq(Nat)]]
      /\ object'[to].code = code /\ object'[to].children = NewNodes(codes)
      /\ \A p \in Objects \ {to} : object'[p] = object[p]
  BY <1>2, <1>3
<1> HIDE DEF codes, code
<1>4. HeapInv' /\ Holds(to)'
  <2>1. code = raised[1].code
    BY DEF Holds, code
  <2> QED  BY <1>1, <1>3, <1>7, <2>1, Filling
<1>5. /\ node' = node \o codes
      /\ \A i \in 1..Len(node) : node'[i] = node[i]
  BY <1>1, <1>3, New DEF Allocate, HeapInv
<1>6. Holds(from)'
  <2>1. \A i \in DOMAIN object[from].children : object[from].children[i] \in 1..Len(node)
    <3>1. ToSet(object[from].children) \subseteq 1..Len(node)
      BY DEF HeapInv, OwnedOnce
    <3> QED  BY <3>1 DEF ToSet
  <2> QED  BY <1>2, <1>5, <1>7, <2>1, Kept
<1> QED  BY <1>4, <1>6, <1>7

\* Before any error there is none to hold.
LEMMA ErrorStarts == ErrorInit => ErrorInv
<1> SUFFICES ASSUME ErrorInit
             PROVE  ErrorInv
  OBVIOUS
<1>0. /\ copying \in BOOLEAN /\ step = "none" /\ raised = <<>> /\ svn = <<>>
      /\ object = [o \in Objects |-> Gone] /\ node = <<>> /\ heap = {} /\ js = <<>>
  BY DEF ErrorInit
<1>1. object \in [Objects -> [code : Int, children : Seq(Nat)]]
  BY <1>0 DEF Gone
<1>2. \A o \in Objects : object[o].children = <<>> /\ ToSet(object[o].children) = {}
  BY <1>0 DEF Gone, ToSet
<1>3. OwnedOnce
  BY <1>0, <1>2 DEF OwnedOnce
<1>4. HeapInv
  BY <1>0, <1>1, <1>3 DEF HeapInv
<1>5. Holders = {}
  BY <1>0 DEF Holders
<1> QED  BY <1>0, <1>2, <1>4, <1>5 DEF ErrorInv, Steps, ErrorTold

\* Whatever is raised has a code.
LEMMA RaisedCode == \A l \in Raised : l.code \in Int
<1>1. ASSUME NEW l \in Links
      PROVE  l.code \in Int
  <2>1. l.code \in Codes
    BY DEF Links
  <2>2. \A c \in Codes : c \in Int
    BY CodesAssumption
  <2> QED  BY <2>1, <2>2
<1> QED  BY <1>1 DEF Raised, TypeErrorCode

\* A function on 1..n is a sequence.
LEMMA IsSeq ==
    ASSUME NEW S, NEW n \in Nat, NEW f \in [1..n -> S]
    PROVE  f \in Seq(S) /\ Len(f) = n
OBVIOUS

\* Objects may change as long as their children do not.
LEMMA SameChildren ==
    ASSUME HeapInv, object' \in [Objects -> [code : Int, children : Seq(Nat)]],
           \A o \in Objects : object'[o].children = object[o].children,
           UNCHANGED <<node, heap>>
    PROVE  HeapInv'
<1>1. OwnedOnce'
  <2>1. ASSUME NEW o \in Objects
        PROVE  /\ ToSet(object'[o].children) \subseteq heap'
               /\ \A i, j \in DOMAIN object'[o].children :
                     object'[o].children[i] = object'[o].children[j] => i = j
               /\ \A p \in Objects \ {o} :
                     ToSet(object'[o].children) \cap ToSet(object'[p].children) = {}
    <3>1. object'[o].children = object[o].children
      OBVIOUS
    <3>2. \A p \in Objects : ToSet(object'[p].children) = ToSet(object[p].children)
      OBVIOUS
    <3>3. /\ ToSet(object[o].children) \subseteq heap
          /\ \A i, j \in DOMAIN object[o].children :
                object[o].children[i] = object[o].children[j] => i = j
          /\ \A p \in Objects \ {o} :
                ToSet(object[o].children) \cap ToSet(object[p].children) = {}
      BY DEF HeapInv, OwnedOnce
    <3> QED  BY <3>1, <3>2, <3>3
  <2> QED  BY <2>1 DEF OwnedOnce
<1>2. \A n \in heap' : \E o \in Objects : n \in ToSet(object'[o].children)
  <2>1. \A p \in Objects : ToSet(object'[p].children) = ToSet(object[p].children)
    OBVIOUS
  <2> QED  BY <2>1 DEF HeapInv
<1> QED  BY <1>1, <1>2 DEF HeapInv

\* And of course may stay as they are.
LEMMA HeapKept == HeapInv /\ UNCHANGED <<object, node, heap>> => HeapInv'
BY DEF HeapInv, OwnedOnce

\* Every step of an error keeps the heap and hands the error on.
LEMMA ErrorGoesOn == ErrorInv /\ ErrorStep => ErrorInv'
<1> SUFFICES ASSUME ErrorInv, ErrorStep
             PROVE  ErrorInv'
  OBVIOUS
<1>0. /\ HeapInv
      /\ copying \in BOOLEAN
      /\ object \in [Objects -> [code : Int, children : Seq(Nat)]]
      /\ raised \in Seq(Raised)
      /\ step # "none" => raised # <<>>
      /\ svn = IF step \in {"failed", "copied"} THEN raised ELSE <<>>
      /\ \A o \in Objects \ Holders : object[o].children = <<>>
      /\ \A o \in Holders : Holds(o)
      /\ step \notin {"told", "handled", "over"} => js = <<>>
      /\ ErrorTold
  BY DEF ErrorInv, HeapInv
<1>1. CASE \E chain \in Chains : RaiseError(chain)
  <2>1. PICK chain \in Chains : RaiseError(chain)
    BY <1>1
  <2>2. PICK n \in 1..MaxChain : chain \in [1..n -> Links]
    BY <2>1 DEF Chains
  <2>3. /\ step = "none" /\ step' = "failed" /\ raised' = chain /\ svn' = chain
        /\ UNCHANGED <<copying, object, node, heap, js>>
    BY <2>1 DEF RaiseError
  <2>4. n \in Nat /\ n >= 1
    BY <2>2, MaxChainAssumption
  <2>5. chain \in Seq(Raised) /\ chain # <<>>
    <3>1. chain \in [1..n -> Raised]
      BY <2>2 DEF Raised
    <3>2. chain \in Seq(Raised) /\ Len(chain) = n
      BY <2>4, <3>1, IsSeq
    <3> QED  BY <2>4, <3>2
  <2>6. HeapInv'
    BY <1>0, <2>3, HeapKept
  <2>7. Holders = {} /\ Holders' = {}
    BY <2>3 DEF Holders
  <2>8. \A o \in Objects \ Holders' : object'[o].children = <<>>
    BY <1>0, <2>3, <2>7
  <2>9. js' = <<>> /\ ErrorTold'
    BY <1>0, <2>3 DEF ErrorTold
  <2> QED  BY <1>0, <2>3, <2>5, <2>6, <2>7, <2>8, <2>9 DEF ErrorInv, Steps
<1>2. CASE ThrowTypeError
  <2>1. /\ step = "none" /\ step' = "thrown"
        /\ raised' = <<[code |-> TypeErrorCode, traced |-> FALSE]>>
        /\ object' = [object EXCEPT !["thrown"] = [code |-> TypeErrorCode, children |-> <<>>]]
        /\ UNCHANGED <<copying, svn, node, heap, js>>
    BY <1>2 DEF ThrowTypeError
  <2>2. Holders = {} /\ Holders' = {"thrown"}
    BY <2>1 DEF Holders
  <2>3. \A o \in Objects : object[o].children = <<>>
    BY <1>0, <2>2
  <2>4. "thrown" \in Objects /\ TypeErrorCode \in Int
    BY DEF Objects, TypeErrorCode
  <2>5. /\ object' \in [Objects -> [code : Int, children : Seq(Nat)]]
        /\ object'["thrown"].code = TypeErrorCode
        /\ \A o \in Objects : object'[o].children = object[o].children
    BY <1>0, <2>1, <2>3, <2>4
  <2>6. HeapInv'
    BY <1>0, <2>1, <2>5, SameChildren
  <2>7. raised' \in Seq(Raised) /\ Len(raised') = 1 /\ raised'[1].code = TypeErrorCode
    BY <2>1 DEF Raised
  <2>8. raised' # <<>>
    BY <2>7
  <2>9. Holds("thrown")'
    BY <2>3, <2>4, <2>5, <2>7 DEF Holds
  <2>10. js' = <<>> /\ ErrorTold'
    BY <1>0, <2>1 DEF ErrorTold
  <2> QED  BY <1>0, <2>1, <2>2, <2>3, <2>5, <2>6, <2>7, <2>8, <2>9, <2>10
           DEF ErrorInv, Steps
<1>3. CASE CopyError
  <2> DEFINE codes == Purged(svn)
  <2>1. /\ step = "failed" /\ step' = "copied"
        /\ Allocate(Tail(codes))
        /\ object' = [object EXCEPT !["local"] =
              [code |-> Head(codes), children |-> NewNodes(Tail(codes))]]
        /\ UNCHANGED <<copying, raised, svn, js>>
    BY <1>3 DEF CopyError
  <2>2. Holders = {} /\ Holders' = {"local"}
    BY <2>1 DEF Holders
  <2>3. svn = raised /\ raised # <<>> /\ Len(raised) \in Nat /\ Len(raised) >= 1
    BY <1>0, <2>1
  <2>4. /\ codes \in Seq(Int) /\ Len(codes) = Len(raised)
        /\ \A i \in 1..Len(raised) : codes[i] = raised[i].code
    <3>1. ASSUME NEW i \in 1..Len(raised)
          PROVE  raised[i].code \in Int
      BY <1>0, RaisedCode
    <3>2. codes \in [1..Len(raised) -> Int]
      BY <2>3, <3>1 DEF Purged
    <3>3. codes \in Seq(Int) /\ Len(codes) = Len(raised)
      BY <2>3, <3>2, IsSeq
    <3> QED  BY <2>3, <3>3 DEF Purged
  <2> DEFINE rest == Tail(codes)
             first == Head(codes)
  <2> HIDE DEF codes
  <2>5. /\ rest \in Seq(Int) /\ Len(rest) = Len(raised) - 1
        /\ \A i \in 1..(Len(raised) - 1) : rest[i] = raised[i + 1].code
        /\ first = raised[1].code /\ first \in Int
    BY <2>3, <2>4
  <2>6. /\ Allocate(rest)
        /\ object' = [object EXCEPT !["local"] = [code |-> first, children |-> NewNodes(rest)]]
    BY <2>1
  <2> HIDE DEF rest, first
  <2>7. NewNodes(rest) \in Seq(Nat)
    BY <1>0, <2>5, New DEF HeapInv
  <2>8. "local" \in Objects /\ object["local"].children = <<>>
    BY <1>0, <2>2 DEF Objects
  <2>9. /\ object' \in [Objects -> [code : Int, children : Seq(Nat)]]
        /\ object'["local"].code = first /\ object'["local"].children = NewNodes(rest)
        /\ \A p \in Objects \ {"local"} : object'[p] = object[p]
    BY <1>0, <2>5, <2>6, <2>7, <2>8
  <2>10. HeapInv' /\ Holds("local")'
    BY <1>0, <2>1, <2>3, <2>5, <2>6, <2>8, <2>9, Filling
  <2>11. js' = <<>> /\ ErrorTold'
    BY <1>0, <2>1 DEF ErrorTold
  <2>12. \A o \in Objects \ Holders' : object'[o].children = <<>>
    BY <1>0, <2>2, <2>9
  <2> QED  BY <1>0, <2>1, <2>2, <2>3, <2>10, <2>11, <2>12 DEF ErrorInv, Steps
<1>4. CASE Throw
  <2>1. /\ step = "copied" /\ step' = "moved" /\ svn' = <<>>
        /\ object' = [object EXCEPT !["thrown"] = object["local"], !["local"].children = <<>>]
        /\ UNCHANGED <<copying, raised, node, heap, js>>
    BY <1>4 DEF Throw, Move
  <2>2. Holders = {"local"} /\ Holders' = {"thrown"}
    BY <2>1 DEF Holders
  <2>3. "local" \in Objects /\ "thrown" \in Objects \ {"local"}
        /\ object["thrown"].children = <<>>
    BY <1>0, <2>2 DEF Objects
  <2>4. /\ object' \in [Objects -> [code : Int, children : Seq(Nat)]]
        /\ object'["thrown"] = object["local"]
        /\ object'["local"].children = <<>>
        /\ \A q \in Objects \ {"local", "thrown"} : object'[q] = object[q]
    BY <1>0, <2>1, <2>3
  <2>5. HeapInv'
    BY <1>0, <2>1, <2>3, <2>4, Moving
  <2>6. Holds("thrown")'
    BY <1>0, <2>1, <2>2, <2>3, <2>4, HandedOver
  <2>7. js' = <<>> /\ ErrorTold'
    BY <1>0, <2>1 DEF ErrorTold
  <2>8. \A o \in Objects \ Holders' : object'[o].children = <<>>
    BY <1>0, <2>2, <2>4
  <2> QED  BY <1>0, <2>1, <2>2, <2>5, <2>6, <2>7, <2>8 DEF ErrorInv, Steps
<1>5. CASE DestroyLocal
  <2>1. /\ step = "moved" /\ step' = "thrown" /\ Destroy("local")
        /\ UNCHANGED <<copying, raised, svn, node, js>>
    BY <1>5 DEF DestroyLocal
  <2>2. /\ Holders = {"thrown"}
        /\ Holders' = {"thrown"}
    BY <2>1 DEF Holders
  <2>3. "local" \in Objects
    BY DEF Objects
  <2>4. /\ HeapInv'
        /\ object'["local"].children = <<>>
        /\ \A p \in Objects \ {"local"} : object'[p] = object[p]
    BY <1>0, <2>1, <2>3, Destroying
  <2>5. ASSUME NEW p \in Holders'
        PROVE  Holds(p)'
    <3>1. p \in Objects \ {"local"} /\ p \in Holders
      BY <2>2 DEF Objects
    <3>2. object'[p] = object[p] /\ Holds(p)
      BY <1>0, <2>4, <3>1
    <3> QED  BY <2>1, <3>1, <3>2, HandedOver
  <2>6. \A p \in Objects \ Holders' : object'[p].children = <<>>
    BY <1>0, <2>2, <2>4
  <2>7. (step' \notin {"told", "handled", "over"} => js' = <<>>) /\ ErrorTold'
    BY <1>0, <2>1 DEF ErrorTold
  <2> QED  BY <1>0, <2>1, <2>4, <2>5, <2>6, <2>7 DEF ErrorInv, Steps
<1>6. CASE Store
  <2>1. step = "thrown" /\ UNCHANGED <<copying, raised, svn, js>>
    BY <1>6 DEF Store
  <2>2. Holders = {"thrown"} /\ Holds("thrown")
    BY <1>0, <2>1 DEF Holders
  <2>3. "thrown" \in Objects /\ "stored" \in Objects \ {"thrown"}
        /\ object["stored"].children = <<>>
    BY <1>0, <2>2 DEF Objects
  <2>4. js' = <<>> /\ ErrorTold'
    BY <1>0, <2>1 DEF ErrorTold
  <2>5. CASE copying
    <3>1. Copy("thrown", "stored") /\ step' = "copied_in"
      BY <1>6, <2>5 DEF Store
    <3>2. Holders' = {"thrown", "stored"}
      BY <3>1 DEF Holders
    <3>3. /\ HeapInv'
          /\ \A p \in Objects \ {"stored"} : object'[p] = object[p]
          /\ Holds("thrown")' /\ Holds("stored")'
      BY <1>0, <2>1, <2>2, <2>3, <3>1, Copying
    <3>4. \A o \in Objects \ Holders' : object'[o].children = <<>>
      BY <1>0, <2>2, <3>2, <3>3
    <3>5. \A o \in Holders' : Holds(o)'
      BY <3>2, <3>3
    <3> QED  BY <1>0, <2>1, <2>4, <3>1, <3>3, <3>4, <3>5 DEF ErrorInv, Steps
  <2>6. CASE ~copying
    <3>1. /\ object' = [object EXCEPT !["stored"] = object["thrown"], !["thrown"] = Gone]
          /\ step' = "stored"
          /\ UNCHANGED <<node, heap>>
      BY <1>6, <2>6 DEF Store
    <3>2. Holders' = {"stored"}
      BY <3>1 DEF Holders
    <3>3. /\ object' \in [Objects -> [code : Int, children : Seq(Nat)]]
          /\ object'["stored"] = object["thrown"]
          /\ object'["thrown"].children = <<>>
          /\ \A q \in Objects \ {"thrown", "stored"} : object'[q] = object[q]
      <4>1. Gone \in [code : Int, children : Seq(Nat)] /\ Gone.children = <<>>
        BY DEF Gone
      <4> QED  BY <1>0, <2>3, <3>1, <4>1
    <3>4. HeapInv'
      BY <1>0, <2>3, <3>1, <3>3, Moving
    <3>5. Holds("stored")'
      BY <2>1, <2>2, <2>3, <3>1, <3>3, HandedOver
    <3>6. \A o \in Objects \ Holders' : object'[o].children = <<>>
      BY <1>0, <2>2, <3>2, <3>3
    <3>7. \A o \in Holders' : Holds(o)'
      BY <3>2, <3>5
    <3> QED  BY <1>0, <2>1, <2>4, <3>1, <3>4, <3>6, <3>7 DEF ErrorInv, Steps
  <2> QED  BY <1>0, <2>5, <2>6
<1>7. CASE DestroyThrown
  <2>1. /\ step = "copied_in" /\ step' = "stored" /\ Destroy("thrown")
        /\ UNCHANGED <<copying, raised, svn, node, js>>
    BY <1>7 DEF DestroyThrown
  <2>2. /\ Holders = {"thrown", "stored"}
        /\ Holders' = {"stored"}
    BY <2>1 DEF Holders
  <2>3. "thrown" \in Objects
    BY DEF Objects
  <2>4. /\ HeapInv'
        /\ object'["thrown"].children = <<>>
        /\ \A p \in Objects \ {"thrown"} : object'[p] = object[p]
    BY <1>0, <2>1, <2>3, Destroying
  <2>5. ASSUME NEW p \in Holders'
        PROVE  Holds(p)'
    <3>1. p \in Objects \ {"thrown"} /\ p \in Holders
      BY <2>2 DEF Objects
    <3>2. object'[p] = object[p] /\ Holds(p)
      BY <1>0, <2>4, <3>1
    <3> QED  BY <2>1, <3>1, <3>2, HandedOver
  <2>6. \A p \in Objects \ Holders' : object'[p].children = <<>>
    BY <1>0, <2>2, <2>4
  <2>7. (step' \notin {"told", "handled", "over"} => js' = <<>>) /\ ErrorTold'
    BY <1>0, <2>1 DEF ErrorTold
  <2> QED  BY <1>0, <2>1, <2>4, <2>5, <2>6, <2>7 DEF ErrorInv, Steps
<1>8. CASE Rethrow
  <2>1. step = "stored" /\ step' = "caught" /\ UNCHANGED <<copying, raised, svn, js>>
    BY <1>8 DEF Rethrow
  <2>2. Holders = {"stored"} /\ Holds("stored")
    BY <1>0, <2>1 DEF Holders
  <2>3. "stored" \in Objects /\ "caught" \in Objects \ {"stored"}
        /\ object["caught"].children = <<>>
    BY <1>0, <2>2 DEF Objects
  <2>4. js' = <<>> /\ ErrorTold'
    BY <1>0, <2>1 DEF ErrorTold
  <2>5. CASE copying
    <3>1. Copy("stored", "caught")
      BY <1>8, <2>5 DEF Rethrow
    <3>2. Holders' = {"stored", "caught"}
      BY <2>1, <2>5 DEF Holders
    <3>3. /\ HeapInv'
          /\ \A p \in Objects \ {"caught"} : object'[p] = object[p]
          /\ Holds("stored")' /\ Holds("caught")'
      BY <1>0, <2>1, <2>2, <2>3, <3>1, Copying
    <3>4. \A o \in Objects \ Holders' : object'[o].children = <<>>
      BY <1>0, <2>2, <3>2, <3>3
    <3>5. \A o \in Holders' : Holds(o)'
      BY <3>2, <3>3
    <3> QED  BY <1>0, <2>1, <2>4, <3>3, <3>4, <3>5 DEF ErrorInv, Steps
  <2>6. CASE ~copying
    <3>1. UNCHANGED <<object, node, heap>>
      BY <1>8, <2>6 DEF Rethrow
    <3>2. Holders' = {"stored"}
      BY <2>1, <2>6 DEF Holders
    <3>3. HeapInv'
      BY <1>0, <3>1, HeapKept
    <3>4. \A o \in Objects \ Holders' : object'[o].children = <<>>
      BY <1>0, <2>2, <3>1, <3>2
    <3>5. \A o \in Holders' : Holds(o)'
      BY <2>1, <2>2, <2>3, <3>1, <3>2, HandedOver
    <3> QED  BY <1>0, <2>1, <2>4, <3>3, <3>4, <3>5 DEF ErrorInv, Steps
  <2> QED  BY <1>0, <2>5, <2>6
<1>9. CASE CopyToJavaScript
  <2>1. /\ step = "caught" /\ step' = "told"
        /\ js' = <<object[Caught].code>> \o ChildCodes(Caught)
        /\ UNCHANGED <<copying, raised, svn, object, node, heap>>
    BY <1>9 DEF CopyToJavaScript
  <2>2. HeapInv'
    BY <1>0, <2>1, HeapKept
  <2>3. Holders' = Holders
    BY <2>1 DEF Holders
  <2>4. Caught \in Objects /\ Caught \in Holders
    BY <2>1 DEF Caught, Objects, Holders
  <2>5. Holds(Caught) /\ raised # <<>> /\ Len(raised) \in Nat /\ Len(raised) >= 1
    BY <1>0, <2>1, <2>4
  <2> DEFINE c == Caught
             codes == ChildCodes(c)
  <2> HIDE DEF c
  <2>6. /\ codes \in Seq(Int) /\ Len(codes) = Len(raised) - 1
        /\ \A i \in 1..(Len(raised) - 1) : codes[i] = raised[i + 1].code
        /\ object[c].code = raised[1].code
    <3>1. c \in Objects /\ Holds(c)
      BY <2>4, <2>5 DEF c
    <3> QED  BY <1>0, <3>1, Contents DEF Holds
  <2>7. js' = <<object[c].code>> \o codes
    BY <2>1 DEF c
  <2> HIDE DEF codes
  <2>8. js' = Purged(raised)
    <3>1. Len(js') = Len(raised)
      BY <2>5, <2>6, <2>7
    <3>2. ASSUME NEW i \in 1..Len(raised)
          PROVE  js'[i] = raised[i].code
      <4>1. CASE i = 1
        BY <2>6, <2>7, <4>1
      <4>2. CASE i > 1
        BY <2>5, <2>6, <2>7, <4>2
      <4> QED  BY <4>1, <4>2
    <3>3. js' \in Seq(Int)
      <4>1. object[c].code \in Int
        BY <1>0, <2>4 DEF c
      <4> QED  BY <2>6, <2>7, <4>1
    <3>4. js' = [i \in 1..Len(raised) |-> js'[i]]
      BY <3>1, <3>3
    <3> QED  BY <3>2, <3>4 DEF Purged
  <2>9. ErrorTold'
    <3>1. Purged(raised)' = Purged(raised)
      BY <2>1 DEF Purged
    <3> QED  BY <2>1, <2>8, <3>1 DEF ErrorTold
  <2>10. \A o \in Holders' : Holds(o)'
    <3>1. \A o \in Holders : o \in Objects
      BY DEF Holders, Objects
    <3> QED  BY <1>0, <2>1, <2>3, <3>1, HandedOver
  <2> QED  BY <1>0, <2>1, <2>2, <2>3, <2>9, <2>10 DEF ErrorInv, Steps
<1>10. CASE DestroyCaught
  <2>1. /\ step = "told" /\ step' = "handled" /\ Destroy("caught")
        /\ UNCHANGED <<copying, raised, svn, node, js>>
    BY <1>10 DEF DestroyCaught
  <2>2. /\ Holders = IF copying THEN {"stored", "caught"} ELSE {"stored"}
        /\ Holders' = {"stored"}
    BY <2>1 DEF Holders
  <2>3. "caught" \in Objects
    BY DEF Objects
  <2>4. /\ HeapInv'
        /\ object'["caught"].children = <<>>
        /\ \A p \in Objects \ {"caught"} : object'[p] = object[p]
    BY <1>0, <2>1, <2>3, Destroying
  <2>5. ASSUME NEW p \in Holders'
        PROVE  Holds(p)'
    <3>1. p \in Objects \ {"caught"} /\ p \in Holders
      BY <2>2 DEF Objects
    <3>2. object'[p] = object[p] /\ Holds(p)
      BY <1>0, <2>4, <3>1
    <3> QED  BY <2>1, <3>1, <3>2, HandedOver
  <2>6. \A p \in Objects \ Holders' : object'[p].children = <<>>
    BY <1>0, <2>2, <2>4
  <2>7. (step' \notin {"told", "handled", "over"} => js' = <<>>) /\ ErrorTold'
    BY <1>0, <2>1 DEF ErrorTold
  <2> QED  BY <1>0, <2>1, <2>4, <2>5, <2>6, <2>7 DEF ErrorInv, Steps
<1>11. CASE DestroyStored
  <2>1. /\ step = "handled" /\ step' = "over" /\ Destroy("stored")
        /\ UNCHANGED <<copying, raised, svn, node, js>>
    BY <1>11 DEF DestroyStored
  <2>2. /\ Holders = {"stored"}
        /\ Holders' = {}
    BY <2>1 DEF Holders
  <2>3. "stored" \in Objects
    BY DEF Objects
  <2>4. /\ HeapInv'
        /\ object'["stored"].children = <<>>
        /\ \A p \in Objects \ {"stored"} : object'[p] = object[p]
    BY <1>0, <2>1, <2>3, Destroying
  <2>5. ASSUME NEW p \in Holders'
        PROVE  Holds(p)'
    <3>1. p \in Objects \ {"stored"} /\ p \in Holders
      BY <2>2 DEF Objects
    <3>2. object'[p] = object[p] /\ Holds(p)
      BY <1>0, <2>4, <3>1
    <3> QED  BY <2>1, <3>1, <3>2, HandedOver
  <2>6. \A p \in Objects \ Holders' : object'[p].children = <<>>
    BY <1>0, <2>2, <2>4
  <2>7. (step' \notin {"told", "handled", "over"} => js' = <<>>) /\ ErrorTold'
    BY <1>0, <2>1 DEF ErrorTold
  <2> QED  BY <1>0, <2>1, <2>4, <2>5, <2>6, <2>7 DEF ErrorInv, Steps
<1> QED
  BY <1>1, <1>2, <1>3, <1>4, <1>5, <1>6, <1>7, <1>8, <1>9, <1>10, <1>11 DEF ErrorStep

\* Steps that are none of the error's leave it alone.
LEMMA ErrorStays == ErrorInv /\ UNCHANGED errorVars => ErrorInv'
<1> SUFFICES ASSUME ErrorInv, UNCHANGED errorVars
             PROVE  ErrorInv'
  OBVIOUS
<1>1. UNCHANGED <<copying, step, raised, svn, object, node, heap, js>>
  BY DEF errorVars
<1>2. HeapInv'
  BY <1>1, HeapKept DEF ErrorInv
<1>3. Holders' = Holders
  BY <1>1 DEF Holders
<1>4. \A o \in Holders' : Holds(o)'
  BY <1>1, <1>3 DEF ErrorInv, Holds
<1>5. ErrorTold'
  BY <1>1 DEF ErrorInv, ErrorTold, Purged
<1> QED  BY <1>1, <1>2, <1>3, <1>4, <1>5 DEF ErrorInv

\* No step of an error leads back to where there is none.
LEMMA ErrorStarted == ErrorStep => step' # "none"
BY DEF ErrorStep, RaiseError, ThrowTypeError, CopyError, Throw, DestroyLocal, Store,
       DestroyThrown, Rethrow, CopyToJavaScript, DestroyCaught, DestroyStored

-----------------------------------------------------------------------------
(* The call around the error. *)

\* The strengthening is inductive.
LEMMA Starts == Init => IInv
<1> SUFFICES ASSUME Init
             PROVE  IInv
  OBVIOUS
<1>1. ErrorInit /\ stage = "none" /\ memory = {}
  BY DEF Init
<1>2. ErrorInv
  BY <1>1, ErrorStarts
<1>3. step = "none"
  BY <1>1 DEF ErrorInit
<1> QED  BY <1>1, <1>2, <1>3 DEF IInv

\* A step of a call is one of its error, or leaves the error alone.
LEMMA GoesOn == IInv /\ [Next]_vars => IInv'
<1> SUFFICES ASSUME IInv, [Next]_vars
             PROVE  IInv'
  OBVIOUS
<1>0. /\ ErrorInv
      /\ stage \in {"none", "converting", "working", "in_svn", "returned"} => step = "none"
      /\ stage \in {"none", "converting"} => memory = {}
      /\ stage = "over" => memory = {} /\ step \in {"none", "over"}
      /\ stage = "failed" => step # "none"
  BY DEF IInv
<1>1. CASE UNCHANGED vars
  <2>1. UNCHANGED errorVars /\ UNCHANGED <<stage, memory, step>>
    BY <1>1 DEF vars, errorVars
  <2>2. ErrorInv'
    BY <1>0, <2>1, ErrorStays
  <2> QED  BY <1>0, <2>1, <2>2 DEF IInv
<1>2. ASSUME UNCHANGED errorVars,
             \/ stage = "none" /\ stage' = "converting" /\ UNCHANGED memory
             \/ stage = "converting" /\ stage' = "over" /\ UNCHANGED memory
             \/ stage = "converting" /\ stage' = "working"
             \/ stage = "working" /\ stage' = "in_svn"
             \/ stage = "in_svn" /\ stage' = "returned"
             \/ stage = "returned" /\ stage' = "over" /\ memory' = {}
             \/ UNCHANGED <<stage, memory>>
      PROVE  IInv'
  <2>1. ErrorInv'
    BY <1>0, <1>2, ErrorStays
  <2>2. step' = step
    BY <1>2 DEF errorVars
  <2> QED  BY <1>0, <1>2, <2>1, <2>2 DEF IInv
<1>3. ASSUME ErrorStep, stage' = "failed"
      PROVE  IInv'
  <2>1. ErrorInv' /\ step' # "none"
    BY <1>0, <1>3, ErrorGoesOn, ErrorStarted
  <2> QED  BY <1>3, <2>1 DEF IInv
<1>4. CASE LoopThread
  <2>1. CASE \E m \in DOMAIN ParametersOf : Call(m)
    BY <1>2, <2>1 DEF Call
  <2>2. CASE \E v \in Inputs(Wanted.kind) : ConvertArgument(v)
    BY <1>2, <2>2 DEF ConvertArgument
  <2>3. CASE \E v \in Inputs(Wanted.kind) : ArgumentRefused(v)
    BY <1>2, <2>3 DEF ArgumentRefused
  <2>4. CASE QueueWork
    BY <1>2, <2>4 DEF QueueWork
  <2>5. CASE AfterWork
    BY <1>2, <2>5 DEF AfterWork
  <2>6. CASE AfterWorkRejects
    <3>1. ErrorStep /\ stage' = "failed"
      BY <2>6 DEF AfterWorkRejects, ErrorStep
    <3> QED  BY <1>3, <3>1
  <2>7. CASE WorkDeleted
    <3>1. ErrorStep /\ stage' = "over" /\ memory' = {} /\ step' = "over"
      BY <2>7 DEF WorkDeleted, DestroyStored, ErrorStep
    <3>2. ErrorInv'
      BY <1>0, <3>1, ErrorGoesOn
    <3> QED  BY <3>1, <3>2 DEF IInv
  <2> QED  BY <1>4, <2>1, <2>2, <2>3, <2>4, <2>5, <2>6, <2>7 DEF LoopThread
<1>5. CASE PoolThread
  <2>1. CASE ConvertForSvn
    BY <1>2, <2>1 DEF ConvertForSvn
  <2>2. CASE ConversionFails
    <3>1. ErrorStep /\ stage' = "failed"
      BY <2>2 DEF ConversionFails, ErrorStep
    <3> QED  BY <1>3, <3>1
  <2>3. CASE CallSvn
    BY <1>2, <2>3 DEF CallSvn
  <2>4. CASE \E chain \in Chains : NoAbsolutePath(chain)
    <3>1. ErrorStep /\ stage' = "failed"
      BY <2>4 DEF NoAbsolutePath, Leave, ErrorStep
    <3> QED  BY <1>3, <3>1
  <2>5. CASE \E chain \in Chains : SvnFails(chain)
    <3>1. ErrorStep /\ stage' = "failed"
      BY <2>5 DEF SvnFails, Leave, ErrorStep
    <3> QED  BY <1>3, <3>1
  <2>6. CASE \E line, revision \in Results : ReportLine(line, revision)
    BY <1>2, <2>6 DEF ReportLine
  <2>7. CASE \E n \in Results : SvnSucceeds(n)
    BY <1>2, <2>7 DEF SvnSucceeds, Leave
  <2>8. CASE ErrorTravels
    <3>1. ErrorStep /\ stage' = "failed"
      BY <2>8 DEF ErrorTravels, ErrorStep
    <3> QED  BY <1>3, <3>1
  <2> QED  BY <1>5, <2>1, <2>2, <2>3, <2>4, <2>5, <2>6, <2>7, <2>8 DEF PoolThread
<1> QED  BY <1>1, <1>4, <1>5 DEF Next

\* So it always holds.
LEMMA Always == Spec => []IInv
BY Starts, GoesOn, PTL DEF Spec

\* Each node of a copied error has one owner as long as it is allocated,
\* whether exceptions are copied or shared, however long the chain is.
THEOREM OneOwner == Spec => []OwnedOnce
<1>1. IInv => OwnedOnce
  BY DEF IInv, ErrorInv, HeapInv
<1> QED  BY <1>1, Always, PTL

\* JavaScript is told every link of Subversion's error but the tracing links.
THEOREM WholeErrorTold == Spec => []ErrorTold
<1>1. IInv => ErrorTold
  BY DEF IInv, ErrorInv
<1> QED  BY <1>1, Always, PTL

\* When a call is over, neither its error nor its arguments are in memory.
THEOREM NothingIsLeft == Spec => []NothingLeft
<1>1. IInv => NothingLeft
  <2> SUFFICES ASSUME IInv, stage = "over"
               PROVE  svn = <<>> /\ heap = {} /\ memory = {}
    BY DEF NothingLeft
  <2>1. memory = {} /\ step \in {"none", "over"} /\ ErrorInv
    BY DEF IInv
  <2>2. Holders = {}
    BY <2>1 DEF Holders
  <2>3. svn = <<>> /\ \A o \in Objects : object[o].children = <<>>
    BY <2>1, <2>2 DEF ErrorInv
  <2>4. \A o \in Objects : ToSet(object[o].children) = {}
    BY <2>3 DEF ToSet
  <2>5. heap = {}
    BY <2>1, <2>4 DEF ErrorInv, HeapInv
  <2> QED  BY <2>1, <2>3, <2>5
<1> QED  BY <1>1, Always, PTL
=============================================================================
