-------------------------------- MODULE AnyValue --------------------------------
(***************************************************************************)
(* utils::any (include/aparse/utils/any.hpp), which holds the actions of    *)
(* rules: an any owns a value on the heap, and has beside it a pointer to   *)
(* the function that copies it, which says what type it has.  Grammars,     *)
(* builders, lexers and parsers copy and move their actions freely.         *)
(*                                                                          *)
(* The heap is a set of addresses, each Free or with a value; a copy or a   *)
(* constructor that throws leaves everything as it was, and is no step.     *)
(***************************************************************************)
CONSTANTS
  Objects,     \* the any objects
  Addresses,   \* of the heap
  Types, Data, \* the types of the values, and what a value can be
  null, Free, NoType

ASSUME NullIsNoAddress == null \notin Addresses
ASSUME FreeIsNoValue == Free \notin [type : Types, value : Data]

VARIABLES ptr_, copy_func_, heap
any_vars == <<ptr_, copy_func_, heap>>

Held == [type : Types, value : Data]

HasValue(a) == ptr_[a] # null

\* A unique_ptr lets go of what it points to.
Released(h, p) == IF p = null THEN h ELSE [h EXCEPT ![p] = Free]

\* The constructor from a value, create_in_place, and assigning a value.  The new
\* value is there before the old one goes.
Store(a, h) ==
  \E p \in {q \in Addresses : heap[q] = Free} :
    /\ heap' = Released([heap EXCEPT ![p] = h], ptr_[a])
    /\ ptr_' = [ptr_ EXCEPT ![a] = p]
    /\ copy_func_' = [copy_func_ EXCEPT ![a] = h.type]

\* Mutants: the pointer is copied with the rest; the copy function stays.
CopyPointer(a, b) ==
  /\ heap' = IF ptr_[a] = ptr_[b] THEN heap ELSE Released(heap, ptr_[a])
  /\ ptr_' = [ptr_ EXCEPT ![a] = ptr_[b]]
  /\ copy_func_' = [copy_func_ EXCEPT ![a] = copy_func_[b]]
CopyKeepingFunction(a, b) ==
  \E p \in {q \in Addresses : heap[q] = Free} :
    /\ HasValue(b)
    /\ heap' = Released([heap EXCEPT ![p] = [heap[ptr_[b]] EXCEPT !.type = copy_func_[b]]],
                        ptr_[a])
    /\ ptr_' = [ptr_ EXCEPT ![a] = p]
    /\ UNCHANGED copy_func_

\* a = b: copy_func_ of b reads what b points to as a value of its own type.
CopyValue(a, b) ==
  \E p \in {q \in Addresses : heap[q] = Free} :
    /\ HasValue(b)
    /\ heap' = Released([heap EXCEPT ![p] = [heap[ptr_[b]] EXCEPT !.type = copy_func_[b]]],
                        ptr_[a])
    /\ ptr_' = [ptr_ EXCEPT ![a] = p]
    /\ copy_func_' = [copy_func_ EXCEPT ![a] = copy_func_[b]]

CopyNothing(a, b) ==
  /\ ~HasValue(b)
  /\ heap' = Released(heap, ptr_[a])
  /\ ptr_' = [ptr_ EXCEPT ![a] = null]
  /\ copy_func_' = [copy_func_ EXCEPT ![a] = copy_func_[b]]

\* Mutant: the function moves, and the pointer of what was moved from stays.
MoveKeeping(a, b) ==
  /\ heap' = IF a = b THEN heap ELSE Released(heap, ptr_[a])
  /\ ptr_' = [ptr_ EXCEPT ![a] = ptr_[b]]
  /\ copy_func_' = [copy_func_ EXCEPT ![a] = copy_func_[b]]

\* a = std::move(b), as the compiler makes it: b keeps its copy_func_, and an any
\* that is moved to itself its value.
MoveAssign(a, b) ==
  /\ heap' = IF a = b THEN heap ELSE Released(heap, ptr_[a])
  /\ ptr_' = [[ptr_ EXCEPT ![b] = null] EXCEPT ![a] = ptr_[b]]
  /\ copy_func_' = [copy_func_ EXCEPT ![a] = copy_func_[b]]

\* The end of a, and a new one in its place.
Destroy(a) ==
  /\ heap' = Released(heap, ptr_[a])
  /\ ptr_' = [ptr_ EXCEPT ![a] = null]
  /\ copy_func_' = [copy_func_ EXCEPT ![a] = NoType]

can_cast_to(a, type) == copy_func_[a] = type /\ HasValue(a)

\* Writing to the reference cast_to returns; it throws if it may not be cast.
WriteCast(a, type, v) ==
  /\ can_cast_to(a, type)
  /\ heap' = [heap EXCEPT ![ptr_[a]] = [type |-> type, value |-> v]]
  /\ UNCHANGED <<ptr_, copy_func_>>

AnyInit ==
  /\ ptr_ = [a \in Objects |-> null]
  /\ copy_func_ = [a \in Objects |-> NoType]
  /\ heap = [p \in Addresses |-> Free]

AnyNext ==
  \/ \E a \in Objects, h \in Held : Store(a, h)
  \/ \E a, b \in Objects : CopyValue(a, b) \/ CopyNothing(a, b) \/ MoveAssign(a, b)
  \/ \E a \in Objects : Destroy(a)
  \/ \E a \in Objects, type \in Types, v \in Data : WriteCast(a, type, v)

AnySpec == AnyInit /\ [][AnyNext]_any_vars

-------------------------------------------------------------------------------

\* Type invariant: an any without a value may have a copy function left over.
AnyTypeOK ==
  /\ ptr_ \in [Objects -> Addresses \cup {null}]
  /\ copy_func_ \in [Objects -> Types \cup {NoType}]
  /\ heap \in [Addresses -> Held \cup {Free}]

\* Whatever was copied, moved to others or to itself, and destroyed: what an any
\* points to is a value that no other any points to, so that nothing is deleted
\* twice or used after it, and no value is left without an any (the unique_ptr of
\* any.hpp).
OwnedOnce ==
  /\ \A a \in Objects : HasValue(a) => heap[ptr_[a]] # Free
  /\ \A a, b \in Objects : HasValue(a) /\ ptr_[a] = ptr_[b] => a = b
  /\ \A p \in Addresses : heap[p] # Free => \E a \in Objects : ptr_[a] = p

\* cast_to and the copies use static_cast: the copy function, of which there is
\* one per type, tells the type of the value that is there.
CastsAreSound == \A a \in Objects : HasValue(a) => heap[ptr_[a]].type = copy_func_[a]

\* What an any holds, to its user.
Contents == [a \in Objects |-> IF ptr_[a] = null THEN Free ELSE heap[ptr_[a]]]
Store_ == INSTANCE ValueStore WITH Empty <- Free, contents <- Contents

\* So to its user an any is a variable, which keeps its value until it is given
\* another one, whatever happens to those it was copied to and from (any.hpp).
ImplementsValues == Store_!Spec
================================================================================
