------------------------------ MODULE ItemFields ------------------------------
(***************************************************************************)
(* The numbers that belong to an item, from the program to the server and  *)
(* back: its flags, its expiration, its length, the cas value that guards  *)
(* a later store, and the client's limit on its size.                      *)
(*                                                                         *)
(* A call is one step here, but for get_multi() and gets_multi(), which    *)
(* read their reply one VALUE line at a time into the same local           *)
(* variables.  The server is shared with other clients.                    *)
(***************************************************************************)
EXTENDS ValueLine

CONSTANTS
    ItemKeys,    \* BOUND: the keys, each one character
    Flags,       \* BOUND: the flags a program gives
    Expirations, \* BOUND: the expirations it gives
    Sizes,       \* BOUND: the sizes of its values
    Limits,      \* BOUND: the values of max_item_size
    DefaultSize, \* MAX_ITEM_SIZE
    FirstCas,    \* the server's counter when the program starts
    MaxStores,   \* BOUND: the number of times items are stored
    Leftover,    \* what happens to be in a local that is not initialised
    AnyLines,    \* BOUND: the VALUE lines, right and wrong, that are scanned
    Numbers      \* BOUND: the numbers a server writes in one

Ints == -(IntRange \div 2) .. (IntRange \div 2) - 1

UInts == 0 .. Word - 1

ASSUME FieldsAssumption ==
    /\ ItemKeys \subseteq Nat \ 0 .. VALUE /\ IsFiniteSet(ItemKeys)
    /\ Flags \subseteq Ints
    /\ Expirations \subseteq Ints
    /\ Limits \subseteq Ints \cap Nat
    /\ Sizes \subseteq UInts
    /\ DefaultSize \in Ints \cap Nat
    /\ FirstCas \in UInts /\ MaxStores \in 0 .. Word - 1 - FirstCas
    /\ Leftover \in UInts
    /\ \A line \in AnyLines : line \in Seq(Nat) /\ line # <<>>
    /\ Numbers \subseteq Nat

VARIABLES
    pc,       \* "new", "idle", or "values" inside gets_multi
    maxSize,  \* the size_t the client compares with
    limit,    \* history: the max_item_size the program asked for
    items,    \* the server's items: [flags, exp, size, cas], and what was given
    nextCas,
    lines,    \* the VALUE lines gets_multi has yet to read, and their items
    cas,      \* its local variable
    got,      \* what it has collected, by key
    verdict   \* the last store: what it gave, and history: what it should have

vars == <<pc, maxSize, limit, items, nextCas, lines, cas, got, verdict>>

Absent == [size |-> -1]

Init ==
    /\ pc = "new"
    /\ maxSize = DefaultSize /\ limit = DefaultSize
    /\ items = [k \in ItemKeys |-> Absent]
    /\ nextCas = FirstCas
    /\ lines = <<>>
    /\ cas = Leftover
    /\ got = [k \in ItemKeys |-> Absent]
    /\ verdict = [says |-> "none", right |-> TRUE]

-----------------------------------------------------------------------------
(***************************************************************************)
(* max_item_size is parsed as an int into the size_t that holds the        *)
(* default: only the half of it that an int covers is written, which is    *)
(* the lower half on the machines this is built for.                       *)
(***************************************************************************)
StoreInt(size, n) == (size - (size % IntRange)) + (n % IntRange)

Construct(n) ==
    /\ pc = "new" /\ pc' = "idle"
    /\ maxSize' = StoreInt(DefaultSize, n)
    /\ limit' = n
    /\ UNCHANGED <<items, nextCas, lines, cas, got, verdict>>

\* What the server reads in a decimal number of a request.
Decimal(chars) == FoldLeft(LAMBDA v, d : 10 * v + d, 0, chars)

\* The server stores an item under a new cas value.  Its flags have 32 bits; what
\* it makes of an expiration beyond its own range is left out.
Puts(k, flags, exp, size, given) ==
    /\ items' = [items EXCEPT ![k] =
          [flags |-> Decimal(flags) % IntRange, exp |-> Decimal(exp),
           size |-> Decimal(size), cas |-> nextCas, given |-> given]]
    /\ nextCas' = nextCas + 1

MayStore == pc = "idle" /\ nextCas < FirstCas + MaxStores

\* set(), of a value that is too large, and of any other.
SetRefused(n) ==
    /\ pc = "idle" /\ n > maxSize
    /\ verdict' = [says |-> "refused", right |-> n > limit]
    /\ UNCHANGED <<pc, maxSize, limit, items, nextCas, lines, cas, got>>

Set(k, f, e, n) ==
    /\ MayStore /\ n <= maxSize
    /\ Puts(k, WriteNumeric(f), WriteNumeric(e), WriteNumeric(n),
            [flags |-> f, exp |-> e, size |-> n])
    /\ verdict' = [says |-> "stored", right |-> n <= limit]
    /\ UNCHANGED <<pc, maxSize, limit, lines, cas, got>>

\* Another client of the server changes an item.
SetByOther(k) ==
    /\ MayStore
    /\ Puts(k, <<0>>, <<0>>, <<1>>, [flags |-> 0, exp |-> 0, size |-> 1])
    /\ UNCHANGED <<pc, maxSize, limit, lines, cas, got, verdict>>

(***************************************************************************)
(* cas() of a small value with the cas that gets_multi() gave: the server  *)
(* compares it with the one the item has.                                  *)
(***************************************************************************)
Cas(k) ==
    /\ MayStore /\ got[k] # Absent /\ got[k].withCas
    /\ IF Decimal(WriteNumeric(got[k].cas)) = items[k].cas
       THEN /\ Puts(k, <<0>>, <<0>>, <<1>>, [flags |-> 0, exp |-> 0, size |-> 1])
            /\ verdict' = [says |-> "STORED", right |-> got[k].item = items[k]]
       ELSE /\ verdict' = [says |-> "EXISTS", right |-> got[k].item # items[k]]
            /\ UNCHANGED <<items, nextCas>>
    /\ UNCHANGED <<pc, maxSize, limit, lines, cas, got>>

-----------------------------------------------------------------------------
(***************************************************************************)
(* get_multi() and gets_multi(): the server sends a line for each item it  *)
(* has, in any order, with its cas in reply to gets.  Their local variable *)
(* cas is not initialised.                                                 *)
(***************************************************************************)
LineText(k, flags, size, guard) ==
    <<VALUE, k, SP>> \o flags \o <<SP>> \o size \o guard \o <<CR, LF>>

LineOf(k, withCas) ==
    LineText(k, WriteNumeric(items[k].flags), WriteNumeric(items[k].size),
             IF withCas THEN <<SP>> \o WriteNumeric(items[k].cas) ELSE <<>>)

Multi(withCas) ==
    /\ pc = "idle" /\ pc' = "values"
    /\ \E found \in SetToSeqs({ k \in ItemKeys : items[k] # Absent }) :
          lines' = [i \in DOMAIN found |->
                       [key |-> found[i], item |-> items[found[i]],
                        line |-> LineOf(found[i], withCas), withCas |-> withCas]]
    /\ got' = [k \in ItemKeys |-> Absent]
    /\ cas' = Leftover
    /\ UNCHANGED <<maxSize, limit, items, nextCas, verdict>>

\* getReadNext(): a line that were refused would stop the model here.
ReadNext ==
    /\ pc = "values" /\ lines # <<>>
    /\ LET read == ReadValueLine(Head(lines).line, cas)
       IN  /\ read.ok
           /\ cas' = read.cas
           /\ got' = [got EXCEPT ![Head(lines).key] =
                 [flags |-> read.flags, size |-> read.bytes, cas |-> read.cas,
                  item |-> Head(lines).item, withCas |-> Head(lines).withCas]]
    /\ lines' = Tail(lines)
    /\ UNCHANGED <<pc, maxSize, limit, items, nextCas, verdict>>

ReadEnd ==
    /\ pc = "values" /\ lines = <<>> /\ pc' = "idle"
    /\ UNCHANGED <<maxSize, limit, items, nextCas, lines, cas, got, verdict>>

-----------------------------------------------------------------------------
Next ==
    \/ \E n \in Limits : Construct(n)
    \/ \E n \in Sizes : SetRefused(n)
    \/ \E k \in ItemKeys :
          \/ \E f \in Flags, e \in Expirations, n \in Sizes : Set(k, f, e, n)
          \/ SetByOther(k) \/ Cas(k)
    \/ \E withCas \in BOOLEAN : Multi(withCas)
    \/ ReadNext \/ ReadEnd

Spec == Init /\ [][Next]_vars

-----------------------------------------------------------------------------
TypeOK ==
    /\ pc \in {"new", "idle", "values"}
    /\ maxSize \in UInts /\ limit \in UInts
    /\ nextCas \in FirstCas .. FirstCas + MaxStores
    /\ cas \in UInts
    /\ \A k \in ItemKeys : got[k] # Absent =>
          /\ got[k].flags \in Ints
          /\ got[k].size \in UInts /\ got[k].cas \in UInts

(***************************************************************************)
(* What get_multi() returns of an item is what was given when it was       *)
(* stored.  Negative flags go out as numbers near 2^64, come back modulo   *)
(* 2^32, and are made an int again; a negative expiration goes out in the  *)
(* same way and does not come back, any other is sent as it was given.     *)
(***************************************************************************)
FieldsKept ==
    \A k \in ItemKeys :
        /\ got[k] # Absent => /\ got[k].flags = got[k].item.given.flags
                              /\ got[k].size = got[k].item.given.size
        /\ items[k] # Absent /\ items[k].given.exp >= 0 => items[k].exp = items[k].given.exp

(***************************************************************************)
(* A store is refused, or carried out, when it should be: set() by the     *)
(* size the program asked for, and cas() exactly when nobody has stored    *)
(* the item since gets_multi() read it, whatever else was read in between. *)
(***************************************************************************)
StoresAreRight == verdict.right

(***************************************************************************)
(* What module Client assumes of a line that is refused: the cursor is     *)
(* left just behind the VALUE word, or at the end of the line; it never    *)
(* reaches that end when the line is taken.  The caller's cas is Unread.   *)
(***************************************************************************)
Unread == -1

StopsAtEitherEnd ==
    pc = "new" => \A line \in AnyLines :
        LET read == ReadValueLine(line, Unread)
        IN  IF read.ok THEN read.at < Len(line) ELSE read.at \in {1, Len(line)}

(***************************************************************************)
(* A line as the server writes it is taken, and gives the numbers it was   *)
(* written with: the length and the cas modulo 2^64, the flags modulo the  *)
(* width of an int; without a cas the caller's variable is left alone.     *)
(***************************************************************************)
Gives(read, flags, size, guard) ==
    /\ read.ok
    /\ read.flags = ToInt(flags) /\ read.bytes = ToUInt64(size) /\ read.cas = guard

ReadsWhatWasWritten ==
    pc = "new" => \A k \in ItemKeys, f, n \in Numbers :
        /\ Gives(ReadValueLine(LineText(k, Digits(f), Digits(n), <<>>), Unread), f, n, Unread)
        /\ \A c \in Numbers :
              Gives(ReadValueLine(LineText(k, Digits(f), Digits(n), <<SP>> \o Digits(c)), Unread),
                    f, n, ToUInt64(c))
=============================================================================
