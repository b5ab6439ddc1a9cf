------------------------------ MODULE ComString -------------------------------
(***************************************************************************)
(* util::com_string (kernel/lib/include/datastruc/com_string.h, .cpp), the *)
(* string a task has its name in: a short text is inside the object, a     *)
(* long one in memory of its own, and m_size alone tells which; the        *)
(* pointer and the size of that memory lie over the first bytes of the     *)
(* short text.                                                             *)
(*                                                                         *)
(* The kernel uses the default constructor, assign and data(); the others  *)
(* are here because the class offers them.  Two constructors read m_size   *)
(* before anything is in it.                                               *)
(***************************************************************************)
EXTENDS Integers, Sequences, SequencesExt, Powers

CONSTANTS
    little_size,  \* bytes of a short text with its end
    Overlay,      \* how many of them the two members of a long text cover
    Texts,        \* what is assigned and appended
    MaxText,      \* bound on the length of a text
    MaxHeld       \* bound on the pieces of memory

Junk == -1        \* what nobody has written as a character

ASSUME ComStringAssumption ==
    /\ little_size \in Nat /\ Overlay \in 1 .. little_size
    /\ Texts \subseteq Seq(Nat \ {0})

VARIABLES
    m_size,
    m_str,     \* the short text, bytes under the overlay included
    m_data,    \* the memory of the long one, m_reserved bytes, or <<>>
    stage,     \* "new", "made", "wild" after a write or a free at random
    text,      \* history: the text the string should have
    flaws,     \* history: "unended", "spilt" and "leaky" calls that still show
    held       \* pieces of memory that new gave and delete has not had back

comVars == <<m_size, m_str, m_data, stage, text, flaws, held>>

Junks(k) == [i \in 1 .. k |-> Junk]

\* q with the bytes t from offset i on.
Placed(q, i, t) == [k \in DOMAIN q |-> IF k - i \in 1 .. Len(t) THEN t[k - i] ELSE q[k]]
Terminated(q, t) == Placed(q, 0, t \o <<0>>)

is_local == m_size < little_size
data == IF is_local THEN m_str ELSE m_data

\* Mutant: the last step, sz++, is missing.
SuitableSizeLess(sz) == 2 * HighestBit(sz) - 1

\* All bits below the highest are set, and one is added.
suitable_size(sz) == 2 * HighestBit(sz)

Covered(q) == Placed(q, 0, Junks(Overlay))

ComStringInit ==
    /\ m_size = 0 /\ m_str = [i \in 1 .. little_size |-> 0] /\ m_data = <<>>
    /\ stage = "new" /\ text = <<>> /\ flaws = {} /\ held = 0

Wild == stage' = "wild" /\ UNCHANGED <<m_size, m_str, m_data, text, flaws, held>>

-----------------------------------------------------------------------------
(* Constructors. *)

DefaultConstruct == stage = "new" /\ stage' = "made"
                    /\ UNCHANGED <<m_size, m_str, m_data, text, flaws, held>>

\* com_string(str, length), when m_size happens to look short or long.  A long
\* text then goes over the end of the object; for a short one memory is taken
\* and forgotten.
Construct(t, short) ==
    /\ stage = "new"
    /\ IF short /\ Len(t) >= little_size THEN Wild
       ELSE /\ m_size' = Len(t) /\ text' = t /\ stage' = "made"
            /\ IF Len(t) < little_size
               THEN m_str' = Terminated(m_str, t) /\ UNCHANGED m_data
               ELSE m_data' = Terminated(Junks(suitable_size(Len(t))), t) /\ m_str' = Covered(m_str)
            /\ held' = IF short THEN held ELSE held + 1
            /\ flaws' = IF ~short /\ Len(t) < little_size THEN {"leaky"} ELSE {}

\* com_string(com_string &&) of a string that is gone afterwards.  A short text
\* is copied without its end; when m_size looks long, what is not a pointer
\* is freed.
MoveConstruct(short) ==
    /\ stage = "made"
    /\ IF ~short THEN Wild
       ELSE /\ m_str' = IF is_local THEN Placed(Junks(little_size), 0, SubSeq(m_str, 1, m_size))
                        ELSE Junks(little_size)
            /\ flaws' = IF is_local THEN flaws \union {"unended"} ELSE flaws
            /\ UNCHANGED <<m_size, m_data, stage, text, held>>

-----------------------------------------------------------------------------
(* assign. *)

\* It fits into the object; a pointer there is overwritten.
AssignShort(t) ==
    /\ stage = "made" /\ Len(t) < little_size
    /\ held < MaxHeld
    /\ m_size' = Len(t) /\ m_str' = Terminated(m_str, t) /\ m_data' = <<>>
    /\ text' = t
    /\ flaws' = (flaws \ {"unended", "spilt"}) \union (IF is_local THEN {} ELSE {"leaky"})
    /\ UNCHANGED <<stage, held>>

\* It fits into the memory there is.
AssignOver(t) ==
    /\ stage = "made" /\ Len(t) >= little_size /\ ~is_local /\ Len(t) < Len(m_data)
    /\ m_size' = Len(t) /\ m_data' = Terminated(m_data, t)
    /\ text' = t /\ flaws' = flaws \ {"unended", "spilt"}
    /\ UNCHANGED <<m_str, stage, held>>

\* It does not: deallocate and allocate.
AssignAnew(t) ==
    /\ stage = "made" /\ Len(t) >= little_size /\ (is_local \/ Len(t) >= Len(m_data))
    /\ m_size' = Len(t) /\ m_str' = Covered(m_str)
    /\ m_data' = Terminated(Junks(suitable_size(Len(t))), t)
    /\ text' = t /\ flaws' = flaws \ {"unended", "spilt"}
    /\ held' = IF is_local THEN held + 1 ELSE held
    /\ UNCHANGED stage

-----------------------------------------------------------------------------
(* append. *)

Appends(t) == stage = "made" /\ Len(text) + Len(t) <= MaxText

AppendShort(t) ==
    /\ Appends(t) /\ is_local /\ m_size + Len(t) < little_size
    /\ m_str' = Placed(m_str, m_size, t \o <<0>>) /\ m_size' = m_size + Len(t)
    /\ text' = text \o t /\ flaws' = flaws \ {"unended"}
    /\ UNCHANGED <<m_data, stage, held>>

\* allocate sets m_size and the pointer before the text under them is copied,
\* as many bytes as there will be, and the new text goes behind these.
AppendSpill(t) ==
    /\ Appends(t) /\ is_local /\ m_size + Len(t) >= little_size
    /\ LET total == m_size + Len(t)
           room == Junks(suitable_size(total))
           copied == Placed(room, 0, SubSeq(Covered(m_str) \o Junks(total), 1, total))
       IN  IF total + Len(t) >= Len(room) THEN Wild
           ELSE /\ m_data' = Placed(copied, total, t \o <<0>>)
                /\ m_size' = total + Len(t) /\ m_str' = Covered(m_str)
                /\ held' = held + 1
                /\ text' = text \o t /\ flaws' = (flaws \ {"unended"}) \union {"spilt"}
                /\ UNCHANGED stage

\* With grow where it is needed.
AppendLong(t) ==
    /\ Appends(t) /\ ~is_local
    /\ LET total == m_size + Len(t)
           room == IF Len(m_data) <= total
                   THEN Placed(Junks(suitable_size(total)), 0, SubSeq(m_data, 1, m_size))
                   ELSE m_data
       IN  /\ total <= MaxText
           /\ m_data' = Placed(room, m_size, t \o <<0>>) /\ m_size' = total
    /\ text' = text \o t /\ flaws' = flaws \ {"unended"}
    /\ UNCHANGED <<m_str, stage, held>>

\* The end of the text stays where it is.
clear ==
    /\ stage = "made"
    /\ m_size' = 0 /\ m_data' = <<>> /\ text' = <<>>
    /\ held' = IF is_local THEN held ELSE held - 1
    /\ flaws' = (flaws \ {"spilt"}) \union {"unended"}
    /\ UNCHANGED <<m_str, stage>>

\* new gives no memory, and the text is written there.
NoMemory(t) ==
    /\ stage = "made" /\ Len(t) >= little_size /\ (is_local \/ Len(t) >= Len(m_data))
    /\ Wild

Over == stage = "wild" /\ UNCHANGED comVars

ComStringStep ==
    \/ DefaultConstruct
    \/ \E short \in BOOLEAN : MoveConstruct(short) \/ \E t \in Texts : Construct(t, short)
    \/ \E t \in Texts :
          \/ AssignShort(t) \/ AssignOver(t) \/ AssignAnew(t)
          \/ AppendShort(t) \/ AppendSpill(t) \/ AppendLong(t)
          \/ NoMemory(t)
    \/ clear

ComStringNext == ComStringStep \/ Over
ComStringSpec == ComStringInit /\ [][ComStringNext]_comVars

-----------------------------------------------------------------------------
\* com_string.cpp: the string has its text, and the end of it inside its
\* room, and as many pieces of memory as it has pointers to: the length alone
\* decides where all of this is, before and after each call.  What a call
\* that does not keep this leaves behind lasts until the next that repairs it.
StringHolds ==
    stage = "made" =>
        /\ "spilt" \notin flaws => m_size = Len(text) /\ SubSeq(data, 1, m_size) = text
        /\ flaws \subseteq {"leaky"} => m_size < Len(data) /\ data[m_size + 1] = 0
        /\ "leaky" \notin flaws => held = (IF is_local THEN 0 ELSE 1)

-----------------------------------------------------------------------------
(* The inductive invariant behind StringHolds: a text that is not inside *)
(* the object has room, whatever was appended to it.                      *)

ComStringTypeOK ==
    /\ m_size \in Nat /\ held \in Int
    /\ m_str \in Seq(Int) /\ Len(m_str) = little_size
    /\ m_data \in Seq(Int) /\ text \in Seq(Int)
    /\ stage \in {"new", "made", "wild"}
    /\ flaws \subseteq {"unended", "spilt", "leaky"}

Fresh ==
    /\ m_size = 0 /\ m_str = [i \in 1 .. little_size |-> 0] /\ m_data = <<>>
    /\ text = <<>> /\ flaws = {} /\ held = 0

StringInv ==
    /\ ComStringTypeOK
    /\ stage = "new" => Fresh
    /\ stage = "made" /\ ~is_local => m_size < Len(m_data)
    /\ StringHolds
=============================================================================
