------------------------------ MODULE UmashParams ------------------------------
(***************************************************************************)
(* umash_params_prepare and umash_params_derive: random bits become        *)
(* parameters.  Bad values are replaced with the two words of randomness   *)
(* left over in the struct, and the preparation fails when they run out.   *)
(*                                                                         *)
(* The stream cipher of umash_params_derive is a choice among Streams.     *)
(***************************************************************************)
EXTENDS UmashModular, FiniteSets

CONSTANTS
    OhCount,  \* words of the OH key and the twisting constants (34)
    Fills,    \* structs that a caller may fill
    Streams,  \* structs that the stream cipher may fill
    Keys      \* keys for which generate_key of the reference may have drawn bits

\* struct umash_params: two pairs, <<f^2, f>> once prepared, and the OH key.
IsStruct(p) ==
    p \in [poly : [0 .. 1 -> Words \X Words], oh : [0 .. OhCount - 1 -> Words]]

ParamsAssumption ==
    /\ OhCount \in Nat \ {0}
    /\ Fills # {} /\ Streams # {}
    /\ \A p \in Fills \cup Streams : IsStruct(p)
    /\ \A k \in Keys : k.poly \in 0 .. Eighth - 1 /\ k.oh \in [0 .. OhCount - 1 -> Words]

VARIABLES
    caller,   \* "user", "derive" for umash_params_derive, "tests" for a generated key
    pc,       \* "idle", "poly", "oh", or "returned" from umash_params_prepare
    params,   \* the struct
    given,    \* the struct when umash_params_prepare was entered
    again,    \* whether it had been prepared already
    buf_idx,  \* words of buf used
    i,        \* index in poly or in oh
    f,        \* the candidate multiplier
    success   \* whether the struct is said to be prepared

vars == <<caller, pc, params, given, again, buf_idx, i, f, success>>
-----------------------------------------------------------------------------
modulo == Field

\* f &= (1UL << 61) - 1
Mask(x) == x % Eighth

IsMultiplier(x) == x # 0 /\ x < modulo

\* The reference does not accept 1, though its comment would.
is_acceptable_multiplier(x) == 1 < x /\ x < Field

\* The two words kept of a multiplier: its square, reduced, and itself.
Multipliers(x) == <<Square(x), x>>

\* Mistake: only the previous word is compared.
value_is_repeated_Previous(oh, n, needle) == n > 0 /\ oh[n - 1] = needle

value_is_repeated(oh, n, needle) == \E j \in 0 .. n - 1 : oh[j] = needle

\* Mistake: buf is not a copy, and poly may have been overwritten.
Drawn_InPlace == params.poly[buf_idx][1]

\* GET_RANDOM: buf holds poly[0][0] and poly[1][0] as they were on entry.
Drawn == given.poly[buf_idx][1]

Exhausted == buf_idx >= 2
-----------------------------------------------------------------------------
Init ==
    /\ caller = "user" /\ pc = "idle"
    /\ params \in Fills
    /\ given = params
    /\ again = FALSE /\ success = FALSE
    /\ buf_idx = 0 /\ i = 0 /\ f = 0

\* umash_params_prepare is entered with the struct p.
Enter(p) ==
    /\ pc' = "poly"
    /\ params' = p /\ given' = p
    /\ buf_idx' = 0 /\ i' = 0
    /\ f' = p.poly[0][2]
    /\ success' = FALSE

\* A user prepares a struct that is filled with random words, or prepared.
Prepare ==
    /\ pc = "idle"
    /\ Enter(params)
    /\ caller' = "user"
    /\ again' = success

\* umash_params_derive overwrites all of the struct; when that is not good
\* enough, it increments the nonce and starts over.
Derive ==
    /\ \/ pc = "idle"
       \/ pc = "returned" /\ caller = "derive" /\ ~success
    /\ \E p \in Streams : Enter(p)
    /\ caller' = "derive"
    /\ again' = FALSE

\* Mistake: a repeated word is drawn again only when it repeats the last one.
GeneratedKeys_Adjacent ==
    {k \in Keys : /\ is_acceptable_multiplier(k.poly)
                  /\ \A j \in 1 .. OhCount - 1 : k.oh[j] # k.oh[j - 1]}

\* generate_key draws 61 bits until they are acceptable, and each OH word until
\* it is not in the list already.
GeneratedKeys ==
    {k \in Keys : /\ is_acceptable_multiplier(k.poly)
                  /\ \A j \in 0 .. OhCount - 1 : ~value_is_repeated(k.oh, j, k.oh[j])}

\* The tests fill the C parameters from keys of the reference, and skip the
\* preparation.
Generate ==
    /\ pc = "idle"
    /\ \E k \in GeneratedKeys :
          params' = [poly |-> [w \in 0 .. 1 |-> <<(k.poly * k.poly) % Field, k.poly>>],
                     oh |-> k.oh]
    /\ given' = params'
    /\ caller' = "tests" /\ success' = TRUE
    /\ UNCHANGED <<pc, again, buf_idx, i, f>>

\* GET_RANDOM finds nothing left.
Fail ==
    /\ pc' = "returned" /\ success' = FALSE
    /\ UNCHANGED <<caller, params, given, again, buf_idx, i, f>>

AcceptMultiplier ==
    /\ pc = "poly" /\ IsMultiplier(Mask(f))
    /\ params' = [params EXCEPT !.poly[i] = Multipliers(Mask(f))]
    /\ IF i = 0
       THEN i' = 1 /\ f' = params.poly[1][2] /\ UNCHANGED pc
       ELSE i' = 0 /\ pc' = "oh" /\ UNCHANGED f
    /\ UNCHANGED <<caller, given, again, buf_idx, success>>

ReplaceMultiplier ==
    /\ pc = "poly" /\ ~IsMultiplier(Mask(f))
    /\ IF Exhausted THEN Fail
       ELSE /\ f' = Drawn
            /\ buf_idx' = buf_idx + 1
            /\ UNCHANGED <<caller, pc, params, given, again, i, success>>

AcceptOh ==
    /\ pc = "oh" /\ i < OhCount
    /\ ~value_is_repeated(params.oh, i, params.oh[i])
    /\ i' = i + 1
    /\ UNCHANGED <<caller, pc, params, given, again, buf_idx, f, success>>

ReplaceOh ==
    /\ pc = "oh" /\ i < OhCount
    /\ value_is_repeated(params.oh, i, params.oh[i])
    /\ IF Exhausted THEN Fail
       ELSE /\ params' = [params EXCEPT !.oh[i] = Drawn]
            /\ buf_idx' = buf_idx + 1
            /\ UNCHANGED <<caller, pc, given, again, i, f, success>>

Succeed ==
    /\ pc = "oh" /\ i = OhCount
    /\ pc' = "returned" /\ success' = TRUE
    /\ UNCHANGED <<caller, params, given, again, buf_idx, i, f>>

\* if (umash_params_prepare(params)) return;
DeriveStops == caller = "derive" => success

\* The caller gets the struct back.  One whose preparation failed fills it again,
\* or only tries again, with the squares where there were random words.
Return ==
    /\ pc = "returned" /\ DeriveStops
    /\ pc' = "idle"
    /\ IF success THEN params' = params ELSE params' \in Streams \cup {params}
    /\ given' = params'
    /\ again' = FALSE /\ buf_idx' = 0 /\ i' = 0 /\ f' = 0
    /\ UNCHANGED <<caller, success>>

Next ==
    \/ Prepare \/ Derive \/ Generate
    \/ AcceptMultiplier \/ ReplaceMultiplier
    \/ AcceptOh \/ ReplaceOh \/ Succeed
    \/ Return

Spec == Init /\ [][Next]_vars
-----------------------------------------------------------------------------
(* Properties. *)

TypeOK ==
    /\ caller \in {"user", "derive", "tests"}
    /\ pc \in {"idle", "poly", "oh", "returned"}
    /\ IsStruct(params) /\ IsStruct(given)
    /\ again \in BOOLEAN /\ success \in BOOLEAN
    /\ buf_idx \in 0 .. 2 /\ i \in 0 .. OhCount /\ f \in Words
    /\ pc = "oh" => \A w \in 0 .. 1 : params.poly[w] \in (0 .. modulo - 1) \X (1 .. modulo - 1)

\* Multipliers that are not 0 in the field, with their reduced squares, and no
\* repeated OH word.
Usable(p) ==
    /\ \A w \in 0 .. 1 : /\ p.poly[w][2] \in 1 .. modulo - 1
                         /\ p.poly[w][1] = (p.poly[w][2] * p.poly[w][2]) % modulo
    /\ \A j, k \in 0 .. OhCount - 1 : p.oh[j] = p.oh[k] => j = k

\* What is said to be prepared is usable, and umash_params_derive only returns
\* prepared parameters (umash.c:1016, 1036; umash.h:205).
SuccessIsUsable ==
    /\ pc \in {"idle", "returned"} /\ success => Usable(params)
    /\ pc = "idle" /\ caller = "derive" => success

\* "When it succeeds, this function is idempotent" (umash.h:208): preparing
\* prepared parameters changes nothing on the way and succeeds.
Idempotent == again => params = given /\ (pc = "returned" => success)

\* Each word of prepared parameters is the caller's, unless that one was bad:
\* then it is one of the words of buf, used in order and for one word only,
\* and never a square that the preparation left in their place.
Given(p, w) == Mask(p.poly[w][2])
WordsAreTheCallers ==
    pc = "returned" /\ success =>
        LET drawn == {given.poly[k][1] : k \in 0 .. buf_idx - 1}
            replaced == {w \in 0 .. 1 : params.poly[w][2] # Given(given, w)}
            other == {j \in 0 .. OhCount - 1 : params.oh[j] # given.oh[j]}
        IN  /\ \A w \in replaced : /\ Given(given, w) \notin 1 .. modulo - 1
                                   /\ params.poly[w][2] \in {Mask(x) : x \in drawn}
            /\ \A j \in other : /\ value_is_repeated(params.oh, j, given.oh[j])
                                /\ params.oh[j] \in drawn
            /\ Cardinality(replaced) + Cardinality(other) <= buf_idx
=============================================================================
