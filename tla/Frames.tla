------------------------------- MODULE Frames -------------------------------
(***************************************************************************)
(* Functions that call functions: a stack of frames, and the effects a     *)
(* step of a function can have on it.  Every function of the protocols is  *)
(* an action whose disjuncts are its steps, from one exchange to the next. *)
(***************************************************************************)
EXTENDS Replicated

VARIABLES
    stack,          \* the calls in progress, the innermost last
    done            \* the frame and the results of a call that has returned

\* A frame: the function, its next step, its numbers (ring_size, the size of
\* its batches, and m, the third one some functions take), its shared and its
\* public arrays by name, the arguments first, the round of its loop and the
\* bits that are left in it, and the names its caller has for its results.
Frame(fn, num, shares, public, as) ==
    [fn |-> fn, at |-> 1, num |-> num, sh |-> shares, pub |-> public,
     round |-> 0, r |-> num.k, as |-> as]

Num(k, len, third) == [k |-> k, size |-> len, m |-> third]

Top == stack[Len(stack)]
ring_size == Top.num.k
size == Top.num.size
m == Top.num.m
sh == Top.sh
pub == Top.pub
None == <<>>
Running(fn, i) == stack # <<>> /\ Top.fn = fn /\ Top.at = i

Becomes(f) == stack' = [stack EXCEPT ![Len(stack)] = f]
Draws(count) ==
    drawn' = [p \in Party |-> [j \in Keys |-> drawn[p][j] + count[p][j]]]
NoDraws == UNCHANGED drawn
Proceeds == done' = None /\ UNCHANGED run

\* The frame after a step that leaves new shared or public arrays.
WithShares(new) == [Top EXCEPT !.sh = new @@ @, !.at = @ + 1]
WithPublic(new) == [Top EXCEPT !.pub = new @@ @, !.at = @ + 1]

\* A step that computes without drawing words.
Let(new) == Becomes(WithShares(new)) /\ NoDraws /\ Proceeds
Learn(new) == Becomes(WithPublic(new)) /\ NoDraws /\ Proceeds

\* The last step of a round of a loop, whose first step is the first of the
\* function: r bits are left.
NextRound(new, r) ==
    /\ Becomes([Top EXCEPT !.sh = new @@ @, !.at = 1, !.round = @ + 1, !.r = r])
    /\ NoDraws /\ Proceeds

\* A step whose exchange draws words.
LetDraw(new, count) == Becomes(WithShares(new)) /\ Draws(count) /\ Proceeds
LearnDraw(new, count) == Becomes(WithPublic(new)) /\ Draws(count) /\ Proceeds

\* The next step is a call, whose results get the names of as here.
Call(fn, num, shares, public, as) ==
    /\ stack' = Append([stack EXCEPT ![Len(stack)].at = @ + 1],
                       Frame(fn, num, shares, public, as))
    /\ NoDraws /\ Proceeds

\* The function ends; new are its results, by its own names for them.
Renamed(new, as) ==
    [x \in {as[y] : y \in DOMAIN as} |-> new[CHOOSE y \in DOMAIN as : as[y] = x]]

Results(new) ==
    /\ stack' = [SubSeq(stack, 1, Len(stack) - 1) EXCEPT
          ![Len(stack) - 1].sh = Renamed(new, Top.as) @@ @]
    /\ done' = [frame |-> Top, res |-> new]
    /\ UNCHANGED run

Return(new) == Results(new) /\ NoDraws
ReturnDraw(new, count) == Results(new) /\ Draws(count)
=============================================================================
