----------------------------- MODULE MCReadingTools -----------------------------
(* ReadingTools for TLC.  Below top: a file plain, a hidden file dot and a     *)
(* folder sub with a file low in it.  Files have at most three lines; int goes  *)
(* up to 7.                                                                    *)
EXTENDS ReadingTools

CONSTANTS top, sub, plain, low, dot, one, two

MCNodes  == {top, sub, plain, low, dot}
MCParent == [n \in {sub, plain, low, dot} |-> IF n = low THEN sub ELSE top]
MCOrder  == <<top, dot, sub, low, plain>>

(* The files plain and dot do not change during a call; sub and low, which     *)
(* search and ls come across, do.  Most calls of diff compare the first two,   *)
(* the others low with dot, and low with itself as it is a moment later.       *)
FTexts == {<<>>, <<one>>, <<two>>, <<one, two>>, <<two, one>>,
           <<one, one, two>>, <<two, one, one>>, <<one, two, one>>}
HTexts == {<<one, two>>, <<two, one, one>>, <<two, one, two>>}

MCNewTexts == {<<one>>, <<two, one>>}
MCTexts == FTexts \cup HTexts \cup MCNewTexts \cup {<<one, one>>}

MCTrees ==
  {[n \in MCNodes |-> CASE n = plain -> s [] n = dot -> t
                        [] n = low -> <<one, one>> [] OTHER -> Dir] :
     s \in FTexts, t \in HTexts}
MCLocked == {{}, {sub}, {plain}}

MCSearchRequests ==
  [path : {top}, re : {{one}}, include : {MCNodes, {plain, low}},
   exclude : {{}, {plain}}, context : {0}, max : {100}]
  \cup [path : {top}, re : {{one}}, include : {MCNodes}, exclude : {{}},
        context : {1, 6}, max : {-1, 0, 1, 2, 100}]
MCListRequests ==
  [path : {top, plain}, depth : {0, 1}, pattern : {MCNodes}, hidden : {FALSE}]
  \cup [path : {top}, depth : {2, 3}, pattern : {MCNodes, {plain}}, hidden : BOOLEAN]
Bounds == {<<NotGiven, NotGiven>>, <<-1, 2>>, <<1, 3>>, <<2, 1>>, <<4, NotGiven>>}
MCDiffRequests ==
  [path : {[a |-> plain, b |-> dot]},
   range : [a : Bounds, b : {<<NotGiven, NotGiven>>, <<1, 2>>}]]
  \cup [path : {[a |-> low, b |-> dot], [a |-> low, b |-> low]},
        range : {[a |-> <<NotGiven, NotGiven>>, b |-> <<NotGiven, NotGiven>>]}]
Ranges == [offset : {-1, 0, 1, 4}, limit : {-1, 0, 2, MaxInt}]
MCReadRequests ==
  [path : {dot, sub},
   ranges : {<<>>} \cup {<<r, [offset |-> 1, limit |-> 1]>> : r \in Ranges}]
===============================================================================
