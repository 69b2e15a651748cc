----------------------------- MODULE Statistics -----------------------------
(***************************************************************************)
(* Anul III/Semestrul II/ASC/Tema1 - Le Stats Sportif/app/task_runner.py   *)
(* and data_ingestor.py: what the nine requests compute from the rows of   *)
(* the survey.  A dictionary is a sequence of entries, as json writes it   *)
(* out; a mean is a sum and a count, and no division rounds.               *)
(***************************************************************************)
EXTENDS Integers, Sequences, FiniteSets, TLC, SequencesExt, FiniteSetsExt

CONSTANTS
  Rows,        \* [question, state, category, value]; a category has its
               \* subcategory in it, and is 0 when it is empty
  MaxRows,
  BestIsMin,   \* the questions whose best answer is the least
  BestIsMax,
  Top          \* how many states best5 and worst5 keep

VARIABLES data

statisticsVars == <<data>>

StatisticsInit == data = <<>>
ReadRow(row) == Len(data) < MaxRows /\ data' = Append(data, row)
StatisticsNext == \E row \in Rows : ReadRow(row)
StatisticsSpec == StatisticsInit /\ [][StatisticsNext]_statisticsVars
---------------------------------------------------------------------------
Questions == BestIsMin \cup BestIsMax
States == {row.state : row \in Rows}

Less(a, b) == a[1] * b[2] < b[1] * a[2]
Minus(a, b) == <<a[1] * b[2] - b[1] * a[2], a[2] * b[2]>>
Plus(a, b) == <<a[1] * b[2] + b[1] * a[2], a[2] * b[2]>>

(* s / count, of the rows that match; without one the division by zero     *)
(* ends the request.                                                       *)
ZeroDivisionError == <<0, 0>>
Mean(lines) == <<FoldLeft(LAMBDA a, row : a + row.value, 0, lines), Len(lines)>>

Of(question) == SelectSeq(data, LAMBDA row : row.question = question)
OfState(question, state) == SelectSeq(Of(question), LAMBDA row : row.state = state)

(* finished_data: the mean of each key, by the keys' first appearances.    *)
Averages(lines, key) ==
  LET keys == FoldLeft(LAMBDA ks, row : IF Contains(ks, key[row]) THEN ks
                                        ELSE Append(ks, key[row]), <<>>, lines)
  IN [i \in 1 .. Len(keys) |->
        [key |-> keys[i], mean |-> Mean(SelectSeq(lines, LAMBDA row : key[row] = keys[i]))]]

Ascending(dict) == SortSeq(dict, LAMBDA x, y : Less(x.mean, y.mean))
Descending(dict) == SortSeq(dict, LAMBDA x, y : Less(y.mean, x.mean))
First(dict) == SubSeq(dict, 1, Min({Top, Len(dict)}))

ByState(question) == Averages(Of(question), [row \in Rows |-> row.state])

global_mean(question) == Mean(Of(question))
state_mean(question, state) == Mean(OfState(question, state))
states_mean(question) == Ascending(ByState(question))

worst5(question) ==
  First(IF question \in BestIsMax THEN Ascending(ByState(question))
        ELSE Descending(ByState(question)))

(* Mutant: the list that worst5 asks.                                      *)
BestAsWorst(question) ==
  First(IF question \in BestIsMax THEN Ascending(ByState(question))
        ELSE Descending(ByState(question)))
best5(question) ==
  First(IF question \in BestIsMin THEN Ascending(ByState(question))
        ELSE Descending(ByState(question)))

diff_from_mean(question) ==
  LET means == states_mean(question)
      glb == global_mean(question)
  IN Descending([i \in DOMAIN means |->
       [key |-> means[i].key, mean |-> Minus(glb, means[i].mean)]])

state_diff_from_mean(question, state) ==
  Minus(global_mean(question), state_mean(question, state))

(* Sorted by key: no two entries have one, so the mean never decides.      *)
mean_by_category(question) ==
  SortSeq(Averages(SelectSeq(Of(question), LAMBDA row : row.category # 0),
                   [row \in Rows |-> <<row.state, row.category>>]),
          LAMBDA x, y : \/ x.key[1] < y.key[1]
                        \/ x.key[1] = y.key[1] /\ x.key[2] < y.key[2])

SortedByKey(dict) == SortSeq(dict, LAMBDA x, y : x.key < y.key)

state_mean_by_category(question, state) ==
  SortedByKey(Averages(OfState(question, state), [row \in Rows |-> row.category]))
---------------------------------------------------------------------------
Named(dict) == {dict[i].key : i \in DOMAIN dict}
Answered(question) == {data[i].state : i \in {j \in DOMAIN data : data[j].question = question}}
Better(question, a, b) == IF question \in BestIsMin THEN Less(a, b) ELSE Less(b, a)

(* No state that best5 leaves out is better than one it names, none that   *)
(* worst5 leaves out is worse, and both name as many states as they can.   *)
BestAndWorst ==
  \A q \in Questions :
    LET Of5(five, Before(_, _)) ==
          /\ Cardinality(Named(five)) = Min({Top, Cardinality(Answered(q))})
          /\ \A i \in Named(five), o \in Answered(q) \ Named(five) :
               ~Before(state_mean(q, o), state_mean(q, i))
    IN /\ Of5(best5(q), LAMBDA a, b : Better(q, a, b))
       /\ Of5(worst5(q), LAMBDA a, b : Better(q, b, a))

(* The differences from the global mean, each as often as its state has    *)
(* rows, add up to nothing, and each is the one that is told on its own.   *)
DiffsBalance ==
  \A q \in Questions :
    LET diffs == diff_from_mean(q)
        Weighed(e) == <<e.mean[1] * Len(OfState(q, e.key)), e.mean[2]>>
    IN /\ FoldLeft(LAMBDA a, e : Plus(a, Weighed(e)), <<0, 1>>, diffs)[1] = 0
       /\ \A i \in DOMAIN diffs : diffs[i].mean = state_diff_from_mean(q, diffs[i].key)
       /\ \A i \in 1 .. Len(diffs) - 1 : ~Less(diffs[i].mean, diffs[i + 1].mean)

(* A state's means by category are its part of the means of all states,    *)
(* but for the rows without a category, which only its own answer has.     *)
CategoriesAgree ==
  \A q \in Questions, s \in States :
    LET own == SelectSeq(state_mean_by_category(q, s), LAMBDA e : e.key # 0)
        all == SelectSeq(mean_by_category(q), LAMBDA e : e.key[1] = s)
    IN own = [i \in DOMAIN all |-> [key |-> all[i].key[2], mean |-> all[i].mean]]

(* "sorted by category in ascending order and by average in descending     *)
(* order": here over the categories that all begin alike.                  *)
ByAverage ==
  \A q \in Questions, s \in States :
    LET means == state_mean_by_category(q, s)
    IN \A i \in 1 .. Len(means) - 1 : ~Less(means[i].mean, means[i + 1].mean)
=============================================================================
