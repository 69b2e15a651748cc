----------------------------- MODULE MCMachines -----------------------------
(* The instances TLC checks of four programs: the dispatcher of tasks       *)
(* (MyDispatcher), the parallel contours, the web client and the statistics *)
(* of the survey.  Each behaviour is of one of them, and the state of the   *)
(* others does not change.                                                  *)
EXTENDS MyDispatcher

CONSTANTS Sizes, RESCALE, STEP, MaxThreads,
          Sessions, Limit, HEADER_TERMINATOR_SIZE, MaxHeader, MaxBody, SIZE_MAX,
          MaxRows, BestIsMin, BestIsMax, Top

ASSUME ImageConstants ==
  /\ Sizes \subseteq Nat \X Nat /\ RESCALE \in Nat \ {0} /\ STEP \in Nat \ {0}
  /\ MaxThreads \in Nat

ASSUME ClientConstants ==
  /\ HEADER_TERMINATOR_SIZE \in Nat /\ MaxHeader \in Nat /\ MaxBody \in Nat
  /\ MaxHeader > HEADER_TERMINATOR_SIZE
  /\ SIZE_MAX \in Nat /\ SIZE_MAX >= MaxHeader + MaxBody

VARIABLES on,
          image, threads, phase, row, freed, scaled, pixels, grid, contour,
          at, command, answer, response, received, total, closed, logged_in, library, cookie, token,
          session, latest, open,
          data

SurveyRow(q, s, c, v) == [question |-> q, state |-> s, category |-> c, value |-> v]
SurveyRows ==
  {SurveyRow(q, s, 1, v) : q \in {1, 2}, s \in {1, 2, 3}, v \in {1, 4}}
    \cup {SurveyRow(1, 1, c, v) : c \in {0, 2}, v \in {1, 4}}

Images == INSTANCE Contours WITH at <- phase, data <- pixels
Client == INSTANCE WebClient WITH size <- received
Survey == INSTANCE Statistics WITH Rows <- SurveyRows

imageVars == <<image, threads, phase, row, freed, scaled, pixels, grid, contour>>
clientVars == <<at, command, answer, response, received, total, closed, logged_in, library, cookie,
                token, session, latest, open>>

MachinesInit ==
  /\ on \in {"dispatcher", "contours", "client", "statistics"}
  /\ Init /\ (on # "dispatcher" => algorithm = "ROUND_ROBIN")
  /\ Images!ContoursInit /\ (on # "contours" => image = <<5, 4>> /\ threads = 1)
  /\ Client!ClientInit /\ Survey!StatisticsInit

DispatcherStep == on = "dispatcher" /\ Next /\ UNCHANGED <<imageVars, clientVars, data>>
ContoursStep == on = "contours" /\ Images!ContoursNext /\ UNCHANGED <<vars, clientVars, data>>
ClientStep == on = "client" /\ Client!ClientNext /\ UNCHANGED <<vars, imageVars, data>>
StatisticsStep ==
  on = "statistics" /\ Survey!StatisticsNext /\ UNCHANGED <<vars, imageVars, clientVars>>

MachinesNext ==
  UNCHANGED on /\ (DispatcherStep \/ ContoursStep \/ ClientStep \/ StatisticsStep)

MachinesSpec ==
  MachinesInit /\ [][MachinesNext]_<<on, vars, imageVars, clientVars, data>>
---------------------------------------------------------------------------
ImageSizes == {<<2, 2>>, <<2, 3>>, <<3, 3>>, <<5, 4>>}
ImageWide == {<<3, 2>>, <<5, 4>>}
---------------------------------------------------------------------------
(* MyDispatcher.java: round robin gives no host two tasks more than another *)
(* has, and the scans choose a host no more loaded than the least loaded    *)
(* one was at the call, though loads change during the scan.                *)
ChoosesFairly == []Balanced /\ LeastLoaded
(* tema1_par.c: main samples an image every row of which one thread has     *)
(* rescaled, no thread reads the image main has freed, and the contours of  *)
(* neighbouring squares agree on the corners they share.                    *)
ContoursRight == on = "contours" => Images!SampledWhole /\ Images!ContoursMeet
(* Sampling reads pixels of the image only.                                 *)
ReadsInside == on = "contours" => Images!ReadsInside
(* client.c: the token sent belongs to the session whose cookie is sent.    *)
OwnToken == on = "client" => Client!OwnToken
(* helpers.c: in whatever pieces a response comes, all of it is received    *)
(* and no more is waited for, so that nothing in it is missed.              *)
PiecesDoNotMatter == on = "client" => Client!PiecesDoNotMatter
(* Who is told to have entered the library was let in (client.c).           *)
EnteredMeansAccess == Client!EnteredMeansAccess
(* The client ends on exit only (client.c).                                 *)
EndsOnExit == Client!EndsOnExit
(* task_runner.py: the requests agree with one another.  best5 and worst5   *)
(* name extremes, each by the right end; the differences from the mean add  *)
(* up to nothing; a state's means by category are its part of all states'.  *)
StatisticsAgree ==
  on = "statistics" => Survey!BestAndWorst /\ Survey!DiffsBalance /\ Survey!CategoriesAgree
(* Means are in descending order within a state (task_runner.py).           *)
ByAverage == on = "statistics" => Survey!ByAverage
=============================================================================
