------------------------------ MODULE Contours ------------------------------
(***************************************************************************)
(* Anul III/Semestrul I/APD/Tema 1/tema1_par.c: an image is rescaled by    *)
(* threads, a share of the rows each, then main samples a grid of points   *)
(* and replaces every square of STEP x STEP pixels by the contour its four *)
(* corners ask for (marching squares).                                     *)
(*                                                                         *)
(* A pixel is 1 when its colour is at most SIGMA and 0 otherwise.          *)
(***************************************************************************)
EXTENDS Integers, FiniteSets, FiniteSetsExt

CONSTANTS
  Sizes,       \* <<x, y>> of the images read
  RESCALE,     \* RESCALE_X and RESCALE_Y
  STEP,
  MaxThreads

None == -1

VARIABLES
  image, threads,
  at,        \* what main does
  row,       \* of each thread: the row it rescales next, or None
  freed,     \* the image read was freed
  scaled,    \* of each row of the new image: the threads that rescaled it
  data,      \* the pixels main works on, or an unfinished image
  grid,      \* the sampled points
  contour    \* of each square: the contour chosen for it

contourVars == <<image, threads, at, row, freed, scaled, data, grid, contour>>

Rows == 0 .. RESCALE - 1
Ids == 0 .. MaxThreads - 1

start(id) == (id * RESCALE) \div threads
end(id) == Min({((id + 1) * RESCALE) \div threads, RESCALE})

Small == image[1] <= RESCALE /\ image[2] <= RESCALE
X == IF Small THEN image[1] ELSE RESCALE
Y == IF Small THEN image[2] ELSE RESCALE

(* read_ppm, init_contour_map: "fork" is for an image to be rescaled.      *)
ContoursInit ==
  /\ image \in Sizes /\ threads \in 1 .. MaxThreads
  /\ at = IF Small THEN "sample" ELSE "fork"
  /\ row = [id \in Ids |-> None] /\ freed = FALSE
  /\ scaled = [i \in Rows |-> {}]
  /\ data \in IF Small THEN [0 .. X * Y - 1 -> {0, 1}] ELSE {<<>>}
  /\ grid = <<>> /\ contour = <<>>

Forked == {id \in Ids : row[id] # None}

pthread_create(id) ==
  /\ at = "fork" /\ id < threads /\ id = Cardinality(Forked)
  /\ row' = [row EXCEPT ![id] = start(id)]
  /\ at' = IF id = threads - 1 THEN "join" ELSE "fork"
  /\ UNCHANGED <<image, threads, freed, scaled, data, grid, contour>>

(* A row of rescale_image_par, which reads the image and writes the row.   *)
rescale_row(id) ==
  /\ row[id] # None /\ row[id] < end(id)
  /\ scaled' = [scaled EXCEPT ![row[id]] = @ \cup {id}]
  /\ row' = [row EXCEPT ![id] = @ + 1]
  /\ UNCHANGED <<image, threads, at, freed, data, grid, contour>>

(* The joins: main goes on, and frees the image read, when every thread    *)
(* has returned.  The pixels of the new image are any.  Mutant: it waits   *)
(* for the last thread only.                                               *)
JoinLast ==
  /\ at = "join" /\ row[threads - 1] = end(threads - 1)
  /\ freed' = TRUE
  /\ data' \in [0 .. X * Y - 1 -> {0, 1}]
  /\ at' = "sample"
  /\ UNCHANGED <<image, threads, row, scaled, grid, contour>>

pthread_join ==
  /\ at = "join" /\ \A id \in Forked : row[id] >= end(id)
  /\ freed' = TRUE
  /\ data' \in [0 .. X * Y - 1 -> {0, 1}]
  /\ at' = "sample"
  /\ UNCHANGED <<image, threads, row, scaled, grid, contour>>

P == X \div STEP
Q == Y \div STEP

(* The pixel a point of the grid is read from: the last column and row of  *)
(* the grid are read from the last of the image, with x for the column's   *)
(* number and y for the length of a row.                                   *)
Pixel(i, j) ==
  IF j = Q THEN i * STEP * Y + X - 1
  ELSE IF i = P THEN (X - 1) * Y + j * STEP
  ELSE i * STEP * Y + j * STEP

sample_grid ==
  /\ at = "sample"
  /\ grid' = [x \in (0 .. P) \X (0 .. Q) |->
       IF x = <<P, Q>> THEN 0
       ELSE IF Pixel(x[1], x[2]) \in DOMAIN data THEN data[Pixel(x[1], x[2])]
       ELSE 0]   \* outside the image: see ReadsInside
  /\ at' = "march"
  /\ UNCHANGED <<image, threads, row, freed, scaled, data, contour>>

(* The contour of a square, by its corners from the upper left clockwise.  *)
Config(i, j) ==
  8 * grid[<<i, j>>] + 4 * grid[<<i, j + 1>>] + 2 * grid[<<i + 1, j + 1>>] + grid[<<i + 1, j>>]

(* Every square of the image gets its contour's pixels; then the image is  *)
(* written.                                                                *)
march ==
  /\ at = "march"
  /\ contour' = [x \in (0 .. P - 1) \X (0 .. Q - 1) |-> Config(x[1], x[2])]
  /\ at' = "written"
  /\ UNCHANGED <<image, threads, row, freed, scaled, data, grid>>

ContoursNext ==
  \/ \E id \in Ids : pthread_create(id)
  \/ \E id \in Ids : rescale_row(id)
  \/ pthread_join \/ sample_grid \/ march

ContoursSpec == ContoursInit /\ [][ContoursNext]_contourVars
---------------------------------------------------------------------------
(* Main samples an image of which every row was rescaled, by one thread,   *)
(* and no thread still reads the image main has freed.                     *)
SampledWhole ==
  at \notin {"fork", "join"} /\ ~Small =>
    /\ freed
    /\ \A i \in Rows : Cardinality(scaled[i]) = 1
    /\ \A id \in Forked : row[id] >= end(id)

(* The contours of neighbouring squares meet: they agree on the corners    *)
(* they share.                                                             *)
Bit(k, b) == (k \div b) % 2
ContoursMeet ==
  at = "written" =>
    \A x, y \in DOMAIN contour :
      /\ (y = <<x[1], x[2] + 1>> =>
            Bit(contour[x], 4) = Bit(contour[y], 8) /\ Bit(contour[x], 2) = Bit(contour[y], 1))
      /\ (y = <<x[1] + 1, x[2]>> =>
            Bit(contour[x], 1) = Bit(contour[y], 8) /\ Bit(contour[x], 2) = Bit(contour[y], 4))

(* Sampling reads pixels of the image only.                                *)
ReadsInside ==
  at = "sample" =>
    \A x \in ((0 .. P) \X (0 .. Q)) \ {<<P, Q>>} : Pixel(x[1], x[2]) \in DOMAIN data
=============================================================================
