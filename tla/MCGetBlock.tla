----------------------------- MODULE MCGetBlock -----------------------------
\* The Get Block task explored from three sets of initial states: one node with
\* transfers of several blocks and masks of two bytes ("data"); two nodes that
\* share two slots with stray frames and a task that may run late ("shared"); and
\* two nodes in orderly traffic ("prompt").  The constants of the configuration
\* bound those of the three instances.
EXTENDS GetBlock, TLC

CONSTANTS nodeA, nodeB

VARIABLE instance

Data == INSTANCE GetBlock WITH
  Sources <- {nodeA}, GB_BURST_SIZE <- 2, GB_TIMEOUT <- 2, MAX_DELAY <- 3,
  MaxQuiet <- 2

Shared == INSTANCE GetBlock WITH
  MaxLast <- 0, MaxLength <- 1, Addresses <- {0}, MaxWrites <- 0,
  GB_TIMEOUT <- 2, MAX_DELAY <- 3, MaxQuiet <- 2

OnTime == INSTANCE GetBlock WITH
  MaxLast <- 1, MaxLength <- 1, Addresses <- {0}, MaxWrites <- 0, SendFails <- FALSE

\* The two nodes play the same part where both of them take part.
Nodes == Permutations({nodeA, nodeB})

MCInit == \/ instance = "data" /\ Data!Init /\ ~orderly
          \/ instance = "shared" /\ Shared!Init /\ ~orderly
          \/ instance = "prompt" /\ OnTime!Init /\ orderly

MCNext == /\ UNCHANGED instance
          /\ \/ instance = "data" /\ Data!Next
             \/ instance = "shared" /\ Shared!Next
             \/ instance = "prompt" /\ OnTime!Next

MCSpec == MCInit /\ [][MCNext]_<<instance, vars>>
=============================================================================
