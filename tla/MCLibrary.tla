----------------------------- MODULE MCLibrary ------------------------------
(* The smaller components, one of them in each behaviour.                  *)
EXTENDS Chunker, DriveRegistry, Logger, MerkleTree, RetryLoop

CONSTANT Text  \* an ordinary content

VARIABLE part

\* Bytes are the numbers 0 and 1; like the real one, the fingerprint depends on
\* all bytes of the chunk and their order.
CyclicCheck(bytes) == FoldLeft(LAMBDA fp, b : (3 * fp + b + 1) % 7, 0, bytes)

TwoLevels == {<<1>>, <<2>>, <<2, 1>>, <<2, 2>>, <<3, 1>>}

\* Besides Text, nothing, and the list of a directory with one file like it.
TextsAndLists == {Text, EmptyBag, SetToBag({Text})}

\* 2 is 1 with a dash in it.
DashesDropped == <<1, 1, 3>>

chunkerVars == <<data>>

LibraryInit ==
  /\ part \in {"chunker", "logger", "merkle", "registry", "retry"}
  /\ ChunkerInit /\ MerkleInit /\ LoggerInit /\ RegistryInit /\ RetryInit
  /\ part # "logger" => \A s \in Seconds : now <= s
  /\ part # "retry" => heldFor = 0

LibraryNext ==
  /\ part' = part
  /\ \/ /\ part = "chunker" /\ ChunkerNext
        /\ UNCHANGED <<merkleVars, loggerVars, registryVars, retryVars>>
     \/ /\ part = "merkle" /\ MerkleNext
        /\ UNCHANGED <<chunkerVars, loggerVars, registryVars, retryVars>>
     \/ /\ part = "logger" /\ LoggerNext
        /\ UNCHANGED <<chunkerVars, merkleVars, registryVars, retryVars>>
     \/ /\ part = "registry" /\ RegistryNext
        /\ UNCHANGED <<chunkerVars, merkleVars, loggerVars, retryVars>>
     \/ /\ part = "retry" /\ RetryNext
        /\ UNCHANGED <<chunkerVars, merkleVars, loggerVars, registryVars>>

LibrarySpec ==
  LibraryInit
    /\ [][LibraryNext]_<<part, chunkerVars, merkleVars, loggerVars, registryVars, retryVars>>
=============================================================================
