----------------------------- MODULE ChunkStore ------------------------------
(***************************************************************************)
(* The knowledge chunks of a pod (storage/in_memory_store.py) and the      *)
(* retrieval over them (services/retrieval.py). reload-chunks replaces the *)
(* list in place from a worker thread, clear() and then extend(), while    *)
(* retrievals, in threads of their own, walk the same list; the switches   *)
(* of the interpreter come between any two of their steps.                 *)
(***************************************************************************)
EXTENDS Naturals, SequencesExt

CONSTANTS
    Chunks,         \* records with a tenant and a section
    Versions,       \* contents the file may have, sequences of chunks
    Reloaders,      \* threads that serve reload-chunks
    Retrievers,     \* threads that retrieve
    Queries,        \* what they ask for: a tenant and a section, or AnySection
    AnySection,
    MaxReloads      \* bound on the reloads

ASSUME ChunkStoreAssumption ==
    /\ Versions \subseteq Seq(Chunks) /\ Versions # {}
    /\ MaxReloads \in Nat

VARIABLES
    file,       \* the chunks file; <<>> also when it is missing or invalid
    chunkList,  \* IN_MEMORY_CHUNKS
    reloader,   \* per thread: its reload_chunks
    retriever,  \* per thread: its retrieve
    reloads,    \* how many were begun
    offered     \* history: what the latest overlapping reloads have read

chunkStore == <<file, chunkList, reloader, retriever, reloads, offered>>

NoReload == [pc |-> "rest", loaded |-> <<>>]
NoRetrieval == [pc |-> "rest", request |-> [tenant |-> "none", section |-> AnySection],
                index |-> 1, found |-> <<>>, disturbed |-> FALSE]

\* The list is loaded when the module is imported.
ChunkStoreInit ==
    /\ file \in Versions
    /\ chunkList = file
    /\ reloader = [w \in Reloaders |-> NoReload]
    /\ retriever = [q \in Retrievers |-> NoRetrieval]
    /\ reloads = 0
    /\ offered = {file}

-----------------------------------------------------------------------------
EditFile ==
    /\ file' \in Versions \cup {<<>>}
    /\ UNCHANGED <<chunkList, reloader, retriever, reloads, offered>>

Quiet == \A w \in Reloaders : reloader[w].pc = "rest"

\* load_chunks answers an empty list for a file it cannot use.
Load(w) ==
    /\ reloader[w].pc = "rest"
    /\ reloads < MaxReloads
    /\ reloads' = reloads + 1
    /\ reloader' = [reloader EXCEPT ![w] = [pc |-> "loaded", loaded |-> file]]
    /\ offered' = IF Quiet THEN {file} ELSE offered \cup {file}
    /\ UNCHANGED <<file, chunkList, retriever>>

\* Mutant: what was there is kept when the file had nothing to offer.
Cleared_Keeps(w) == IF reloader[w].loaded = <<>> THEN chunkList ELSE <<>>

Cleared(w) == <<>>

\* A clear is felt by every retrieval that is under way.
Clear(w) ==
    /\ reloader[w].pc = "loaded"
    /\ chunkList' = Cleared(w)
    /\ reloader' = [reloader EXCEPT ![w].pc = "cleared"]
    /\ retriever' = [q \in Retrievers |->
          [retriever[q] EXCEPT !.disturbed = @ \/ retriever[q].pc # "rest"]]
    /\ UNCHANGED <<file, reloads, offered>>

Extend(w) ==
    /\ reloader[w].pc = "cleared"
    /\ chunkList' = chunkList \o reloader[w].loaded
    /\ reloader' = [reloader EXCEPT ![w] = NoReload]
    /\ UNCHANGED <<file, retriever, reloads, offered>>

-----------------------------------------------------------------------------
\* Postgres answers first if it is configured and has anything; this retrieval
\* has to do with the list: the store is absent, failed or found nothing.
BeginRetrieval(q) ==
    /\ retriever[q].pc = "rest"
    /\ \E r \in Queries :
          retriever' = [retriever EXCEPT ![q] =
              [NoRetrieval EXCEPT !.pc = "section", !.request = r,
                  !.disturbed = \E w \in Reloaders : reloader[w].pc = "cleared"]]
    /\ UNCHANGED <<file, chunkList, reloader, reloads, offered>>

\* The first walk is over the section; a walk over the tenant may follow.
Candidate(q, chunk) ==
    /\ chunk.tenant = retriever[q].request.tenant
    /\ \/ retriever[q].pc = "tenant"
       \/ retriever[q].request.section \in {AnySection, chunk.section}

\* One turn of the comprehension, over the list as it now is.
Walk(q) ==
    /\ retriever[q].pc \in {"section", "tenant"}
    /\ retriever[q].index <= Len(chunkList)
    /\ LET chunk == chunkList[retriever[q].index] IN
       retriever' = [retriever EXCEPT
          ![q].index = @ + 1,
          ![q].found = IF Candidate(q, chunk) THEN Append(@, chunk) ELSE @]
    /\ UNCHANGED <<file, chunkList, reloader, reloads, offered>>

\* Mutant: a section without chunks is not widened to the tenant.
NextPass_SectionOnly(q) == "found"

NextPass(q) ==
    IF /\ retriever[q].pc = "section"
       /\ retriever[q].found = <<>>
       /\ retriever[q].request.section # AnySection
    THEN "tenant" ELSE "found"

EndWalk(q) ==
    /\ retriever[q].pc \in {"section", "tenant"}
    /\ retriever[q].index > Len(chunkList)
    /\ retriever' = [retriever EXCEPT ![q].pc = NextPass(q), ![q].index = 1]
    /\ UNCHANGED <<file, chunkList, reloader, reloads, offered>>

\* Scoring, cutting to top_k and removing near-duplicates leave the list alone.
Answer(q) ==
    /\ retriever[q].pc = "found"
    /\ retriever' = [retriever EXCEPT ![q] = NoRetrieval]
    /\ UNCHANGED <<file, chunkList, reloader, reloads, offered>>

ChunkStoreNext ==
    \/ EditFile
    \/ \E w \in Reloaders : Load(w) \/ Clear(w) \/ Extend(w)
    \/ \E q \in Retrievers : BeginRetrieval(q) \/ Walk(q) \/ EndWalk(q) \/ Answer(q)

ChunkStoreSpec == ChunkStoreInit /\ [][ChunkStoreNext]_chunkStore

-----------------------------------------------------------------------------
\* Every variable of the chunk store holds values of its type.
ChunkStoreTypeOK ==
    /\ file \in Seq(Chunks) /\ chunkList \in Seq(Chunks)
    /\ \A w \in Reloaders : /\ reloader[w].pc \in {"rest", "loaded", "cleared"}
                            /\ reloader[w].loaded \in Seq(Chunks)
    /\ \A q \in Retrievers : /\ retriever[q].pc \in {"rest", "section", "tenant", "found"}
                             /\ retriever[q].found \in Seq(Chunks)

\* Reloads replace the knowledge, they never damage it: when none is under way
\* the list is one or more whole versions of the file, all read by reloads that
\* overlapped the last one (so a chunk can be in it twice), and nothing else.
WholeVersions ==
    Quiet =>
        \E n \in 1..MaxReloads + 1 : \E read \in [1..n -> offered] :
            chunkList = FlattenSeq(read)

\* A retrieval that comes back with nothing, for a tenant that has chunks, was
\* disturbed by a reload, whatever section it asked for.
EmptyOnlyIfDisturbed ==
    \A q \in Retrievers :
        retriever[q].pc = "found" /\ retriever[q].found = <<>> /\ ~retriever[q].disturbed =>
            \A i \in DOMAIN chunkList : chunkList[i].tenant # retriever[q].request.tenant
==============================================================================
