----------------------------- MODULE NTServerDocs -----------------------------
(***************************************************************************)
(* What a comment of the repository says of the server's state, stated of  *)
(* NTServer.  The code does otherwise.                                     *)
(***************************************************************************)
EXTENDS NTServer

\* "A count of the number of publishers for each topic.  If a topics count reaches 0
\* it is removed" (inner.rs:136): a topic that a connected client still publishes
\* has not been removed.
PublishedTopicStays ==
  \A c \in connected, u \in PubUIDs :
    pubs[c][u] # None => reg.topics[pubs[c][u]] # None
================================================================================
