--------------------------- MODULE MCEventIngest ---------------------------
(***************************************************************************)
(* The content store in two stories, chosen at the start: one about text   *)
(* (posts, replies, edits, tombstones, purges, data deletion, restarts)    *)
(* and one about files (uploads, attachments, redaction, collection,       *)
(* restarts).  Each leaves out the other's data and nothing of the code.   *)
(* In the first the legacy message is the member's and the owner posts to  *)
(* the sealed channel; in the second the legacy message is the owner's,    *)
(* who may attach anybody's file, and at most two posts attach one.        *)
(***************************************************************************)
EXTENDS EventIngest

CONSTANTS o, a, s, g, b1, m1

VARIABLE story

mcVars == <<storeVars, story>>

MCInit == StoreInit /\ story \in {"text", "files"}

IsPost(i) == log'[i].kind = "post"

NoBlobs ==
    /\ <<fileVars, streaming>>' = <<fileVars, streaming>>
    /\ \A k \in Legacy : k \in DOMAIN rows' => rows'[k].author # o
    /\ \A i \in DOMAIN log' : /\ log'[i].blob = None
                              /\ IsPost(i) /\ log'[i].author = o => log'[i].channel = s

BlobsOnly ==
    /\ \A k \in Legacy : k \in DOMAIN rows' => rows'[k].author # a
    /\ \A k \in DOMAIN rows' : rows'[k].reply = None
    /\ Cardinality({i \in DOMAIN log' : IsPost(i)}) <= 2
    /\ \A i \in DOMAIN log' : /\ log'[i].kind # "edit"
                              /\ IsPost(i) => /\ log'[i].target = None
                                              /\ log'[i].channel = s
                                              /\ log'[i].blob # None

MCNext ==
    /\ StoreNext
    /\ IF story = "text" THEN NoBlobs ELSE BlobsOnly
    /\ UNCHANGED story

MCStoreSpec == MCInit /\ [][MCNext]_mcVars
=============================================================================
