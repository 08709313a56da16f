------------------------------- MODULE MCBrowser -------------------------------
(***************************************************************************)
(* TLC instance of the browser kit.  docs/ui.md offers the parts one by    *)
(* one and together, and each part has its own state: a behaviour uses the *)
(* one it chose at the start, with the bounds that part needs.             *)
(***************************************************************************)
EXTENDS ChatClient, ChatPage, Timeline, Store

CONSTANTS e1, e2, e3, e4, d1, d2, d3, d4, d5

VARIABLE part

parts  == <<clientVars, pageVars, timelineVars, storeVars>>
mcVars == <<part, parts>>

(* Two deliveries of one event, and three more events; the last one has    *)
(* the nonce of the first.                                                 *)
MCEventOf == (d1 :> e1) @@ (d2 :> e1) @@ (d3 :> e2) @@ (d4 :> e3) @@ (d5 :> e4)
MCNonceOf == [e \in {e1, e2, e3, e4} |-> IF e = e4 THEN e1 ELSE e]

PageOff ==
  /\ ComposerInit /\ life = "over" /\ promise = [p \in Requests |-> "none"] /\ chain = "done"
  /\ say = [k \in 1 .. PageSends |-> "none"] /\ handler = [d \in Deliveries |-> "none"]
  /\ view = <<>> /\ hidden = {} /\ taken = {} /\ banner = "offline" /\ enabled = FALSE
  /\ closeSeen = TRUE /\ gone = TRUE

TimelineOff == removed = FALSE /\ Rendered(<<>>)

MCInit ==
  /\ ClientInit /\ StoreInit
  /\ \/ part \in {"client", "composer", "store"} /\ PageOff /\ TimelineOff
     \/ part \in {"page", "feed"} /\ PageInit /\ TimelineOff
     \/ part = "timeline" /\ PageOff /\ TimelineInit

(* The page is run twice: written in while one event is delivered twice,   *)
(* and reading three of the deliveries once it is ready.                   *)
Written == \A d \in {d3, d4, d5} : handler'[d] = "none"
Read ==
  /\ UNCHANGED <<inputs, say>>
  /\ handler' # handler => chain = "done"
  /\ Cardinality({d \in Deliveries : handler'[d] # "none"}) <= 3

MCNext ==
  /\ UNCHANGED part
  /\ \/ part = "client" /\ ClientNext /\ UNCHANGED <<pageVars, timelineVars, storeVars>>
     \/ part = "page" /\ PageNext /\ Written /\ UNCHANGED <<clientVars, timelineVars, storeVars>>
     \/ part = "feed" /\ PageNext /\ Read /\ UNCHANGED <<clientVars, timelineVars, storeVars>>
     \/ part = "timeline" /\ TimelineNext /\ UNCHANGED <<clientVars, pageVars, storeVars>>
     \/ part = "store" /\ StoreNext /\ UNCHANGED <<clientVars, pageVars, timelineVars>>
     \/ /\ part = "composer" /\ ComposerNext
        /\ UNCHANGED <<clientSide, chain, say, handler, listed, panel, closeSeen, gone,
                       clientVars, timelineVars, storeVars>>

MCSpec == MCInit /\ [][MCNext]_mcVars /\ ClientFairness /\ PageFairness
================================================================================
