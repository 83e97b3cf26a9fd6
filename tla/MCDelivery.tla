----------------------------- MODULE MCDelivery -----------------------------
(* Delivery as the .cfg files of its runs instantiate it. *)
EXTENDS Delivery, TLC

CONSTANTS rt, daily

AllRealtime      == [s \in Subs |-> "realtime"]
RealtimeAndDaily == [s \in Subs |-> IF s = daily THEN "daily" ELSE "realtime"]
ThreeInstants    == [s \in Subs |-> 3]
OneSection       == [s \in Subs |-> [c \in Contents |-> "section"]]
ShowOne          == [s \in Subs |-> 1]
Email            == [s \in Subs |-> "email"]
WechatAndEmail   == [s \in Subs |-> IF s = rt THEN "wechat" ELSE "email"]

\* One rule that names a source and words, one that is content with any of its
\* words or tags; both accept the news.
News == [words |-> {"model", "checker"}, tags |-> {"logic"},
         disciplineTags |-> {}, source |-> "feed"]
Strict == [required |-> {"model"}, excluded |-> {"offer"}, plain |-> {}, tags |-> {},
           disciplineTags |-> {}, sources |-> {"feed"}, minScore |-> 0]
Loose  == [required |-> {}, excluded |-> {"offer"}, plain |-> {"checker"},
           tags |-> {"logic"}, disciplineTags |-> {}, sources |-> {}, minScore |-> 0]
StrictAndLoose == [s \in Subs |-> IF s = rt THEN Strict ELSE Loose]
AllNews == [c \in Contents |-> News]
Interchangeable  == Permutations(Beats) \union Permutations(Contents)
=============================================================================
