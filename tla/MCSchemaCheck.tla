---------------------------- MODULE MCSchemaCheck ---------------------------
(* Classes for SchemaCheck: a tree with a fault at the bottom, a pair that  *)
(* is recursive and faulty, one that is recursive and sound.                *)
EXTENDS SchemaCheck, TLC

MCFields ==
    ("Outer" :> <<"Node", "Inner">>) @@
    ("Inner" :> <<Plain, Bad>>) @@
    ("Node"  :> <<"Node", "Other">>) @@
    ("Other" :> <<Plain, "Node">>) @@
    ("Ring"  :> <<"Loop", Bad>>) @@
    ("Loop"  :> <<"Ring">>) @@
    ("Early" :> <<"Later">>) @@
    ("Later" :> <<"Inner">>)

=============================================================================
