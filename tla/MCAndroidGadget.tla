-------------------------- MODULE MCAndroidGadget --------------------------
(***************************************************************************)
(* Instances of AndroidGadget: which names exist and which lists           *)
(* userspace writes.                                                       *)
(***************************************************************************)
EXTENDS AndroidGadget

One(name) == [conf |-> 1, name |-> name]
Two(name) == [conf |-> 2, name |-> name]

MCAliasLists == {{""}, {"adb"}}

\* "mtp,adb", "adb:mtp", "mtp" and "" (which names ffs while no alias is set).
PlainLists ==
    {<<One("mtp"), One("adb")>>, <<One("adb"), Two("mtp")>>, <<One("mtp")>>, <<One("")>>}

\* Besides those, "ffs,adb" and "mtp:mtp".
AllLists ==
    PlainLists \cup {<<One("ffs"), One("adb")>>, <<One("mtp"), Two("mtp")>>}

\* "video,adb", "adb:video", "adb" and "mtp".
VideoLists ==
    {<<One("video"), One("adb")>>, <<One("adb"), Two("video")>>, <<One("adb")>>, <<One("mtp")>>}

BasicFunctions == {"ffs", "mtp"}
AllFunctions == {"ffs", "mtp", "video"}
=============================================================================
