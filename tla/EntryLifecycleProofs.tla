------------------------ MODULE EntryLifecycleProofs ------------------------
(***************************************************************************)
(* What holds of one PLC's entry for every number of dialogs, updates,     *)
(* faults, outages and mishaps, and whatever the configurations are: types *)
(* and connections first, then the points that are read.                   *)
(***************************************************************************)
EXTENDS EntryLifecycle, SublistsProofs

(* The connection in hass.data is in use, not what a failed setup left.    *)
Live == job \in {"exporting", "forwarding", "unloading"} \/ state = "loaded"

(* What the job under way holds, and what hass.data must have.             *)
Phased ==
    /\ state = "absent" => added = 0 /\ job = "free" /\ stored = None
    /\ job \in InSetup <=> state = "setup_in_progress"
    /\ job \in InUnload <=> state = "unload_in_progress"
    /\ IF job \in {"starting", "closing", "dropping"} THEN held \in open ELSE held = None
    /\ Live => stored # None /\ stored.plc \in open

(* Connections that nobody will close; LeaksBounded does not count the one *)
(* a failed setup has left in hass.data, which the next setup forgets.     *)
Leaked == (open \ {held}) \ (IF Live THEN {stored.plc} ELSE {})

IInv == /\ TypeOK /\ Phased /\ ProbesClosed /\ added <= 1
        /\ IsFiniteSet(open) /\ Cardinality(Leaked) <= mishaps

LEMMA InitIInv == Init => IInv
<1> SUFFICES ASSUME Init PROVE IInv
    OBVIOUS
<1>1. TypeOK
    BY LifecycleAssumption DEF Init, TypeOK, NewConfig
<1>2. Phased /\ ProbesClosed /\ added <= 1
    BY DEF Init, Phased, ProbesClosed, Live, InSetup, InUnload
<1>3. open = {} /\ Leaked = {} /\ mishaps = 0
    BY DEF Init, Leaked
<1>4. IsFiniteSet({}) /\ Cardinality({}) = 0
    BY FS_EmptySet
<1> QED BY <1>1, <1>2, <1>3, <1>4 DEF IInv

-----------------------------------------------------------------------------
(* Types. *)
LEMMA TypeStep ==
    ASSUME TypeOK, Phased, [Next]_vars
    PROVE  TypeOK'
<1> USE LifecycleAssumption DEF TypeOK, InSetup, InUnload
<1>1. ASSUME NEW plc \in Connections, ConnectOk(plc) PROVE TypeOK'
    BY <1>1 DEF ConnectOk, flowVars, taskVars, plcVars
<1>2. ASSUME ConnectAdsError PROVE TypeOK'
    BY <1>2 DEF ConnectAdsError, AdsError, NotReady, Leave, flowVars, taskVars, plcVars
<1>3. ASSUME StartOk PROVE TypeOK'
    <2>1. held \in Connections
        BY <1>3 DEF StartOk, Phased
    <2>2. stored' \in Stored
        BY <1>3, <2>1 DEF StartOk, Stored
    <2> QED BY <1>3, <2>2 DEF StartOk, flowVars, taskVars, plcVars
<1>4. ASSUME StartError PROVE TypeOK'
    BY <1>4 DEF StartError, AdsError, flowVars, taskVars, plcVars
<1>5. ASSUME CloseAndRaise PROVE TypeOK'
    BY <1>5 DEF CloseAndRaise, NotReady, Leave, flowVars, taskVars, plcVars
<1>6. ASSUME ExportOver PROVE TypeOK'
    BY <1>6 DEF ExportOver, flowVars, taskVars, plcVars
<1>7. ASSUME Forwarded PROVE TypeOK'
    BY <1>7 DEF Forwarded, Leave, flowVars, taskVars, plcVars
<1>8. ASSUME Retry PROVE TypeOK'
    BY <1>8 DEF Retry, StartSetup, flowVars, taskVars, plcVars
<1>9. ASSUME Reload PROVE TypeOK'
    BY <1>9 DEF Reload, StartSetup, flowVars, jobVars, plcVars
<1>10. ASSUME ListenerExported PROVE TypeOK'
    BY <1>10 DEF ListenerExported, flowVars, jobVars, plcVars
<1>11. ASSUME UnloadPlatforms PROVE TypeOK'
    BY <1>11 DEF UnloadPlatforms, Live, Phased, Stored, flowVars, taskVars, plcVars
<1>12. ASSUME DropConnection PROVE TypeOK'
    BY <1>12 DEF DropConnection, StartSetup, flowVars, taskVars, plcVars
<1>13. ASSUME ConnectOtherError PROVE TypeOK'
    BY <1>13 DEF ConnectOtherError, Mishap, Failed, Leave, flowVars, taskVars, plcVars
<1>14. ASSUME CloseError PROVE TypeOK'
    BY <1>14 DEF CloseError, Mishap, Failed, Leave, flowVars, taskVars, plcVars
<1>15. ASSUME ForwardError PROVE TypeOK'
    BY <1>15 DEF ForwardError, Mishap, Failed, Leave, flowVars, taskVars, plcVars
<1>16. ASSUME Cancel PROVE TypeOK'
    BY <1>16 DEF Cancel, Mishap, Failed, Leave, flowVars, taskVars, plcVars
<1>17. ASSUME UnloadRefused PROVE TypeOK'
    BY <1>17 DEF UnloadRefused, Mishap, Leave, flowVars, taskVars, plcVars
<1>18. ASSUME DropError PROVE TypeOK'
    BY <1>18 DEF DropError, Mishap, Leave, flowVars, taskVars, plcVars
<1>19. ASSUME NEW f \in Flows, SubmitUser(f) PROVE TypeOK'
    BY <1>19 DEF SubmitUser, taskVars, jobVars, plcVars
<1>20. ASSUME NEW f \in Flows, ProbeOpen(f) PROVE TypeOK'
    BY <1>20 DEF ProbeOpen, AdsError, taskVars, jobVars, plcVars
<1>21. ASSUME NEW f \in Flows, ProbeRead(f) PROVE TypeOK'
    BY <1>21 DEF ProbeRead, AdsError, taskVars, jobVars, plcVars
<1>22. ASSUME NEW f \in Flows, CannotConnect(f) PROVE TypeOK'
    BY <1>22 DEF CannotConnect, taskVars, jobVars, plcVars
<1>23. ASSUME NEW f \in Flows, FinishUser(f) PROVE TypeOK'
    BY <1>23 DEF FinishUser, Create, StartSetup, NewConfig, taskVars, jobVars, plcVars
<1>24. ASSUME NEW c \in Configs, ImportNew(c) PROVE TypeOK'
    BY <1>24 DEF ImportNew, Create, StartSetup, taskVars, plcVars
<1>25. ASSUME NEW c \in Configs, UpdateOptions(c) PROVE TypeOK'
    BY <1>25 DEF UpdateOptions, Called, flowVars, jobVars, plcVars
<1>26. ASSUME AskReload PROVE TypeOK'
    BY <1>26 DEF AskReload, flowVars, jobVars, plcVars
<1>27. ASSUME PlcDown PROVE TypeOK'
    <2>1. outages' \in 0 .. MaxOutages
        BY <1>27 DEF PlcDown
    <2> QED BY <1>27, <2>1 DEF PlcDown, flowVars, taskVars, jobVars
<1>28. ASSUME PlcUp PROVE TypeOK'
    BY <1>28 DEF PlcUp, flowVars, taskVars, jobVars
<1>29. ASSUME Settled PROVE TypeOK'
    BY <1>29 DEF Settled, vars, flowVars, taskVars, jobVars, plcVars
<1>30. CASE UNCHANGED vars
    BY <1>30 DEF vars, flowVars, taskVars, jobVars, plcVars
<1> QED
    BY <1>1, <1>2, <1>3, <1>4, <1>5, <1>6, <1>7, <1>8, <1>9, <1>10, <1>11, <1>12, <1>13,
       <1>14, <1>15, <1>16, <1>17, <1>18, <1>19, <1>20, <1>21, <1>22, <1>23, <1>24, <1>25,
       <1>26, <1>27, <1>28, <1>29, <1>30
       DEF Next, Setup, Unload, Trouble, UserStep

-----------------------------------------------------------------------------
(* What the job holds, what hass.data has. *)
LEMMA PhasedStep ==
    ASSUME TypeOK, Phased, [Next]_vars
    PROVE  Phased'
<1> USE LifecycleAssumption, StoredAssumption DEF TypeOK, Phased, Live, InSetup, InUnload
<1>1. ASSUME NEW plc \in Connections, ConnectOk(plc) PROVE Phased'
    BY <1>1 DEF ConnectOk, flowVars, taskVars, plcVars
<1>2. ASSUME ConnectAdsError PROVE Phased'
    BY <1>2 DEF ConnectAdsError, AdsError, NotReady, Leave, flowVars, taskVars, plcVars
<1>3. ASSUME StartOk PROVE Phased'
    <2>1. stored' \in Stored /\ stored'.plc \in open
        BY <1>3 DEF StartOk, Stored
    <2> QED BY <1>3, <2>1 DEF StartOk, flowVars, taskVars, plcVars
<1>4. ASSUME StartError PROVE Phased'
    BY <1>4 DEF StartError, AdsError, flowVars, taskVars, plcVars
<1>5. ASSUME CloseAndRaise PROVE Phased'
    BY <1>5 DEF CloseAndRaise, NotReady, Leave, flowVars, taskVars, plcVars
<1>6. ASSUME ExportOver PROVE Phased'
    BY <1>6 DEF ExportOver, flowVars, taskVars, plcVars
<1>7. ASSUME Forwarded PROVE Phased'
    BY <1>7 DEF Forwarded, Leave, flowVars, taskVars, plcVars
<1>8. ASSUME Retry PROVE Phased'
    BY <1>8 DEF Retry, StartSetup, flowVars, taskVars, plcVars
<1>9. ASSUME Reload PROVE Phased'
    BY <1>9 DEF Reload, StartSetup, flowVars, jobVars, plcVars
<1>10. ASSUME ListenerExported PROVE Phased'
    BY <1>10 DEF ListenerExported, flowVars, jobVars, plcVars
<1>11. ASSUME UnloadPlatforms PROVE Phased'
    BY <1>11 DEF UnloadPlatforms, flowVars, taskVars, plcVars
<1>12. ASSUME DropConnection PROVE Phased'
    BY <1>12 DEF DropConnection, StartSetup, flowVars, taskVars, plcVars
<1>13. ASSUME ConnectOtherError PROVE Phased'
    BY <1>13 DEF ConnectOtherError, Mishap, Failed, Leave, flowVars, taskVars, plcVars
<1>14. ASSUME CloseError PROVE Phased'
    BY <1>14 DEF CloseError, Mishap, Failed, Leave, flowVars, taskVars, plcVars
<1>15. ASSUME ForwardError PROVE Phased'
    BY <1>15 DEF ForwardError, Mishap, Failed, Leave, flowVars, taskVars, plcVars
<1>16. ASSUME Cancel PROVE Phased'
    BY <1>16 DEF Cancel, Mishap, Failed, Leave, flowVars, taskVars, plcVars
<1>17. ASSUME UnloadRefused PROVE Phased'
    BY <1>17 DEF UnloadRefused, Mishap, Leave, flowVars, taskVars, plcVars
<1>18. ASSUME DropError PROVE Phased'
    BY <1>18 DEF DropError, Mishap, Leave, flowVars, taskVars, plcVars
<1>19. ASSUME NEW f \in Flows, SubmitUser(f) PROVE Phased'
    BY <1>19 DEF SubmitUser, taskVars, jobVars, plcVars
<1>20. ASSUME NEW f \in Flows, ProbeOpen(f) PROVE Phased'
    BY <1>20 DEF ProbeOpen, AdsError, taskVars, jobVars, plcVars
<1>21. ASSUME NEW f \in Flows, ProbeRead(f) PROVE Phased'
    BY <1>21 DEF ProbeRead, AdsError, taskVars, jobVars, plcVars
<1>22. ASSUME NEW f \in Flows, CannotConnect(f) PROVE Phased'
    BY <1>22 DEF CannotConnect, taskVars, jobVars, plcVars
<1>23. ASSUME NEW f \in Flows, FinishUser(f) PROVE Phased'
    BY <1>23 DEF FinishUser, Create, StartSetup, NewConfig, taskVars, jobVars, plcVars
<1>24. ASSUME NEW c \in Configs, ImportNew(c) PROVE Phased'
    BY <1>24 DEF ImportNew, Create, StartSetup, taskVars, plcVars
<1>25. ASSUME NEW c \in Configs, UpdateOptions(c) PROVE Phased'
    BY <1>25 DEF UpdateOptions, Called, flowVars, jobVars, plcVars
<1>26. ASSUME AskReload PROVE Phased'
    BY <1>26 DEF AskReload, flowVars, jobVars, plcVars
<1>27. ASSUME PlcDown PROVE Phased'
    BY <1>27 DEF PlcDown, flowVars, taskVars, jobVars
<1>28. ASSUME PlcUp PROVE Phased'
    BY <1>28 DEF PlcUp, flowVars, taskVars, jobVars
<1>29. ASSUME Settled PROVE Phased'
    BY <1>29 DEF Settled, vars, flowVars, taskVars, jobVars, plcVars
<1>30. CASE UNCHANGED vars
    BY <1>30 DEF vars, flowVars, taskVars, jobVars, plcVars
<1> QED
    BY <1>1, <1>2, <1>3, <1>4, <1>5, <1>6, <1>7, <1>8, <1>9, <1>10, <1>11, <1>12, <1>13,
       <1>14, <1>15, <1>16, <1>17, <1>18, <1>19, <1>20, <1>21, <1>22, <1>23, <1>24, <1>25,
       <1>26, <1>27, <1>28, <1>29, <1>30
       DEF Next, Setup, Unload, Trouble, UserStep

(* Dialogs and entries. *)
LEMMA FlowStep ==
    ASSUME TypeOK, Phased, ProbesClosed, added <= 1, [Next]_vars
    PROVE  ProbesClosed' /\ added' <= 1
<1> USE DEF TypeOK, Phased, ProbesClosed
<1>1. ASSUME NEW plc \in Connections, ConnectOk(plc) PROVE ProbesClosed' /\ added' <= 1
    BY <1>1 DEF ConnectOk, flowVars, taskVars, plcVars
<1>2. ASSUME ConnectAdsError PROVE ProbesClosed' /\ added' <= 1
    BY <1>2 DEF ConnectAdsError, AdsError, NotReady, Leave, flowVars, taskVars, plcVars
<1>3. ASSUME StartOk PROVE ProbesClosed' /\ added' <= 1
    BY <1>3 DEF StartOk, flowVars, taskVars, plcVars
<1>4. ASSUME StartError PROVE ProbesClosed' /\ added' <= 1
    BY <1>4 DEF StartError, AdsError, flowVars, taskVars, plcVars
<1>5. ASSUME CloseAndRaise PROVE ProbesClosed' /\ added' <= 1
    BY <1>5 DEF CloseAndRaise, NotReady, Leave, flowVars, taskVars, plcVars
<1>6. ASSUME ExportOver PROVE ProbesClosed' /\ added' <= 1
    BY <1>6 DEF ExportOver, flowVars, taskVars, plcVars
<1>7. ASSUME Forwarded PROVE ProbesClosed' /\ added' <= 1
    BY <1>7 DEF Forwarded, Leave, flowVars, taskVars, plcVars
<1>8. ASSUME Retry PROVE ProbesClosed' /\ added' <= 1
    BY <1>8 DEF Retry, StartSetup, flowVars, taskVars, plcVars
<1>9. ASSUME Reload PROVE ProbesClosed' /\ added' <= 1
    BY <1>9 DEF Reload, StartSetup, flowVars, jobVars, plcVars
<1>10. ASSUME ListenerExported PROVE ProbesClosed' /\ added' <= 1
    BY <1>10 DEF ListenerExported, flowVars, jobVars, plcVars
<1>11. ASSUME UnloadPlatforms PROVE ProbesClosed' /\ added' <= 1
    BY <1>11 DEF UnloadPlatforms, flowVars, taskVars, plcVars
<1>12. ASSUME DropConnection PROVE ProbesClosed' /\ added' <= 1
    BY <1>12 DEF DropConnection, StartSetup, flowVars, taskVars, plcVars
<1>13. ASSUME ConnectOtherError PROVE ProbesClosed' /\ added' <= 1
    BY <1>13 DEF ConnectOtherError, Mishap, Failed, Leave, flowVars, taskVars, plcVars
<1>14. ASSUME CloseError PROVE ProbesClosed' /\ added' <= 1
    BY <1>14 DEF CloseError, Mishap, Failed, Leave, flowVars, taskVars, plcVars
<1>15. ASSUME ForwardError PROVE ProbesClosed' /\ added' <= 1
    BY <1>15 DEF ForwardError, Mishap, Failed, Leave, flowVars, taskVars, plcVars
<1>16. ASSUME Cancel PROVE ProbesClosed' /\ added' <= 1
    BY <1>16 DEF Cancel, Mishap, Failed, Leave, flowVars, taskVars, plcVars
<1>17. ASSUME UnloadRefused PROVE ProbesClosed' /\ added' <= 1
    BY <1>17 DEF UnloadRefused, Mishap, Leave, flowVars, taskVars, plcVars
<1>18. ASSUME DropError PROVE ProbesClosed' /\ added' <= 1
    BY <1>18 DEF DropError, Mishap, Leave, flowVars, taskVars, plcVars
<1>19. ASSUME NEW f \in Flows, SubmitUser(f) PROVE ProbesClosed' /\ added' <= 1
    BY <1>19 DEF SubmitUser, taskVars, jobVars, plcVars
<1>20. ASSUME NEW f \in Flows, ProbeOpen(f) PROVE ProbesClosed' /\ added' <= 1
    BY <1>20 DEF ProbeOpen, AdsError, taskVars, jobVars, plcVars
<1>21. ASSUME NEW f \in Flows, ProbeRead(f) PROVE ProbesClosed' /\ added' <= 1
    BY <1>21 DEF ProbeRead, AdsError, taskVars, jobVars, plcVars
<1>22. ASSUME NEW f \in Flows, CannotConnect(f) PROVE ProbesClosed' /\ added' <= 1
    BY <1>22 DEF CannotConnect, taskVars, jobVars, plcVars
<1>23. ASSUME NEW f \in Flows, FinishUser(f) PROVE ProbesClosed' /\ added' <= 1
    BY <1>23 DEF FinishUser, Create, StartSetup, NewConfig, taskVars, jobVars, plcVars
<1>24. ASSUME NEW c \in Configs, ImportNew(c) PROVE ProbesClosed' /\ added' <= 1
    BY <1>24 DEF ImportNew, Create, StartSetup, taskVars, plcVars
<1>25. ASSUME NEW c \in Configs, UpdateOptions(c) PROVE ProbesClosed' /\ added' <= 1
    BY <1>25 DEF UpdateOptions, Called, flowVars, jobVars, plcVars
<1>26. ASSUME AskReload PROVE ProbesClosed' /\ added' <= 1
    BY <1>26 DEF AskReload, flowVars, jobVars, plcVars
<1>27. ASSUME PlcDown PROVE ProbesClosed' /\ added' <= 1
    BY <1>27 DEF PlcDown, flowVars, taskVars, jobVars
<1>28. ASSUME PlcUp PROVE ProbesClosed' /\ added' <= 1
    BY <1>28 DEF PlcUp, flowVars, taskVars, jobVars
<1>29. ASSUME Settled PROVE ProbesClosed' /\ added' <= 1
    BY <1>29 DEF Settled, vars, flowVars, taskVars, jobVars, plcVars
<1>30. CASE UNCHANGED vars
    BY <1>30 DEF vars, flowVars, taskVars, jobVars, plcVars
<1> QED
    BY <1>1, <1>2, <1>3, <1>4, <1>5, <1>6, <1>7, <1>8, <1>9, <1>10, <1>11, <1>12, <1>13,
       <1>14, <1>15, <1>16, <1>17, <1>18, <1>19, <1>20, <1>21, <1>22, <1>23, <1>24, <1>25,
       <1>26, <1>27, <1>28, <1>29, <1>30
       DEF Next, Setup, Unload, Trouble, UserStep

-----------------------------------------------------------------------------
(* Connections.  A step loses none, or it is a mishap and loses one.       *)
Kept == mishaps' = mishaps /\ Leaked' \subseteq Leaked
Lost == mishaps' = mishaps + 1 /\ \E x : Leaked' \subseteq Leaked \union {x}
Opened == \E x : open' \subseteq open \union {x}

LEMMA LeakStep ==
    ASSUME TypeOK, Phased, [Next]_vars
    PROVE  (Kept \/ Lost) /\ Opened
<1> USE DEF Phased, Leaked, Live, InSetup, InUnload, Kept, Opened
<1>0. None \notin open
    BY LifecycleAssumption DEF TypeOK
<1>1. ASSUME NEW plc \in Connections, ConnectOk(plc) PROVE (Kept \/ Lost) /\ Opened
    BY <1>1, <1>0 DEF ConnectOk, flowVars, taskVars, plcVars
<1>2. ASSUME ConnectAdsError PROVE (Kept \/ Lost) /\ Opened
    BY <1>2 DEF ConnectAdsError, AdsError, NotReady, Leave, flowVars, taskVars, plcVars
<1>3. ASSUME StartOk PROVE (Kept \/ Lost) /\ Opened
    BY <1>3 DEF StartOk, flowVars, taskVars, plcVars
<1>4. ASSUME StartError PROVE (Kept \/ Lost) /\ Opened
    BY <1>4 DEF StartError, AdsError, flowVars, taskVars, plcVars
<1>5. ASSUME CloseAndRaise PROVE (Kept \/ Lost) /\ Opened
    BY <1>5 DEF CloseAndRaise, NotReady, Leave, flowVars, taskVars, plcVars
<1>6. ASSUME ExportOver PROVE (Kept \/ Lost) /\ Opened
    BY <1>6 DEF ExportOver, flowVars, taskVars, plcVars
<1>7. ASSUME Forwarded PROVE (Kept \/ Lost) /\ Opened
    BY <1>7 DEF Forwarded, Leave, flowVars, taskVars, plcVars
<1>8. ASSUME Retry PROVE (Kept \/ Lost) /\ Opened
    BY <1>8 DEF Retry, StartSetup, flowVars, taskVars, plcVars
<1>9. ASSUME Reload PROVE (Kept \/ Lost) /\ Opened
    BY <1>9 DEF Reload, StartSetup, flowVars, jobVars, plcVars
<1>10. ASSUME ListenerExported PROVE (Kept \/ Lost) /\ Opened
    BY <1>10 DEF ListenerExported, flowVars, jobVars, plcVars
<1>11. ASSUME UnloadPlatforms PROVE (Kept \/ Lost) /\ Opened
    BY <1>11, <1>0 DEF UnloadPlatforms, flowVars, taskVars, plcVars
<1>12. ASSUME DropConnection PROVE (Kept \/ Lost) /\ Opened
    BY <1>12 DEF DropConnection, StartSetup, flowVars, taskVars, plcVars
<1>13. ASSUME ConnectOtherError PROVE (Kept \/ Lost) /\ Opened
    BY <1>13 DEF ConnectOtherError, Mishap, Failed, Leave, Lost, taskVars, plcVars, flowVars
<1>14. ASSUME CloseError PROVE (Kept \/ Lost) /\ Opened
    BY <1>14 DEF CloseError, Mishap, Failed, Leave, Lost, taskVars, plcVars, flowVars
<1>15. ASSUME ForwardError PROVE (Kept \/ Lost) /\ Opened
    BY <1>15 DEF ForwardError, Mishap, Failed, Leave, Lost, taskVars, plcVars, flowVars
<1>16. ASSUME Cancel PROVE (Kept \/ Lost) /\ Opened
    BY <1>16 DEF Cancel, Mishap, Failed, Leave, Lost, taskVars, plcVars, flowVars
<1>17. ASSUME UnloadRefused PROVE (Kept \/ Lost) /\ Opened
    BY <1>17 DEF UnloadRefused, Mishap, Leave, Lost, taskVars, plcVars, flowVars
<1>18. ASSUME DropError PROVE (Kept \/ Lost) /\ Opened
    BY <1>18 DEF DropError, Mishap, Leave, Lost, taskVars, plcVars, flowVars
<1>19. ASSUME NEW f \in Flows, SubmitUser(f) PROVE (Kept \/ Lost) /\ Opened
    BY <1>19 DEF SubmitUser, taskVars, jobVars, plcVars
<1>20. ASSUME NEW f \in Flows, ProbeOpen(f) PROVE (Kept \/ Lost) /\ Opened
    BY <1>20 DEF ProbeOpen, AdsError, taskVars, jobVars, plcVars
<1>21. ASSUME NEW f \in Flows, ProbeRead(f) PROVE (Kept \/ Lost) /\ Opened
    BY <1>21 DEF ProbeRead, AdsError, taskVars, jobVars, plcVars
<1>22. ASSUME NEW f \in Flows, CannotConnect(f) PROVE (Kept \/ Lost) /\ Opened
    BY <1>22 DEF CannotConnect, taskVars, jobVars, plcVars
<1>23. ASSUME NEW f \in Flows, FinishUser(f) PROVE (Kept \/ Lost) /\ Opened
    BY <1>23 DEF FinishUser, Create, StartSetup, NewConfig, taskVars, jobVars, plcVars
<1>24. ASSUME NEW c \in Configs, ImportNew(c) PROVE (Kept \/ Lost) /\ Opened
    BY <1>24 DEF ImportNew, Create, StartSetup, taskVars, plcVars
<1>25. ASSUME NEW c \in Configs, UpdateOptions(c) PROVE (Kept \/ Lost) /\ Opened
    BY <1>25 DEF UpdateOptions, Called, flowVars, jobVars, plcVars
<1>26. ASSUME AskReload PROVE (Kept \/ Lost) /\ Opened
    BY <1>26 DEF AskReload, flowVars, jobVars, plcVars
<1>27. ASSUME PlcDown PROVE (Kept \/ Lost) /\ Opened
    BY <1>27 DEF PlcDown, flowVars, taskVars, jobVars
<1>28. ASSUME PlcUp PROVE (Kept \/ Lost) /\ Opened
    BY <1>28 DEF PlcUp, flowVars, taskVars, jobVars
<1>29. ASSUME Settled PROVE (Kept \/ Lost) /\ Opened
    BY <1>29 DEF Settled, vars, flowVars, taskVars, jobVars, plcVars
<1>30. CASE UNCHANGED vars
    BY <1>30 DEF vars, flowVars, taskVars, jobVars, plcVars
<1> QED
    BY <1>1, <1>2, <1>3, <1>4, <1>5, <1>6, <1>7, <1>8, <1>9, <1>10, <1>11, <1>12, <1>13,
       <1>14, <1>15, <1>16, <1>17, <1>18, <1>19, <1>20, <1>21, <1>22, <1>23, <1>24, <1>25,
       <1>26, <1>27, <1>28, <1>29, <1>30
       DEF Next, Setup, Unload, Trouble, UserStep

LEMMA InvStep == IInv /\ [Next]_vars => IInv'
<1> SUFFICES ASSUME IInv, [Next]_vars PROVE IInv'
    OBVIOUS
<1>1. TypeOK /\ Phased /\ ProbesClosed /\ added <= 1
    BY DEF IInv
<1>2. TypeOK' /\ Phased' /\ ProbesClosed' /\ added' <= 1
    BY <1>1, TypeStep, PhasedStep, FlowStep
<1>3. IsFiniteSet(open)'
    <2>1. PICK x : open' \subseteq open \union {x}
        BY <1>1, LeakStep DEF Opened
    <2>2. IsFiniteSet(open \union {x})
        BY FS_AddElement DEF IInv
    <2> QED BY <2>1, <2>2, FS_Subset
<1>4. IsFiniteSet(Leaked) /\ Cardinality(Leaked) \in Nat /\ Cardinality(Leaked) <= mishaps
    <2>1. Leaked \subseteq open
        BY DEF Leaked
    <2> QED BY <2>1, FS_Subset, FS_CardinalityType DEF IInv
<1>5. IsFiniteSet(Leaked') /\ Cardinality(Leaked') \in Nat
    <2>1. Leaked' \subseteq open'
        BY DEF Leaked
    <2> QED BY <2>1, <1>3, FS_Subset, FS_CardinalityType
<1>6. mishaps \in Nat
    BY <1>1, LifecycleAssumption DEF TypeOK
<1>7. CASE Kept
    <2>1. Cardinality(Leaked') <= Cardinality(Leaked)
        BY <1>4, <1>7, FS_Subset DEF Kept
    <2> QED BY <1>2, <1>3, <1>4, <1>5, <1>6, <1>7, <2>1 DEF IInv, Kept
<1>8. CASE Lost
    <2>1. PICK x : Leaked' \subseteq Leaked \union {x}
        BY <1>8 DEF Lost
    <2>2. IsFiniteSet(Leaked \union {x})
          /\ Cardinality(Leaked \union {x}) \in {Cardinality(Leaked), Cardinality(Leaked) + 1}
        BY <1>4, FS_AddElement
    <2>3. Cardinality(Leaked') <= Cardinality(Leaked \union {x})
        BY <2>1, <2>2, FS_Subset
    <2>4. Cardinality(Leaked') <= mishaps + 1
        BY <1>4, <1>5, <1>6, <2>2, <2>3
    <2> QED BY <1>2, <1>3, <1>8, <2>4 DEF IInv, Lost
<1> QED BY <1>1, <1>7, <1>8, LeakStep

(* Whatever happens to the entry, the job under way holds an open          *)
(* connection exactly in the steps that use one, and what is lost is       *)
(* bounded by what went wrong (async_setup_entry, async_unload_entry).     *)
THEOREM Invariance == Spec => []IInv
<1> QED BY InitIInv, InvStep, PTL DEF Spec

-----------------------------------------------------------------------------
(* Every variable of an entry has its type. *)
THEOREM Typed == Spec => []TypeOK
<1>1. IInv => TypeOK
    BY DEF IInv
<1> QED BY <1>1, Invariance, PTL

(* __init__.py:101-111, 154-161: every way out of a setup or an unload that *)
(* is not a mishap closes the connection or keeps it in hass.data.         *)
THEOREM NoLeaks == Spec => []LeaksBounded
<1>1. IInv => LeaksBounded
    <2> SUFFICES ASSUME IInv PROVE LeaksBounded
        OBVIOUS
    <2>1. open \ Owned \subseteq Leaked
        BY DEF IInv, Phased, Owned, Leaked
    <2>2. IsFiniteSet(Leaked)
        BY FS_Subset DEF IInv, Leaked
    <2>3. Cardinality(open \ Owned) <= Cardinality(Leaked)
          /\ Cardinality(open \ Owned) \in Nat /\ Cardinality(Leaked) \in Nat
        BY <2>1, <2>2, FS_Subset, FS_CardinalityType
    <2>4. mishaps \in Nat /\ Cardinality(Leaked) <= mishaps
        BY LifecycleAssumption DEF IInv, TypeOK
    <2> QED BY <2>3, <2>4 DEF LeaksBounded
<1> QED BY <1>1, Invariance, PTL

(* A loaded entry has an open connection in hass.data, which no job holds. *)
THEOREM Connected == Spec => []LoadedConnected
<1>1. IInv => LoadedConnected
    BY DEF IInv, Phased, Live, LoadedConnected, InSetup, InUnload
<1> QED BY <1>1, Invariance, PTL

(* However many dialogs and imports race, one PLC gets one entry           *)
(* (config_flow.py:155, and the check of async_step_import).               *)
THEOREM OneEntry == Spec => []AddedOnce
<1>1. IInv => AddedOnce
    BY DEF IInv, AddedOnce
<1> QED BY <1>1, Invariance, PTL

(* test_connection closes the connection of every probe that has ended.    *)
THEOREM ProbesDone == Spec => []ProbesClosed
<1>1. IInv => ProbesClosed
    BY DEF IInv
<1> QED BY <1>1, Invariance, PTL

-----------------------------------------------------------------------------
(* What the loops of ReadPoints compute. *)

(* FlattenSeq joins lists. *)
LEMMA FlattenJoins ==
  ASSUME NEW S, NEW seqs \in Seq(Seq(S))
  PROVE  /\ FlattenSeq(seqs) \in Seq(S)
         /\ \A x : x \in Range(FlattenSeq(seqs)) <=> \E i \in DOMAIN seqs : x \in Range(seqs[i])
<1> DEFINE N == Len(seqs)
           Def(f, n) == f = [i \in 1 .. n |-> IF i = 1 THEN seqs[i] ELSE f[i - 1] \o seqs[i]]
           Exists == {n \in Nat : \E f : Def(f, n)}
<1>1. N \in Nat /\ DOMAIN seqs = 1 .. N /\ \A i \in 1 .. N : seqs[i] \in Seq(S)
  OBVIOUS
<1>2. 0 \in Exists
  <2>1. Def(<<>>, 0)
    OBVIOUS
  <2> HIDE DEF Def
  <2> QED BY <2>1
<1>3. ASSUME NEW n \in Exists, n < N PROVE n + 1 \in Exists
  <2>1. PICK f : Def(f, n)
    OBVIOUS
  <2> DEFINE g == [i \in 1 .. n + 1 |-> IF i = 1 THEN seqs[i] ELSE f[i - 1] \o seqs[i]]
  <2>2. \A i \in 1 .. n : g[i] = f[i]
    <3>1. \A i \in 1 .. n : f[i] = IF i = 1 THEN seqs[i] ELSE f[i - 1] \o seqs[i]
      <4> HIDE DEF g
      <4> QED BY <2>1, Zenon
    <3>2. \A i \in 1 .. n : i \in 1 .. n + 1
      OBVIOUS
    <3>3. \A i \in 1 .. n + 1 : g[i] = IF i = 1 THEN seqs[i] ELSE f[i - 1] \o seqs[i]
      BY Zenon
    <3> HIDE DEF g
    <3> QED BY <3>1, <3>2, <3>3, Zenon
  <2>3. \A i \in 1 .. n + 1 : i = 1 \/ i - 1 \in 1 .. n
    OBVIOUS
  <2>4. g = [i \in 1 .. n + 1 |-> IF i = 1 THEN seqs[i] ELSE g[i - 1] \o seqs[i]]
    BY <2>2, <2>3
  <2> HIDE DEF g
  <2>5. Def(g, n + 1)
    BY <2>4
  <2> HIDE DEF Def
  <2> QED BY <2>5
<1>4. N \in Exists
  <2> HIDE DEF Exists
  <2>1. 0 .. N \subseteq Exists
    BY <1>1, <1>2, <1>3, CountingUp
  <2> QED BY <1>1, <2>1
<1> DEFINE flatten == CHOOSE f : Def(f, N)
<1>5. Def(flatten, N)
  <2>1. \E f : Def(f, N)
    BY <1>4
  <2> HIDE DEF Def
  <2> QED BY <2>1
<1>6. \A i \in 1 .. N : flatten[i] = IF i = 1 THEN seqs[i] ELSE flatten[i - 1] \o seqs[i]
  <2> HIDE DEF flatten
  <2> QED BY <1>5
<1>7. FlattenSeq(seqs) = IF N = 0 THEN seqs ELSE flatten[N]
  BY DEF FlattenSeq
<1> DEFINE Joined == {n \in Nat : n \in 1 .. N =>
               /\ flatten[n] \in Seq(S)
               /\ \A x : x \in Range(flatten[n]) <=> \E i \in 1 .. n : x \in Range(seqs[i])}
<1> HIDE DEF flatten
<1>8. 0 \in Joined
  BY <1>1
<1>9. ASSUME NEW n \in Joined, n < N PROVE n + 1 \in Joined
  <2>1. n + 1 \in 1 .. N
    BY <1>1, <1>9
  <2>2. CASE n = 0
    <3>1. flatten[n + 1] = seqs[n + 1] /\ n + 1 = 1 /\ seqs[n + 1] \in Seq(S)
      BY <1>1, <1>6, <2>1, <2>2
    <3>2. \A i : i \in 1 .. n + 1 <=> i = n + 1
      BY <3>1
    <3> QED BY <1>9, <3>1, <3>2
  <2>3. CASE n # 0
    <3>1. flatten[n + 1] = flatten[n] \o seqs[n + 1]
      <4>1. n + 1 # 1 /\ (n + 1) - 1 = n
        BY <2>3
      <4> QED BY <1>6, <2>1, <4>1
    <3>2. n \in 1 .. N
      BY <1>1, <1>9, <2>1, <2>3
    <3>3. /\ flatten[n] \in Seq(S) /\ seqs[n + 1] \in Seq(S)
          /\ \A x : x \in Range(flatten[n]) <=> \E i \in 1 .. n : x \in Range(seqs[i])
      BY <1>1, <1>9, <2>1, <3>2
    <3>4. /\ flatten[n + 1] \in Seq(S)
          /\ Range(flatten[n + 1]) = Range(flatten[n]) \union Range(seqs[n + 1])
      BY <3>1, <3>3, JoinedRange
    <3>5. \A i : i \in 1 .. n + 1 <=> i \in 1 .. n \/ i = n + 1
      BY <1>9
    <3>6. \A x : x \in Range(flatten[n + 1]) <=> \E i \in 1 .. n + 1 : x \in Range(seqs[i])
      <4> HIDE DEF Joined
      <4> QED BY <3>3, <3>4, <3>5, Zenon
    <3> QED BY <1>9, <3>4, <3>6
  <2> QED BY <2>2, <2>3
<1>10. 0 .. N \subseteq Joined
  <2> HIDE DEF Joined
  <2> QED BY <1>1, <1>8, <1>9, CountingUp
<1>11. CASE N = 0
  <2>1. seqs = <<>> /\ FlattenSeq(seqs) = <<>> /\ DOMAIN seqs = {}
    BY <1>7, <1>11
  <2>2. Range(<<>>) = {} /\ <<>> \in Seq(S)
    BY DEF Range
  <2> QED BY <2>1, <2>2
<1>12. CASE N # 0
  <2>1. N \in Joined /\ N \in 1 .. N /\ FlattenSeq(seqs) = flatten[N]
    <3> HIDE DEF Joined
    <3> QED BY <1>1, <1>7, <1>10, <1>12
  <2> QED BY <1>1, <2>1
<1> QED BY <1>11, <1>12

-----------------------------------------------------------------------------
(* What a key may be: a point whose type is in capitals. *)
KeyPoint == {p \in Point : Upper[p.type] = p.type}

LEMMA KeyOfItem ==
  ASSUME NEW item, item.name \in Names \union {Blank}, item.type \in TypeNames \union {Blank},
         Complete(item)
  PROVE  Key(item) \in KeyPoint
<1>1. item.name \in Names /\ item.type \in TypeNames
  BY DEF Complete
<1>2. Upper[item.type] \in TypeNames /\ Upper[Upper[item.type]] = Upper[item.type]
  BY <1>1, SpellingAssumption
<1> QED BY <1>1, <1>2 DEF Key, KeyPoint, Point

LEMMA SectionsJoined ==
  ASSUME NEW profiles \in Seq(Profile)
  PROVE  /\ SectionsOf(profiles) \in Seq(Section)
         /\ \A x : x \in Range(SectionsOf(profiles))
                   <=> \E p \in Range(profiles) : x \in Range(p.sections)
<1> DEFINE seqs == [i \in DOMAIN profiles |-> profiles[i].sections]
<1>1. ASSUME NEW i \in DOMAIN profiles PROVE profiles[i].sections \in Seq(Section)
  <2>1. profiles[i] \in Profile
    OBVIOUS
  <2> QED BY <2>1 DEF Profile
<1>2. seqs \in Seq(Seq(Section))
  BY <1>1
<1>3. DOMAIN seqs = DOMAIN profiles /\ \A i \in DOMAIN profiles : seqs[i] = profiles[i].sections
  OBVIOUS
<1>4. SectionsOf(profiles) = FlattenSeq(seqs)
  BY DEF SectionsOf
<1> HIDE DEF seqs
<1>5. /\ FlattenSeq(seqs) \in Seq(Section)
      /\ \A x : x \in Range(FlattenSeq(seqs)) <=> \E i \in DOMAIN seqs : x \in Range(seqs[i])
  BY <1>2, FlattenJoins
<1>6. Range(profiles) = {profiles[i] : i \in DOMAIN profiles}
  BY DEF Range
<1>7. \A x : (\E i \in DOMAIN seqs : x \in Range(seqs[i]))
              <=> \E p \in Range(profiles) : x \in Range(p.sections)
  BY <1>3, <1>6, Zenon
<1> QED BY <1>4, <1>5, <1>7

(* The points of some profiles are the keys of their complete sections. *)
LEMMA PointsCollected ==
  ASSUME NEW profiles \in Seq(Profile)
  PROVE  /\ collect_profile_points(profiles) \in Seq(KeyPoint)
         /\ \A x : x \in Range(collect_profile_points(profiles))
                   <=> \E p \in Range(profiles) : \E s \in Range(p.sections) :
                           Complete(s) /\ x = Key(s)
<1> DEFINE sections == SectionsOf(profiles)
           named == {i \in DOMAIN sections : Complete(sections[i])}
           first == {i \in named : \A j \in named : Key(sections[j]) = Key(sections[i]) => i <= j}
           kept == Sublist(sections, first)
           points == collect_profile_points(profiles)
<1>1. sections \in Seq(Section) /\ DOMAIN sections \subseteq Nat
  BY SectionsJoined
<1>2. \A x : x \in Range(sections) <=> \E p \in Range(profiles) : x \in Range(p.sections)
  BY SectionsJoined
<1>3. points = [n \in DOMAIN kept |-> Key(kept[n])]
  BY DEF collect_profile_points
<1> HIDE DEF sections, points
<1>4. /\ kept \in Seq(Section)
      /\ \A i \in first : \E n \in DOMAIN kept : kept[n] = sections[i]
      /\ \A n \in DOMAIN kept : \E i \in first : kept[n] = sections[i]
  <2>1. first \subseteq DOMAIN sections
    OBVIOUS
  <2> HIDE DEF first
  <2> QED BY <1>1, <2>1, SublistTakes
<1>5. ASSUME NEW i \in named PROVE Key(sections[i]) \in KeyPoint
  <2>1. i \in DOMAIN sections /\ Complete(sections[i])
    OBVIOUS
  <2>2. sections[i] \in Section
    BY <1>1, <2>1
  <2>3. sections[i].name \in Names \union {Blank} /\ sections[i].type \in TypeNames \union {Blank}
    BY <2>2 DEF Section
  <2> QED BY <2>1, <2>3, KeyOfItem
<1>6. ASSUME NEW i \in named PROVE \E k \in first : Key(sections[k]) = Key(sections[i])
  <2> DEFINE T == {j \in named : Key(sections[j]) = Key(sections[i])}
  <2>1. T \subseteq Nat /\ T # {}
    BY <1>1
  <2>2. PICK k \in T : \A m \in T : k <= m
    <3> HIDE DEF T
    <3> QED BY <2>1, LeastNumber
  <2>3. k \in named /\ Key(sections[k]) = Key(sections[i])
    OBVIOUS
  <2>4. \A j \in named : Key(sections[j]) = Key(sections[k]) => k <= j
    BY <2>2, <2>3
  <2> HIDE DEF T, named
  <2> QED BY <2>3, <2>4
<1> HIDE DEF kept
<1>7. points \in Seq(KeyPoint)
  <2>1. \A n \in DOMAIN kept : Key(kept[n]) \in KeyPoint
    <3> HIDE DEF named
    <3> QED BY <1>4, <1>5
  <2> QED BY <1>3, <1>4, <2>1
<1>8. ASSUME NEW x PROVE x \in Range(points) <=> \E i \in named : x = Key(sections[i])
  <2>1. x \in Range(points) <=> \E n \in DOMAIN kept : x = Key(kept[n])
    BY <1>3 DEF Range
  <2>2. first \subseteq named
    OBVIOUS
  <2> HIDE DEF first, named
  <2> QED BY <1>4, <1>6, <2>1, <2>2
<1>9. ASSUME NEW x
      PROVE  (\E i \in named : x = Key(sections[i]))
                <=> \E s \in Range(sections) : Complete(s) /\ x = Key(s)
  BY DEF Range
<1>10. ASSUME NEW x
       PROVE  (\E s \in Range(sections) : Complete(s) /\ x = Key(s))
                 <=> \E p \in Range(profiles) : \E s \in Range(p.sections) :
                         Complete(s) /\ x = Key(s)
  BY <1>2, Zenon
<1>11. \A x : x \in Range(points) <=> \E p \in Range(profiles) : \E s \in Range(p.sections) :
                           Complete(s) /\ x = Key(s)
  <2> HIDE DEF named
  <2> QED BY <1>8, <1>9, <1>10
<1> QED BY <1>7, <1>11 DEF points

-----------------------------------------------------------------------------
(* What is asked of points_by_key: a key and whether to read it asynchronously. *)
Request == [name : Names, type : TypeNames, async_read : BOOLEAN]
Capital(request) == Upper[request.type] = request.type
AskedFor(asked, n, key) == \E k \in 1 .. n : Key(asked[k]) = key
AskedAsync(asked, n, key) == \E k \in 1 .. n : Key(asked[k]) = key /\ asked[k].async_read

(* The first n requests are merged: each key once, async if one of them is. *)
Merged(points, asked, n) ==
    /\ points \in Seq(Request)
    /\ \A i \in DOMAIN points : AskedFor(asked, n, Key(points[i]))
    /\ \A i, j \in DOMAIN points : Key(points[i]) = Key(points[j]) => i = j
    /\ \A k \in 1 .. n : \E i \in DOMAIN points : Key(points[i]) = Key(asked[k])
    /\ \A i \in DOMAIN points :
           points[i].async_read <=> AskedAsync(asked, n, Key(points[i]))

LEMMA KeyOfRequest ==
  ASSUME NEW request \in Request
  PROVE  /\ Key(request) \in KeyPoint
         /\ \A async \in BOOLEAN : Asked(Key(request), async) \in Request
                /\ Key(Asked(Key(request), async)) = Key(request)
                /\ Asked(Key(request), async).async_read = async
<1>1. request.name \in Names /\ request.type \in TypeNames
  BY DEF Request
<1>2. Upper[request.type] \in TypeNames /\ Upper[Upper[request.type]] = Upper[request.type]
  BY <1>1, SpellingAssumption
<1> QED BY <1>1, <1>2 DEF Request, Key, KeyPoint, Point, Asked

LEMMA AskedOfKey ==
  ASSUME NEW key \in KeyPoint, NEW async \in BOOLEAN
  PROVE  /\ Asked(key, async) \in Request
         /\ Key(Asked(key, async)) = key /\ Asked(key, async).async_read = async
  BY DEF Asked, Request, Key, KeyPoint, Point

LEMMA MergeStep ==
  ASSUME NEW asked \in Seq(Request), NEW n \in Nat, n + 1 \in DOMAIN asked,
         NEW points, Merged(points, asked, n)
  PROVE  Merged(Merge(points, asked[n + 1]), asked, n + 1)
<1> DEFINE new == asked[n + 1]
           merged == Merge(points, new)
<1>1. /\ new \in Request /\ points \in Seq(Request) /\ Len(points) \in Nat
      /\ DOMAIN points = 1 .. Len(points)
  BY DEF Merged
<1>2. \A k : k \in 1 .. n + 1 <=> k \in 1 .. n \/ k = n + 1
  OBVIOUS
<1>3. \A key : AskedFor(asked, n + 1, key) <=> AskedFor(asked, n, key) \/ key = Key(new)
  BY <1>2, Zenon DEF AskedFor
<1>4. \A key : AskedAsync(asked, n + 1, key)
                  <=> AskedAsync(asked, n, key) \/ (key = Key(new) /\ new.async_read)
  BY <1>2, Zenon DEF AskedAsync
<1>5. /\ \A i \in DOMAIN points : AskedFor(asked, n, Key(points[i]))
      /\ \A i, j \in DOMAIN points : Key(points[i]) = Key(points[j]) => i = j
      /\ \A k \in 1 .. n : \E i \in DOMAIN points : Key(points[i]) = Key(asked[k])
      /\ \A i \in DOMAIN points :
             points[i].async_read <=> AskedAsync(asked, n, Key(points[i]))
  BY DEF Merged
<1>6. ASSUME NEW i \in DOMAIN points
      PROVE  points[i] \in Request /\ points[i].async_read \in BOOLEAN
  <2>1. points[i] \in Request
    BY <1>1
  <2> QED BY <2>1 DEF Request
<1>7. new.async_read \in BOOLEAN
  BY <1>1 DEF Request
<1> HIDE DEF new
<1>8. CASE \E i \in DOMAIN points : Key(points[i]) = Key(new)
  <2> DEFINE both(i) == Asked(Key(new), points[i].async_read \/ new.async_read)
  <2>1. merged = [i \in DOMAIN points |-> IF Key(points[i]) = Key(new) THEN both(i) ELSE points[i]]
    BY <1>8 DEF Merge
  <2>2. \A i \in DOMAIN points : /\ both(i) \in Request /\ Key(both(i)) = Key(new)
                                 /\ both(i).async_read = (points[i].async_read \/ new.async_read)
    BY <1>1, <1>6, <1>7, KeyOfRequest
  <2> HIDE DEF both, merged
  <2>3. /\ DOMAIN merged = DOMAIN points
        /\ \A i \in DOMAIN points : /\ merged[i] \in Request /\ Key(merged[i]) = Key(points[i])
                                    /\ merged[i].async_read = IF Key(points[i]) = Key(new)
                                           THEN points[i].async_read \/ new.async_read
                                           ELSE points[i].async_read
    BY <1>6, <2>1, <2>2
  <2>4. merged \in Seq(Request)
    BY <1>1, <2>1, <2>3
  <2>5. \A k \in 1 .. n + 1 : \E i \in DOMAIN merged : Key(merged[i]) = Key(asked[k])
    BY <1>2, <1>5, <1>8, <2>3 DEF new
  <2>6. ASSUME NEW i \in DOMAIN merged
        PROVE  merged[i].async_read <=> AskedAsync(asked, n + 1, Key(merged[i]))
    BY <1>4, <1>5, <1>6, <1>7, <2>3
  <2>7. Merged(merged, asked, n + 1)
    BY <1>3, <1>5, <2>3, <2>4, <2>5, <2>6 DEF Merged
  <2> QED BY <2>7 DEF merged, new
<1>9. CASE ~\E i \in DOMAIN points : Key(points[i]) = Key(new)
  <2>1. merged = Append(points, new)
    BY <1>9 DEF Merge
  <2> HIDE DEF merged
  <2>2. /\ merged \in Seq(Request) /\ merged[Len(points) + 1] = new
        /\ \A i \in DOMAIN points : merged[i] = points[i]
        /\ \A i : i \in DOMAIN merged <=> i \in DOMAIN points \/ i = Len(points) + 1
        /\ Len(points) + 1 \notin DOMAIN points
    BY <1>1, <2>1
  <2>3. ~AskedFor(asked, n, Key(new))
    BY <1>5, <1>9, Zenon DEF AskedFor
  <2>4. ~AskedAsync(asked, n, Key(new))
    BY <2>3, Zenon DEF AskedFor, AskedAsync
  <2>5. ASSUME NEW i \in DOMAIN merged
        PROVE  /\ AskedFor(asked, n + 1, Key(merged[i]))
               /\ merged[i].async_read <=> AskedAsync(asked, n + 1, Key(merged[i]))
    <3>1. CASE i \in DOMAIN points
      BY <1>3, <1>4, <1>5, <1>9, <2>2, <3>1, Zenon
    <3>2. CASE i = Len(points) + 1
      BY <1>3, <1>4, <2>2, <2>4, <3>2, Zenon
    <3> QED BY <2>2, <3>1, <3>2
  <2>6. \A i, j \in DOMAIN merged : Key(merged[i]) = Key(merged[j]) => i = j
    <3> SUFFICES ASSUME NEW i \in DOMAIN merged, NEW j \in DOMAIN merged,
                        Key(merged[i]) = Key(merged[j])
                 PROVE  i = j
      OBVIOUS
    <3>1. CASE i \in DOMAIN points /\ j \in DOMAIN points
      BY <1>5, <2>2, <3>1
    <3>2. CASE i \in DOMAIN points /\ j = Len(points) + 1
      BY <1>9, <2>2, <3>2
    <3>3. CASE i = Len(points) + 1 /\ j \in DOMAIN points
      BY <1>9, <2>2, <3>3
    <3> QED BY <2>2, <3>1, <3>2, <3>3
  <2>7. ASSUME NEW k \in 1 .. n + 1
        PROVE  \E i \in DOMAIN merged : Key(merged[i]) = Key(asked[k])
    <3>1. CASE k \in 1 .. n
      BY <1>5, <2>2, <3>1
    <3>2. CASE k = n + 1
      BY <2>2, <3>2 DEF new
    <3> QED BY <1>2, <3>1, <3>2
  <2>8. Merged(merged, asked, n + 1)
    BY <2>2, <2>5, <2>6, <2>7 DEF Merged
  <2> QED BY <2>8 DEF merged, new
<1> QED BY <1>8, <1>9 DEF new

(* points_by_key is well defined and merges what is asked for. *)
LEMMA RequestsMerged ==
  ASSUME NEW asked \in Seq(Request)
  PROVE  Merged(PointsByKey(asked)[Len(asked)], asked, Len(asked))
<1> DEFINE N == Len(asked)
           Def(f, n) == f = [i \in 0 .. n |-> IF i = 0 THEN <<>> ELSE Merge(f[i - 1], asked[i])]
           Exists == {n \in Nat : \E f : Def(f, n)}
           merged == PointsByKey(asked)
<1>1. N \in Nat /\ DOMAIN asked = 1 .. N
  OBVIOUS
<1>2. 0 \in Exists
  <2> DEFINE f == [i \in 0 .. 0 |-> <<>>]
  <2>1. f = [i \in 0 .. 0 |-> IF i = 0 THEN <<>> ELSE Merge(f[i - 1], asked[i])]
    OBVIOUS
  <2> HIDE DEF f
  <2>2. Def(f, 0)
    BY <2>1
  <2> HIDE DEF Def
  <2> QED BY <2>2
<1>3. ASSUME NEW n \in Exists, n < N PROVE n + 1 \in Exists
  <2>1. PICK f : Def(f, n)
    OBVIOUS
  <2> DEFINE g == [i \in 0 .. n + 1 |-> IF i = 0 THEN <<>> ELSE Merge(f[i - 1], asked[i])]
  <2>2. \A i \in 0 .. n : g[i] = f[i]
    <3>1. \A i \in 0 .. n : f[i] = IF i = 0 THEN <<>> ELSE Merge(f[i - 1], asked[i])
      <4> HIDE DEF g
      <4> QED BY <2>1, Zenon
    <3>2. \A i \in 0 .. n : i \in 0 .. n + 1
      OBVIOUS
    <3>3. \A i \in 0 .. n + 1 : g[i] = IF i = 0 THEN <<>> ELSE Merge(f[i - 1], asked[i])
      BY Zenon
    <3> HIDE DEF g
    <3> QED BY <3>1, <3>2, <3>3, Zenon
  <2>3. \A i \in 0 .. n + 1 : i = 0 \/ i - 1 \in 0 .. n
    OBVIOUS
  <2>4. g = [i \in 0 .. n + 1 |-> IF i = 0 THEN <<>> ELSE Merge(g[i - 1], asked[i])]
    BY <2>2, <2>3
  <2> HIDE DEF g
  <2>5. Def(g, n + 1)
    BY <2>4
  <2> HIDE DEF Def
  <2> QED BY <2>5
<1>4. N \in Exists
  <2> HIDE DEF Exists
  <2>1. 0 .. N \subseteq Exists
    BY <1>1, <1>2, <1>3, CountingUp
  <2> QED BY <1>1, <2>1
<1>5. Def(merged, N)
  <2>1. \E f : Def(f, N)
    BY <1>4
  <2>2. merged = CHOOSE f : Def(f, N)
    BY DEF PointsByKey
  <2> HIDE DEF Def, merged
  <2> QED BY <2>1, <2>2
<1> HIDE DEF merged
<1>6. \A i \in 0 .. N : merged[i] = IF i = 0 THEN <<>> ELSE Merge(merged[i - 1], asked[i])
  BY <1>5, Zenon
<1> DEFINE Good == {n \in Nat : n \in 0 .. N => Merged(merged[n], asked, n)}
<1>7. 0 \in Good
  <2>1. merged[0] = <<>>
    BY <1>1, <1>6
  <2>2. Merged(<<>>, asked, 0)
    BY DEF Merged
  <2> QED BY <2>1, <2>2
<1>8. ASSUME NEW n \in Good, n < N PROVE n + 1 \in Good
  <2>1. n \in Nat /\ n \in 0 .. N /\ n + 1 \in 0 .. N /\ n + 1 \in 1 .. N /\ n + 1 # 0
        /\ (n + 1) - 1 = n
    BY <1>1, <1>8
  <2>2. Merged(merged[n], asked, n)
    BY <2>1
  <2>3. merged[n + 1] = Merge(merged[n], asked[n + 1])
    BY <1>6, <2>1
  <2>4. Merged(merged[n + 1], asked, n + 1)
    BY <1>1, <2>1, <2>2, <2>3, MergeStep
  <2> QED BY <2>1, <2>4
<1>9. 0 .. N \subseteq Good
  <2> HIDE DEF Good
  <2> QED BY <1>1, <1>7, <1>8, CountingUp
<1> QED BY <1>1, <1>9 DEF merged

-----------------------------------------------------------------------------
(* What the comprehensions over variables and over profiles ask for. *)
LEMMA ConfigParts ==
  ASSUME NEW config \in Config
  PROVE  /\ config.variables \in Seq(Variable) /\ config.device_profiles \in Seq(Profile)
         /\ \A v \in Range(config.variables) :
                /\ v.name \in Names \union {Blank} /\ v.type \in TypeNames \union {Blank}
                /\ v.async_read \in BOOLEAN
<1>1. config.variables \in Seq(Variable) /\ config.device_profiles \in Seq(Profile)
  BY DEF Config
<1>2. ASSUME NEW v \in Range(config.variables) PROVE v \in Variable
  BY <1>1, <1>2 DEF Range
<1> QED BY <1>1, <1>2 DEF Variable

LEMMA LightsSelected ==
  ASSUME NEW profiles \in Seq(Profile)
  PROVE  /\ get_profiles_by_type(profiles) \in Seq(Profile)
         /\ \A p : p \in Range(get_profiles_by_type(profiles))
                    <=> p \in Range(profiles) /\ p.light
<1> DEFINE lights == {i \in DOMAIN profiles : profiles[i].light}
           chosen == Sublist(profiles, lights)
<1>1. lights \subseteq DOMAIN profiles
  OBVIOUS
<1>2. /\ chosen \in Seq(Profile)
      /\ \A i \in lights : \E n \in DOMAIN chosen : chosen[n] = profiles[i]
      /\ \A n \in DOMAIN chosen : \E i \in lights : chosen[n] = profiles[i]
  <2> HIDE DEF lights
  <2> QED BY <1>1, SublistTakes
<1>3. chosen = get_profiles_by_type(profiles)
  BY DEF get_profiles_by_type
<1> HIDE DEF chosen
<1>4. \A p : p \in Range(chosen) <=> \E i \in lights : p = profiles[i]
  <2> HIDE DEF lights
  <2> QED BY <1>2 DEF Range
<1>5. \A p : (\E i \in lights : p = profiles[i]) <=> p \in Range(profiles) /\ p.light
  BY DEF Range
<1> QED BY <1>2, <1>3, <1>4, <1>5

(* Every point a configuration wants is asked for, and asked for           *)
(* asynchronously if a variable or a light does.                           *)
LEMMA WantedRequested ==
  ASSUME NEW config \in Config
  PROVE  LET asked == Requests(config.variables, config.device_profiles)
         IN  /\ asked \in Seq(Request)
             /\ \A k \in DOMAIN asked : Key(asked[k]) \in KeyPoint
             /\ \A x : (\E k \in DOMAIN asked : x = Key(asked[k])) <=> x \in WantedPoints(config)
             /\ \A x : (\E k \in DOMAIN asked : x = Key(asked[k]) /\ asked[k].async_read)
                         <=> x \in WantedAsync(config)
<1> DEFINE variables == config.variables
           profiles == config.device_profiles
           complete == {i \in DOMAIN variables : Complete(variables[i])}
           named == Sublist(variables, complete)
           light_points == collect_profile_points(get_profiles_by_type(profiles))
           profile_points == collect_profile_points(profiles)
           first == [i \in DOMAIN named |-> Asked(Key(named[i]), named[i].async_read)]
           second == [i \in DOMAIN profile_points |->
                         Asked(profile_points[i], Contains(light_points, profile_points[i]))]
           asked == Requests(variables, profiles)
<1>1. /\ variables \in Seq(Variable) /\ profiles \in Seq(Profile)
      /\ \A v \in Range(variables) :
             /\ v.name \in Names \union {Blank} /\ v.type \in TypeNames \union {Blank}
             /\ v.async_read \in BOOLEAN
  BY ConfigParts
<1>2. asked = first \o second
  BY DEF Requests
<1>3. /\ profile_points \in Seq(KeyPoint)
      /\ \A x : x \in Range(profile_points)
                <=> \E p \in Range(profiles) : \E s \in Range(p.sections) :
                        Complete(s) /\ x = Key(s)
  BY <1>1, PointsCollected
<1>4. /\ light_points \in Seq(KeyPoint)
      /\ \A x : x \in Range(light_points)
                <=> \E p \in Range(profiles) : p.light /\ \E s \in Range(p.sections) :
                        Complete(s) /\ x = Key(s)
  <2>1. /\ get_profiles_by_type(profiles) \in Seq(Profile)
        /\ \A p : p \in Range(get_profiles_by_type(profiles)) <=> p \in Range(profiles) /\ p.light
    BY <1>1, LightsSelected
  <2>2. /\ light_points \in Seq(KeyPoint)
        /\ \A x : x \in Range(light_points)
                <=> \E p \in Range(get_profiles_by_type(profiles)) : \E s \in Range(p.sections) :
                        Complete(s) /\ x = Key(s)
    BY <2>1, PointsCollected
  <2> QED BY <2>1, <2>2, Zenon
<1>5. /\ named \in Seq(Variable)
      /\ \A i \in complete : \E n \in DOMAIN named : named[n] = variables[i]
      /\ \A n \in DOMAIN named : \E i \in complete : named[n] = variables[i]
  <2>1. complete \subseteq DOMAIN variables
    OBVIOUS
  <2> HIDE DEF complete, variables
  <2> QED BY <1>1, <2>1, SublistTakes
<1> HIDE DEF asked, named, light_points, profile_points
<1>6. ASSUME NEW x
      PROVE  (\E n \in DOMAIN named : x = named[n]) <=> x \in Range(variables) /\ Complete(x)
  <2>1. (\E n \in DOMAIN named : x = named[n]) <=> \E i \in complete : x = variables[i]
    <3> HIDE DEF complete, variables
    <3> QED BY <1>5
  <2>2. (\E i \in complete : x = variables[i]) <=> x \in Range(variables) /\ Complete(x)
    BY DEF Range
  <2> QED BY <2>1, <2>2
<1> HIDE DEF complete
<1>7. ASSUME NEW n \in DOMAIN named
      PROVE  /\ Key(named[n]) \in KeyPoint /\ first[n] \in Request
             /\ Key(first[n]) = Key(named[n]) /\ first[n].async_read = named[n].async_read
  <2>1. named[n] \in Range(variables) /\ Complete(named[n])
    BY <1>6
  <2>2. Key(named[n]) \in KeyPoint /\ named[n].async_read \in BOOLEAN
    BY <1>1, <2>1, KeyOfItem
  <2>3. first[n] = Asked(Key(named[n]), named[n].async_read)
    OBVIOUS
  <2> HIDE DEF first
  <2> QED BY <2>2, <2>3, AskedOfKey
<1>8. ASSUME NEW n \in DOMAIN profile_points
      PROVE  /\ profile_points[n] \in KeyPoint /\ second[n] \in Request
             /\ Key(second[n]) = profile_points[n]
             /\ second[n].async_read <=> profile_points[n] \in Range(light_points)
  <2>1. profile_points[n] \in KeyPoint
    BY <1>3
  <2>2. second[n] = Asked(profile_points[n], Contains(light_points, profile_points[n]))
    OBVIOUS
  <2>3. /\ Contains(light_points, profile_points[n]) \in BOOLEAN
        /\ Contains(light_points, profile_points[n]) <=> profile_points[n] \in Range(light_points)
    BY <1>4 DEF Contains, Range
  <2> HIDE DEF second
  <2> QED BY <2>1, <2>2, <2>3, AskedOfKey
<1>9. /\ DOMAIN first = DOMAIN named /\ DOMAIN second = DOMAIN profile_points
      /\ first \in Seq(Request) /\ second \in Seq(Request)
  BY <1>3, <1>5, <1>7, <1>8
<1> HIDE DEF first, second
<1>10. asked \in Seq(Request) /\ Range(asked) = Range(first) \union Range(second)
  BY <1>2, <1>9, JoinedRange
<1>11. ASSUME NEW r
       PROVE  (\E k \in DOMAIN asked : r = asked[k])
                <=> \/ \E n \in DOMAIN named : r = first[n]
                    \/ \E n \in DOMAIN profile_points : r = second[n]
  BY <1>9, <1>10, Zenon DEF Range
<1>12. \A k \in DOMAIN asked : Key(asked[k]) \in KeyPoint
  BY <1>7, <1>8, <1>11
<1>13. ASSUME NEW x
       PROVE  (\E k \in DOMAIN asked : x = Key(asked[k])) <=> x \in WantedPoints(config)
  <2>1. (\E k \in DOMAIN asked : x = Key(asked[k]))
           <=> \/ \E n \in DOMAIN named : x = Key(named[n])
               \/ x \in Range(profile_points)
    <3>1. (\E k \in DOMAIN asked : x = Key(asked[k]))
             <=> \/ \E n \in DOMAIN named : x = Key(first[n])
                 \/ \E n \in DOMAIN profile_points : x = Key(second[n])
      BY <1>11, Zenon
    <3>2. (\E n \in DOMAIN named : x = Key(first[n])) <=> \E n \in DOMAIN named : x = Key(named[n])
      BY <1>7
    <3>3. (\E n \in DOMAIN profile_points : x = Key(second[n])) <=> x \in Range(profile_points)
      BY <1>8 DEF Range
    <3> QED BY <3>1, <3>2, <3>3
  <2>2. (\E n \in DOMAIN named : x = Key(named[n]))
           <=> \E v \in Range(variables) : Complete(v) /\ x = Key(v)
    BY <1>6, Zenon
  <2>3. x \in WantedPoints(config)
           <=> \/ \E v \in Range(variables) : Complete(v) /\ x = Key(v)
               \/ \E p \in Range(profiles) : \E s \in Range(p.sections) : Complete(s) /\ x = Key(s)
    BY DEF WantedPoints, Keys, Sections
  <2> QED BY <1>3, <2>1, <2>2, <2>3
<1>14. ASSUME NEW x
       PROVE  (\E k \in DOMAIN asked : x = Key(asked[k]) /\ asked[k].async_read)
                 <=> x \in WantedAsync(config)
  <2>1. (\E k \in DOMAIN asked : x = Key(asked[k]) /\ asked[k].async_read)
           <=> \/ \E n \in DOMAIN named : x = Key(named[n]) /\ named[n].async_read
               \/ x \in Range(profile_points) /\ x \in Range(light_points)
    <3>1. (\E k \in DOMAIN asked : x = Key(asked[k]) /\ asked[k].async_read)
             <=> \/ \E n \in DOMAIN named : x = Key(first[n]) /\ first[n].async_read
                 \/ \E n \in DOMAIN profile_points : x = Key(second[n]) /\ second[n].async_read
      <4>1. ASSUME NEW k \in DOMAIN asked, x = Key(asked[k]), asked[k].async_read
            PROVE  \/ \E n \in DOMAIN named : x = Key(first[n]) /\ first[n].async_read
                   \/ \E n \in DOMAIN profile_points : x = Key(second[n]) /\ second[n].async_read
        <5>1. \/ \E n \in DOMAIN named : asked[k] = first[n]
              \/ \E n \in DOMAIN profile_points : asked[k] = second[n]
          BY <1>11
        <5> QED BY <4>1, <5>1
      <4>2. ASSUME NEW n \in DOMAIN named, x = Key(first[n]), first[n].async_read
            PROVE  \E k \in DOMAIN asked : x = Key(asked[k]) /\ asked[k].async_read
        <5>1. PICK k \in DOMAIN asked : first[n] = asked[k]
          BY <1>11
        <5> QED BY <4>2, <5>1
      <4>3. ASSUME NEW n \in DOMAIN profile_points, x = Key(second[n]), second[n].async_read
            PROVE  \E k \in DOMAIN asked : x = Key(asked[k]) /\ asked[k].async_read
        <5>1. PICK k \in DOMAIN asked : second[n] = asked[k]
          BY <1>11
        <5> QED BY <4>3, <5>1
      <4> QED BY <4>1, <4>2, <4>3
    <3>2. (\E n \in DOMAIN named : x = Key(first[n]) /\ first[n].async_read)
             <=> \E n \in DOMAIN named : x = Key(named[n]) /\ named[n].async_read
      BY <1>7
    <3>3. (\E n \in DOMAIN profile_points : x = Key(second[n]) /\ second[n].async_read)
             <=> x \in Range(profile_points) /\ x \in Range(light_points)
      <4>1. \A n \in DOMAIN profile_points :
               /\ Key(second[n]) = profile_points[n]
               /\ second[n].async_read <=> profile_points[n] \in Range(light_points)
        BY <1>8
      <4>2. x \in Range(profile_points) <=> \E n \in DOMAIN profile_points : x = profile_points[n]
        BY DEF Range
      <4> QED BY <4>1, <4>2, Zenon
    <3> QED BY <3>1, <3>2, <3>3
  <2>2. (\E n \in DOMAIN named : x = Key(named[n]) /\ named[n].async_read)
           <=> \E v \in Range(variables) : Complete(v) /\ x = Key(v) /\ v.async_read
    <3>1. \A v : (\E n \in DOMAIN named : v = named[n]) <=> v \in Range(variables) /\ Complete(v)
      BY <1>6
    <3>2. (\E n \in DOMAIN named : x = Key(named[n]) /\ named[n].async_read)
             <=> \E v : (\E n \in DOMAIN named : v = named[n]) /\ x = Key(v) /\ v.async_read
      BY Zenon
    <3> QED BY <3>1, <3>2, Zenon
  <2>3. x \in WantedAsync(config)
           <=> \/ \E v \in Range(variables) : Complete(v) /\ x = Key(v) /\ v.async_read
               \/ \E p \in Range(profiles) : p.light /\ \E s \in Range(p.sections) :
                       Complete(s) /\ x = Key(s)
    BY DEF WantedAsync, Keys, LightSections
  <2> QED BY <1>3, <1>4, <2>1, <2>2, <2>3
<1> QED BY <1>10, <1>12, <1>13, <1>14 DEF asked

-----------------------------------------------------------------------------
(* One of the two lists of _split_read_points. *)
ModeList(points, async) ==
    LET chosen == Sublist(points, {i \in DOMAIN points : points[i].async_read = async})
    IN  [n \in DOMAIN chosen |-> Key(chosen[n])]

(* Each merged point goes to one of the two lists. *)
LEMMA PointsSplit ==
  ASSUME NEW points \in Seq(Request), NEW async \in BOOLEAN,
         \A i, j \in DOMAIN points : Key(points[i]) = Key(points[j]) => i = j
  PROVE  LET list == ModeList(points, async)
         IN  /\ list \in Seq(KeyPoint)
             /\ \A m, n \in DOMAIN list : list[m] = list[n] => m = n
             /\ \A x : x \in Range(list)
                       <=> \E i \in DOMAIN points :
                               points[i].async_read = async /\ x = Key(points[i])
<1> DEFINE those == {i \in DOMAIN points : points[i].async_read = async}
           chosen == Sublist(points, those)
           list == ModeList(points, async)
<1>1. those \subseteq DOMAIN points
  OBVIOUS
<1>2. /\ chosen \in Seq(Request)
      /\ \A i \in those : \E n \in DOMAIN chosen : chosen[n] = points[i]
      /\ \A n \in DOMAIN chosen : \E i \in those : chosen[n] = points[i]
      /\ \A m, n \in DOMAIN chosen : m # n =>
            \E i, j \in those : i # j /\ chosen[m] = points[i] /\ chosen[n] = points[j]
  <2> HIDE DEF those
  <2> QED BY <1>1, SublistTakes
<1>3. list = [n \in DOMAIN chosen |-> Key(chosen[n])]
  BY DEF ModeList
<1> HIDE DEF chosen, list
<1>4. DOMAIN list = DOMAIN chosen /\ \A n \in DOMAIN chosen : list[n] = Key(chosen[n])
  BY <1>3
<1>5. ASSUME NEW n \in DOMAIN chosen PROVE Key(chosen[n]) \in KeyPoint
  <2>1. chosen[n] \in Request
    BY <1>2
  <2> QED BY <2>1, KeyOfRequest
<1>6. list \in Seq(KeyPoint)
  <2>1. DOMAIN chosen = 1 .. Len(chosen) /\ Len(chosen) \in Nat
    BY <1>2
  <2> QED BY <1>3, <1>5, <2>1
<1>7. ASSUME NEW m \in DOMAIN list, NEW n \in DOMAIN list, m # n, list[m] = list[n] PROVE FALSE
  <2>1. PICK i \in those, j \in those : i # j /\ chosen[m] = points[i] /\ chosen[n] = points[j]
    <3> HIDE DEF those
    <3> QED BY <1>2, <1>4, <1>7
  <2>2. Key(points[i]) = Key(points[j])
    BY <1>4, <1>7, <2>1
  <2> QED BY <1>1, <2>1, <2>2
<1>8. ASSUME NEW x
      PROVE  x \in Range(list)
                <=> \E i \in DOMAIN points : points[i].async_read = async /\ x = Key(points[i])
  <2>1. x \in Range(list) <=> \E n \in DOMAIN chosen : x = Key(chosen[n])
    BY <1>4 DEF Range
  <2>2. (\E n \in DOMAIN chosen : x = Key(chosen[n])) <=> \E i \in those : x = Key(points[i])
    <3> HIDE DEF those
    <3> QED BY <1>2
  <2> QED BY <2>1, <2>2
<1>9. \A m, n \in DOMAIN list : list[m] = list[n] => m = n
  BY <1>7
<1> QED BY <1>6, <1>8, <1>9 DEF list

(* The two lists of a coordinator hold every wanted point, each once.      *)
LEMMA ListsServe ==
  ASSUME NEW config \in Config
  PROVE  /\ ReadLists(config).poll \in Seq(KeyPoint) /\ ReadLists(config).async \in Seq(KeyPoint)
         /\ IsInjective(ReadLists(config).poll \o ReadLists(config).async)
         /\ Range(ReadLists(config).async) = WantedAsync(config)
         /\ Range(ReadLists(config).poll) = WantedPoints(config) \ WantedAsync(config)
<1> DEFINE asked == Requests(config.variables, config.device_profiles)
           points == PointsByKey(asked)[Len(asked)]
           poll == ReadLists(config).poll
           async_ == ReadLists(config).async
<1>1. /\ asked \in Seq(Request)
      /\ \A x : (\E k \in DOMAIN asked : x = Key(asked[k])) <=> x \in WantedPoints(config)
      /\ \A x : (\E k \in DOMAIN asked : x = Key(asked[k]) /\ asked[k].async_read)
                  <=> x \in WantedAsync(config)
  BY WantedRequested
<1>2. ReadLists(config) = [poll |-> ModeList(points, FALSE), async |-> ModeList(points, TRUE)]
  BY DEF ReadLists, _build_read_points, _split_read_points, ModeList
<1>3. poll = ModeList(points, FALSE) /\ async_ = ModeList(points, TRUE)
  BY <1>2
<1> HIDE DEF asked, poll, async_
<1>4. Merged(points, asked, Len(asked))
  BY <1>1, RequestsMerged
<1>5. DOMAIN asked = 1 .. Len(asked)
  BY <1>1
<1> HIDE DEF points
<1>6. /\ points \in Seq(Request)
      /\ \A i, j \in DOMAIN points : Key(points[i]) = Key(points[j]) => i = j
  BY <1>4 DEF Merged
<1>7. /\ poll \in Seq(KeyPoint)
      /\ \A m, n \in DOMAIN poll : poll[m] = poll[n] => m = n
      /\ \A x : x \in Range(poll)
                <=> \E i \in DOMAIN points : points[i].async_read = FALSE /\ x = Key(points[i])
  BY <1>3, <1>6, PointsSplit
<1>8. /\ async_ \in Seq(KeyPoint)
      /\ \A m, n \in DOMAIN async_ : async_[m] = async_[n] => m = n
      /\ \A x : x \in Range(async_)
                <=> \E i \in DOMAIN points : points[i].async_read = TRUE /\ x = Key(points[i])
  BY <1>3, <1>6, PointsSplit
<1>9. ASSUME NEW i \in DOMAIN points
      PROVE  /\ points[i].async_read \in BOOLEAN /\ Key(points[i]) \in WantedPoints(config)
             /\ points[i].async_read <=> Key(points[i]) \in WantedAsync(config)
  <2>1. points[i] \in Request
    BY <1>6
  <2>2. points[i].async_read \in BOOLEAN
    BY <2>1 DEF Request
  <2>3. /\ AskedFor(asked, Len(asked), Key(points[i]))
        /\ points[i].async_read <=> AskedAsync(asked, Len(asked), Key(points[i]))
    BY <1>4 DEF Merged
  <2>4. \A x : AskedFor(asked, Len(asked), x) <=> x \in WantedPoints(config)
    BY <1>1, <1>5 DEF AskedFor
  <2>5. \A x : AskedAsync(asked, Len(asked), x) <=> x \in WantedAsync(config)
    BY <1>1, <1>5 DEF AskedAsync
  <2> QED BY <2>2, <2>3, <2>4, <2>5
<1>10. ASSUME NEW x \in WantedPoints(config)
       PROVE  \E i \in DOMAIN points : x = Key(points[i])
  <2>1. PICK k \in DOMAIN asked : x = Key(asked[k])
    BY <1>1
  <2>2. \E i \in DOMAIN points : Key(points[i]) = Key(asked[k])
    BY <1>4, <1>5 DEF Merged
  <2> QED BY <2>1, <2>2
<1>11. WantedAsync(config) \subseteq WantedPoints(config)
  BY <1>1
<1>12. \A x : x \in Range(async_) <=> x \in WantedAsync(config)
  BY <1>8, <1>9, <1>10, <1>11
<1>13. \A x : x \in Range(poll) <=> x \in WantedPoints(config) /\ x \notin WantedAsync(config)
  BY <1>7, <1>9, <1>10
<1>14. IsInjective(poll \o async_)
  <2> DEFINE both == poll \o async_
  <2>1. /\ DOMAIN both = 1 .. Len(poll) + Len(async_) /\ Len(poll) \in Nat /\ Len(async_) \in Nat
        /\ DOMAIN poll = 1 .. Len(poll) /\ DOMAIN async_ = 1 .. Len(async_)
        /\ \A i \in DOMAIN both : /\ i <= Len(poll) => i \in DOMAIN poll /\ both[i] = poll[i]
                                  /\ i > Len(poll) => /\ i - Len(poll) \in DOMAIN async_
                                                      /\ both[i] = async_[i - Len(poll)]
    BY <1>7, <1>8
  <2>2. \A m \in DOMAIN poll, n \in DOMAIN async_ : poll[m] # async_[n]
    <3>1. \A m \in DOMAIN poll : poll[m] \in Range(poll)
      BY DEF Range
    <3>2. \A n \in DOMAIN async_ : async_[n] \in Range(async_)
      BY DEF Range
    <3> QED BY <1>12, <1>13, <3>1, <3>2
  <2> HIDE DEF both
  <2>3. ASSUME NEW i \in DOMAIN both, NEW j \in DOMAIN both, both[i] = both[j] PROVE i = j
    <3>1. i \in Nat /\ j \in Nat
      BY <2>1
    <3>2. CASE i <= Len(poll) /\ j <= Len(poll)
      BY <1>7, <2>1, <2>3, <3>2
    <3>3. CASE i > Len(poll) /\ j > Len(poll)
      <4>1. i - Len(poll) = j - Len(poll)
        BY <1>8, <2>1, <2>3, <3>3
      <4> QED BY <2>1, <3>1, <4>1
    <3>4. CASE i <= Len(poll) /\ j > Len(poll)
      BY <2>1, <2>2, <2>3, <3>4
    <3>5. CASE i > Len(poll) /\ j <= Len(poll)
      BY <2>1, <2>2, <2>3, <3>5
    <3> QED BY <2>1, <3>1, <3>2, <3>3, <3>4, <3>5
  <2> QED BY <2>3 DEF IsInjective, both
<1> QED BY <1>7, <1>8, <1>12, <1>13, <1>14 DEF poll, async_

-----------------------------------------------------------------------------
(* What hass.data has of an entry was made of the options its setup read.  *)
ListsInv == stored # None => stored.config \in Configs /\ stored.lists = ReadLists(stored.config)

LEMMA ListsStep ==
  ASSUME TypeOK, ListsInv, [Next]_vars
  PROVE  ListsInv'
<1> USE DEF ListsInv
<1>1. ASSUME StartOk PROVE ListsInv'
  <2>1. read \in Configs
    BY DEF TypeOK
  <2>2. stored'.config = read /\ stored'.lists = ReadLists(read)
    BY <1>1, <2>1 DEF StartOk, ListsOf
  <2> QED BY <2>1, <2>2
<1>2. ASSUME stored' \in {stored, None} PROVE ListsInv'
  BY <1>2
<1>3. ASSUME Next, ~StartOk PROVE stored' \in {stored, None}
  BY <1>3
     DEF Next, Setup, Unload, Trouble, UserStep, Settled, ConnectOk, ConnectAdsError, StartError,
         CloseAndRaise, ExportOver, Forwarded, Retry, Reload, ListenerExported, UnloadPlatforms,
         DropConnection, ConnectOtherError, CloseError, ForwardError, Cancel, UnloadRefused,
         DropError, SubmitUser, ProbeOpen, ProbeRead, CannotConnect, FinishUser, ImportNew,
         UpdateOptions, AskReload, PlcDown, PlcUp, vars
<1>4. CASE UNCHANGED vars
  BY <1>2, <1>4 DEF vars
<1> QED BY <1>1, <1>2, <1>3, <1>4

LEMMA ListsKept == Spec => []ListsInv
<1>1. Init => ListsInv
  BY DEF Init, ListsInv
<1>2. TypeOK /\ ListsInv /\ [Next]_vars => ListsInv'
  BY ListsStep
<1> QED BY <1>1, <1>2, Typed, PTL DEF Spec

(* coordinator.py:309-373: whichever symbols variables and profiles name,  *)
(* and however often, the coordinator of an entry reads each point asked   *)
(* for once, in the mode asked for.                                        *)
THEOREM PointsRead == Spec => []PointsServed
<1>1. ListsInv => PointsServed
  <2> SUFFICES ASSUME ListsInv, stored # None PROVE PointsServed
    BY DEF PointsServed
  <2>1. stored.config \in Config /\ stored.lists = ReadLists(stored.config)
    BY LifecycleAssumption DEF ListsInv
  <2> QED BY <2>1, ListsServe DEF PointsServed
<1> QED BY <1>1, ListsKept, PTL

(* An entity's point is one its configuration wants to be read. *)
LEMMA EntitiesFindPoints ==
  ASSUME NEW config \in Config, NEW e \in Entities(config), Complete(e.point)
  PROVE  e.point \in WantedPoints(config)
<1>1. /\ config.device_profiles \in Seq(Profile)
      /\ \A v \in Range(config.variables) :
             v.name \in Names \union {Blank} /\ v.type \in TypeNames \union {Blank}
  BY ConfigParts
<1>2. CASE e \in VariableEntities(config.variables)
  <2>1. PICK v \in Range(config.variables) : e.point = Key(v)
    BY <1>2 DEF VariableEntities, Entity
  <2>2. Complete(v)
    BY <2>1, SpellingAssumption DEF Complete, Key
  <2> QED BY <2>1, <2>2 DEF WantedPoints, Keys
<1>3. CASE e \in LightEntities(config.device_profiles)
  <2> DEFINE lights == get_profiles_by_type(config.device_profiles)
  <2>1. e.point \in Range(collect_profile_points(lights))
    BY <1>3 DEF LightEntities
  <2>2. /\ lights \in Seq(Profile)
        /\ \A p : p \in Range(lights) => p \in Range(config.device_profiles)
    BY <1>1, LightsSelected
  <2> HIDE DEF lights
  <2>3. PICK p \in Range(lights) :
           \E s \in Range(p.sections) : Complete(s) /\ e.point = Key(s)
    BY <2>1, <2>2, PointsCollected
  <2>4. PICK s \in Range(p.sections) : Complete(s) /\ e.point = Key(s)
    BY <2>3
  <2>5. s \in Sections(config)
    BY <2>2, <2>3, <2>4 DEF Sections
  <2> QED BY <2>4, <2>5 DEF WantedPoints, Keys
<1> QED BY <1>2, <1>3 DEF Entities

(* A variable of a supported type has an entity that is no light. *)
LEMMA VariablesHaveEntities ==
  ASSUME NEW config \in Config, NEW v \in Range(config.variables),
         Upper[v.type] \in SENSOR_TYPES \union {"BOOL"}
  PROVE  \E e \in Entities(config) : e.platform # "light" /\ e.point = Key(v)
<1>1. PICK p \in Platforms(v) : p # "light"
  <2>1. CASE Upper[v.type] \in SENSOR_TYPES
    <3>1. "sensor" \in Platforms(v)
      BY <2>1 DEF Platforms
    <3> QED BY <3>1
  <2>2. CASE Upper[v.type] = "BOOL" /\ v.writable
    <3>1. "switch" \in Platforms(v)
      BY <2>2 DEF Platforms
    <3> QED BY <3>1
  <2>3. CASE Upper[v.type] = "BOOL" /\ ~v.writable
    <3>1. "binary_sensor" \in Platforms(v)
      BY <2>3 DEF Platforms
    <3> QED BY <3>1
  <2> QED BY <2>1, <2>2, <2>3
<1>2. Entity(p, v) \in Entities(config)
  BY DEF Entities, VariableEntities
<1> QED BY <1>1, <1>2 DEF Entity

(* Every entity a platform makes finds its point in coordinator.data, and  *)
(* every variable of a supported type has an entity.                       *)
THEOREM EntitiesFed == Spec => []EntitiesServed
<1>1. ListsInv => EntitiesServed
  <2> SUFFICES ASSUME ListsInv, stored # None PROVE EntitiesServed
    BY DEF EntitiesServed
  <2> DEFINE config == stored.config
             poll == stored.lists.poll
             async == stored.lists.async
  <2>1. config \in Config /\ stored.lists = ReadLists(config)
    BY LifecycleAssumption DEF ListsInv
  <2>2. /\ poll \in Seq(KeyPoint) /\ async \in Seq(KeyPoint)
        /\ Range(async) = WantedAsync(config)
        /\ Range(poll) = WantedPoints(config) \ WantedAsync(config)
    BY <2>1, ListsServe
  <2> HIDE DEF config, poll, async
  <2>3. WantedPoints(config) \subseteq Range(poll \o async)
    BY <2>2, JoinedRange
  <2>4. \A e \in Entities(config) : Complete(e.point) => e.point \in Range(poll \o async)
    BY <2>1, <2>3, EntitiesFindPoints
  <2>5. \A v \in Range(config.variables) :
           Upper[v.type] \in SENSOR_TYPES \union {"BOOL"}
               => \E e \in Entities(config) : e.platform # "light" /\ e.point = Key(v)
    BY <2>1, VariablesHaveEntities
  <2> QED BY <2>4, <2>5 DEF EntitiesServed, config, poll, async
<1> QED BY <1>1, ListsKept, PTL
=============================================================================
