------------------------------ MODULE MCCatalog ------------------------------
(* The catalog pages of the console, and the handlers they talk to: one of them
   is explored, chosen at the start, and the others stand still. *)
EXTENDS CatalogDetail, CatalogList, CatalogForm, ImportPage, CatalogAPI, FlowPublish, TLC

CONSTANTS Screens, s1, s2

VARIABLE screen

catalogVars == <<screen, detailVars, listVars, formVars, importVars, apiVars,
                 publishVars>>

-----------------------------------------------------------------------------
\* Two names on the plainest page; the others have a flag to edit, or more.
NamesByKind == [kind \in DetailKinds |-> IF kind = "queue" THEN {"a", "b"} ELSE {"a"}]

\* A third version on the page of two names; on the others where acknowledging
\* differs.
VersionsByKind ==
    [kind \in DetailKinds |-> IF kind \in {"queue", "skill", "break_reason"} THEN 3 ELSE 2]

\* What tells the requests apart that are out at once.
RequestSymmetry == Permutations(Slots)

PagesByKind == [kind \in ListKinds |-> IF kind = "flows" THEN 3 ELSE 2]

NamesTyped == {<<>>, <<"A", "1">>, <<" ", "a", "'", " ", "_", "1">>, <<"1">>}

CodesTyped == {<<>>, <<"1">>, <<"a", "1">>}

FilesOnDisk ==
    {[ext |-> "csv", fits |-> TRUE, readable |-> TRUE, chunks |-> 1],
     [ext |-> "json", fits |-> TRUE, readable |-> TRUE, chunks |-> 0]}

-----------------------------------------------------------------------------
(* A screen that is not open is in one of its initial states. *)

CatalogInit ==
    /\ screen \in Screens
    /\ IF screen = "detail" THEN DetailInit
       ELSE /\ page = NewPage("queue", FALSE) /\ row = CHOOSE r \in FirstRow("queue") : TRUE
            /\ wire = [s \in Slots |-> Null]
    /\ IF screen = "list" THEN ListInit
       ELSE list = NewList("queues", CHOOSE limit \in Limits : TRUE) /\ stale = {}
    /\ IF screen = "form" THEN FormInit
       ELSE form = NewForm("queue") /\ posts = <<>> /\ taken = {}
    /\ ImportInit
    /\ IF screen = "api" THEN ApiInit
       ELSE ApiInit /\ served = CHOOSE kind \in ApiKinds : TRUE
    /\ PublishInit
    /\ screen # "publish" =>
          draft = [f \in Flows |-> [graph |-> CHOOSE g \in FlowGraphs : TRUE,
                                    version |-> 1, on |-> TRUE]]

Open(name) == screen = name /\ UNCHANGED screen

CatalogNext ==
    \/ Open("detail") /\ DetailNext /\ UNCHANGED <<listVars, formVars, importVars, apiVars, publishVars>>
    \/ /\ Open("list") /\ ListNext
       /\ UNCHANGED <<detailVars, formVars, importVars, apiVars, publishVars>>
    \/ /\ Open("form") /\ FormNext
       /\ UNCHANGED <<detailVars, listVars, importVars, apiVars, publishVars>>
    \/ /\ Open("import") /\ ImportNext
       /\ UNCHANGED <<detailVars, listVars, formVars, apiVars, publishVars>>
    \/ /\ Open("api") /\ ApiNext
       /\ UNCHANGED <<detailVars, listVars, formVars, importVars, publishVars>>
    \/ /\ Open("publish") /\ PublishNext
       /\ UNCHANGED <<detailVars, listVars, formVars, importVars, apiVars>>

CatalogSpec == CatalogInit /\ [][CatalogNext]_catalogVars

=============================================================================
