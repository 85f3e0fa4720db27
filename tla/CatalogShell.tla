---------------------------- MODULE CatalogShell ----------------------------
(***************************************************************************)
(* The console's shell: the address, the page its outlet shows, and the    *)
(* organisation its requests are made for.  It runs as the admin app, where *)
(* the address is the path of the document, and inside the embed element,  *)
(* where it is the document's hash and the path is the host page's (taken  *)
(* to be one the shell has no route for).                                  *)
(*                                                                         *)
(* A page is loaded before it is shown, and the router neither cancels nor *)
(* orders loads.  An address is an organisation and a page; Null is one    *)
(* that names no page of the shell's.                                      *)
(***************************************************************************)
EXTENDS Naturals, FiniteSets, Sequences, ConsoleCommon

CONSTANTS
    ShellOrgs,     \* organisation ids that are well formed
    BadOrg,        \* one that is not
    ModuleLists,   \* values of the modules attribute; empty when it is not set
    Addresses,     \* bound: what the address becomes by Back, Forward or by hand
    Loads          \* bound: what tells the page loads apart that are out at once

VARIABLES
    shell,    \* the shell element, Null where there is none
    loading,  \* the page loads that are out
    embed     \* the embed element around it, Null in the admin app

shellVars == <<shell, loading, embed>>

-----------------------------------------------------------------------------
(* Routes *)

Path(org, page) == [org |-> org, page |-> page]
Home == Path(Null, "home")
Playground == Path(Null, "playground")

\* The pages of the catalog: shown only where the modules name them.
Entities == {"agents", "status"}
OrgPages == Entities \cup {"imports"}

Paths == {Home, Playground} \cup [org : ShellOrgs \cup {BadOrg}, page : OrgPages]

ASSUME ShellAssumption ==
    /\ BadOrg \notin ShellOrgs
    /\ Null \notin ShellOrgs \cup {BadOrg} \cup Loads \cup Paths
    /\ Loads # {}
    /\ ModuleLists \subseteq Seq(STRING)
    /\ Addresses \subseteq Paths \cup {Null}

\* The first module is gone to by its name, and not every module has such a path.
RoutedModules == Entities \ {"status"}

Guarded(modules, page) ==
    /\ page \in Entities /\ modules # <<>>
    /\ \A m \in 1..Len(modules) : modules[m] # page

\* The sidebar: what is not guarded by name is there whatever the modules.
VisibleEntries(modules) == {page \in OrgPages : ~Guarded(modules, page)} \cup {"imports", "status"}

-----------------------------------------------------------------------------
(* Going to a page.  x is [sh, ld]: the shell and the loads. *)

LoadsOut(ld) == {l \in Loads : ld[l] # Null}

\* A load begins.
LoadPage(x, path) ==
    IF LoadsOut(x.ld) = Loads THEN x
    ELSE [x EXCEPT !.ld[CHOOSE l \in Loads : x.ld[l] = Null] = path]

\* The client the embed element gave, or one of the shell's own.
OrgRouteEnter(x, org) == [x EXCEPT !.sh.org = org, !.sh.label = org, !.sh.client = TRUE]

ShowHome(x) == [x EXCEPT !.sh.shown = Home]

SyncOrgIdFromUrl(x) ==
    IF x.sh.mode = "history" /\ x.sh.address # Null /\ x.sh.address.org # Null
    THEN OrgRouteEnter(x, x.sh.address.org)
    ELSE [x EXCEPT !.sh.org = Null, !.sh.label = Null, !.sh.client = FALSE]

\* A malformed organisation: the address becomes the first page's.
Rejected(x) ==
    LET home == ShowHome([x EXCEPT !.sh.address = Home])
    IN  IF x.sh.mode = "history" THEN SyncOrgIdFromUrl(home) ELSE home

ToFirstModule(x, org) ==
    IF x.sh.modules[1] \in RoutedModules THEN LoadPage(x, Path(org, x.sh.modules[1])) ELSE x

ComposedEnterGoesOn(x, path) ==
    IF path.org = BadOrg THEN Rejected(x)
    ELSE LET y == OrgRouteEnter(x, path.org)
         IN  LoadPage(IF Guarded(y.sh.modules, path.page) THEN ToFirstModule(y, path.org) ELSE y, path)

ComposedEnter(x, path) ==
    IF path.org = BadOrg THEN Rejected(x)
    ELSE LET y == OrgRouteEnter(x, path.org)
         IN  IF Guarded(y.sh.modules, path.page) THEN ToFirstModule(y, path.org) ELSE LoadPage(y, path)

\* Where no other page is loading, nothing can come after this one; where the
\* import page of another organisation is shown, its render may.
Undisturbed(x, path) ==
    /\ \A l \in LoadsOut(x.ld) : x.ld[l] = path
    /\ ~(x.sh.shown # Null /\ x.sh.shown.page = "imports" /\ x.sh.shown.org # path.org)

Goto(x, path) ==
    IF path = Null THEN x
    ELSE LET y == [x EXCEPT !.sh.alone = Undisturbed(x, path)]
         IN  CASE path = Home -> ShowHome(y)
               [] path = Playground -> LoadPage(y, path)
               [] OTHER -> ComposedEnter(y, path)

\* A change of the hash is a popstate, which finds no organisation in the host's
\* path, at once, and a hashchange later.
Navigate(x, path) ==
    IF x.sh.mode = "history" THEN Goto([x EXCEPT !.sh.address = path], path)
    ELSE IF x.sh.address = path THEN Goto(x, path)
    ELSE Goto(SyncOrgIdFromUrl([x EXCEPT !.sh.address = path, !.sh.pending = TRUE]), path)

-----------------------------------------------------------------------------
(* The shell *)

Now == [sh |-> shell, ld |-> loading]

Becomes(x) == shell' = x.sh /\ loading' = x.ld

MayGoto == shell # Null /\ LoadsOut(loading) # Loads

\* An embed element makes it a hash shell after it is connected, if it ever does,
\* and the page of the hash is gone to while the timer is still to fire.
NewShell(mode, modules, address) ==
    [mode |-> mode, modules |-> modules, address |-> address, shown |-> Null, org |-> Null,
     label |-> Null, client |-> FALSE, booting |-> TRUE, pending |-> FALSE, alone |-> TRUE]

ConnectedShell ==
    /\ MayGoto /\ shell.booting
    /\ LET x == [Now EXCEPT !.sh.booting = FALSE]
       IN  Becomes(IF shell.mode = "history" THEN Goto(x, shell.address) ELSE x)
    /\ UNCHANGED embed

\* The page arrives, or cannot be fetched.
Landed(l) ==
    /\ shell # Null /\ loading[l] # Null
    /\ \/ Becomes([Now EXCEPT !.ld[l] = Null, !.sh.shown = loading[l]])
       \/ Becomes([Now EXCEPT !.ld[l] = Null, !.sh.alone = FALSE])
    /\ UNCHANGED embed

\* A path of the sidebar, which is of the organisation it is labelled with (none
\* makes a path that is no page's), or of a page, which is of its own.
HandleNavigate ==
    /\ MayGoto
    /\ \/ \E page \in VisibleEntries(shell.modules) :
             Becomes(Navigate(Now, IF shell.label = Null THEN Null ELSE Path(shell.label, page)))
       \/ \E page \in OrgPages :
             /\ shell.shown # Null /\ shell.shown.org # Null
             /\ Becomes(Navigate(Now, Path(shell.shown.org, page)))
    /\ UNCHANGED embed

\* Back or Forward; to an address of the host's own, too.
HandlePopState ==
    /\ MayGoto
    /\ \E path \in Addresses \ {shell.address} :
          LET x == SyncOrgIdFromUrl([Now EXCEPT !.sh.address = path])
          IN  Becomes(IF shell.mode = "history" THEN Goto(x, path) ELSE [x EXCEPT !.sh.pending = TRUE])
    /\ UNCHANGED embed

OnHashChange ==
    /\ MayGoto /\ shell.pending
    /\ Becomes(Goto([Now EXCEPT !.sh.pending = FALSE], shell.address))
    /\ UNCHANGED embed

SwitchOrg ==
    /\ MayGoto
    /\ Becomes(Navigate([Now EXCEPT !.sh.org = Null, !.sh.label = Null, !.sh.client = FALSE], Home))
    /\ UNCHANGED embed

\* The import page's render makes its organisation the one of the requests.
ImportRendered ==
    /\ shell # Null /\ shell.shown # Null /\ shell.shown.page = "imports"
    /\ Becomes([Now EXCEPT !.sh.org = shell.shown.org])
    /\ UNCHANGED embed

-----------------------------------------------------------------------------
(* The organisation picker *)

\* The organisation typed, or the one used last; a malformed one goes nowhere.
HandleSubmit ==
    /\ MayGoto /\ shell.shown = Home
    /\ \E org \in ShellOrgs : Becomes(Navigate(OrgRouteEnter(Now, org), Path(org, "agents")))
    /\ UNCHANGED embed

-----------------------------------------------------------------------------
(* The embed element *)

\* A shell is mounted.  Only the first one is given the hash adapter, which goes
\* to the page of the hash at once.
Mounted(modules, address, wired) ==
    LET new == NewShell(IF wired THEN "history" ELSE "hash", modules, IF wired THEN Null ELSE address)
        x == [sh |-> [new EXCEPT !.client = TRUE], ld |-> [l \in Loads |-> Null]]
    IN  IF wired THEN x ELSE Goto(x, address)

\* The org-id attribute changes: a new client, and no shell where it is malformed.
ValidateAndBuildClient ==
    /\ embed # Null
    /\ \E org \in (ShellOrgs \cup {BadOrg}) \ {embed.org} :
          /\ embed' = [embed EXCEPT !.org = org, !.wired = @ \/ org # BadOrg]
          /\ IF org = BadOrg
             THEN shell' = Null /\ loading' = [l \in Loads |-> Null]
             ELSE IF shell = Null
             THEN LET x == Mounted(embed.modules, embed.hash, embed.wired)
                  IN  shell' = x.sh /\ loading' = x.ld
             ELSE /\ shell' = [shell EXCEPT !.label = org, !.client = TRUE]
                  /\ UNCHANGED loading

-----------------------------------------------------------------------------
ShellInit ==
    /\ \E modules \in ModuleLists, address \in Addresses :
          \/ /\ embed = Null
             /\ shell = SyncOrgIdFromUrl([sh |-> NewShell("history", modules, address)]).sh
          \/ shell = Null /\ embed = [org |-> Null, modules |-> modules, hash |-> address, wired |-> FALSE]
    /\ loading = [l \in Loads |-> Null]

ShellNext ==
    \/ ConnectedShell \/ HandleNavigate \/ HandlePopState \/ OnHashChange \/ SwitchOrg
    \/ ImportRendered \/ HandleSubmit \/ ValidateAndBuildClient
    \/ \E l \in Loads : Landed(l)

ShellSpec == ShellInit /\ [][ShellNext]_shellVars

-----------------------------------------------------------------------------
(* Properties *)

\* The page an address names: itself, or the first of the modules.
Named(modules, address) ==
    IF address = Null \/ ~Guarded(modules, address.page) THEN address
    ELSE IF modules[1] \in RoutedModules THEN Path(address.org, modules[1])
    ELSE Null

\* Once nothing is loading, and if nothing but the page last gone to was, the page
\* shown is the one the address names or the first the modules allow; in the admin
\* app its requests are of its own organisation and it has a client.
AddressIsShown ==
    shell # Null /\ shell.alone /\ ~shell.booting /\ ~shell.pending /\ LoadsOut(loading) = {} =>
        LET named == Named(shell.modules, shell.address)
        IN  named # Null =>
                /\ shell.shown = named
                /\ shell.mode = "history" /\ named.org # Null =>
                       shell.org = named.org /\ shell.client

=============================================================================
