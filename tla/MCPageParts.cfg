\* The parts of the page, one at a time.
SPECIFICATION Spec
CONSTANTS
  None = None
  \* The launch pipeline.
  Launches = {l1, l2}
  Entry <- TheEntry
  OptiFine = "optifine"
  Requires <- TheRequires
  Indexed = {"loader"}
  Hooked = {"game"}
  Directories <- TheDirectories
  Installations <- TheInstallations
  Inputs <- TheInputs
  MaxFaults = 1
  \* Sign-in.
  People = {p1, p2}
  MaxSignIns = 2
  \* Creation of an instance.
  Games = {"g1", "g2"}
  DefaultGame = "g1"
  Published <- ThePublished
  Manifests <- TheManifests
  FromModrinth = {"forges"}
  MaxInstances = 1
  \* The settings.
  Rows = {"addJvmArguments", "draftJvmArguments", "addGameArguments", "draftGameArguments", "windowWidth", "draftWindowWidth", "draftMinMemory", "draftMaxMemory", "backgroundImage", "showFPS", "locale", "javaBinary", "textMainColor"}
  Texts <- TheTexts
  PickedFiles <- ThePicked
  Detected <- TheDetected
  CustomJava = {"/c"}
  LocalesFound <- TheFound
  MaxEdits = 3
  \* The start of the page.
  Locales = {"en", "ru"}
  JavaMajors = {21}
  MaxChanges = 1
  \* Servers.
  Calls = {"s1", "s2"}
  Names = {"txiki-1", "txiki-2"}
  MaxReloads = 1
  \* The search for modpacks.
  Terms <- TheTerms
  FilterValues <- TheFilterValues
  TotalHits <- TheHits
  PageSize = 2
  MaxChoices = 3
INVARIANTS PagePartsTypeOK SignInIsOwn InstancesAsChosen PageIsSettled ValuesAsMeant
PROPERTIES LaunchesResolve SignInsEnd WindowIsShown
CHECK_DEADLOCK FALSE
