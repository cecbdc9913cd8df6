SPECIFICATION BrowserSpec
CONSTANTS
    Boxes = {"symbol", "line"}
    Lines = 1
    Numbers = {0, 2}
    Tags = {"v1", "v2"}
    MaxGets = 2
    MaxPicks = 2
    Tabs = {"t1", "t2"}
    ShowFor = 1
    FetchFor = 2
    Limit = 2
    MaxNews = 2
    MaxClock = 4
    Never = Never
    Menus = {"search", "tags", "sub1", "sub2"}
    ParentOf <- MenuTree
    Entries = 2
    Radios = {"symbol", "file"}
    Items = 3
    Wrap = TRUE
    MaxQueue = 2
    Panels <- ThreePanels
    Accordion = TRUE
    Opened = {}
    TipOptions <- SomeTips
    MaxWaits = 4
    ModalOptions <- AllModals
    Layouts <- SomeLayouts
    SpyWindow = 2
    Heights = {8, 9, 11}
    Window = 4
    Height = 2
    Pinned = 1
    OffsetTop = 2
    OffsetBottom = 2
    Metric = {"a", "b"}
    AnswerOf <- SomeAnswers
    Places <- TwoPlaces
    Day = 2
    Nothing = Nothing
    Nobody = Nobody
    Nowhere = Nowhere
INVARIANTS TypesOK OneBox ScreensWhole PicksAnswered NewsKept Settled OneOpen NotLeftBehind OneBranch SpiesRight Belongs WholeBehindZoom SaidOfShown
PROPERTIES Goes
CHECK_DEADLOCK FALSE
