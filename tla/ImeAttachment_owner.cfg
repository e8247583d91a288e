SPECIFICATION Spec
CONSTANTS
    h1 = h1
    h2 = h2
    Hosts <- MCHosts
    NoHost = NoHost
    MaxEditors = 2
    MaxProxies = 3
    MaxErase = 1
SYMMETRY Tabs
INVARIANTS
    EditorsEndOnce
    TextAndKeysAgree
    NoBlockingCall
    ErasesOwnPreview

\* OnSurfaceHide() may stop the UI thread for good (run ime_hide).
CHECK_DEADLOCK FALSE
