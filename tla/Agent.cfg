\* What the user copies and what comes from elsewhere: a text, a picture or a file, of each one.
CONSTANTS
    b = b
    picture = picture
    png = png
    file = file
    paper = paper
    NoContent = NoContent
    Texts = {b}
    Images = {picture, png}
    Files = {file, paper}
    Back <- AsPng
    FilesOfferText = TRUE
    Handlers = {1}
    ImagePollEvery = 1
    Found = {NoContent}
    Copied = {b, picture, paper}
    Received = {b, picture, file}
    MaxCopies = 1
    MaxReceived = 1
    MaxEpoch = 2
    MaxFails = 1
    Watches = TRUE
SPECIFICATION AgentFairSpec
INVARIANTS NoEcho
PROPERTIES SendsWhatIsThere CopiesAreSent
CHECK_DEADLOCK FALSE
