SPECIFICATION FeedSpec
CONSTANTS
    c1 = c1
    c2 = c2
    k1 = k1
    k2 = k2
    Clients <- MCClients
    KeyOf <- MCKeyOf
    Docs <- MCDocs
    Usable <- MCUsable
    Size <- MCSize
    Signed <- MCSigned
    MaxRules <- OneEngine
PROPERTY RefusalLeavesEngine
