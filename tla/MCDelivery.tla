------------------------------ MODULE MCDelivery ------------------------------
(* Per service, a message that is as it should be, one of which no request  *)
(* can be made, and one that is not converted; to Telegram, messages of two *)
(* methods and one without text; to FCM, one with two destinations, one    *)
(* with a value that its library refuses, and two that have a list instead *)
(* of `to`.                                                                *)
EXTENDS Delivery

Sound == [apns     |-> {"token", "apns-topic"},
          fcm      |-> {"to"},
          telegram |-> {"sendMessage", "chat_id", "text"},
          webhook  |-> {"url", "body"},
          webpush  |-> {"subscription"},
          email    |-> {"to", "from", "subject"}]

Odd == [apns     |-> {{"token"}},
        fcm      |-> {{"to", "registration_ids"}, {"to", "topic"}, {"to", "objectionable"},
                      {"registration_ids"}, {"registration_ids", "topic"}},
        telegram |-> {{"chat_id", "text"}, {"sendPhoto", "chat_id", "photo"}},
        webhook  |-> {{"url", "body", "data"}},
        webpush  |-> {{}},
        email    |-> {{"to", "from"}}]

MCContents == [s \in Services |-> {Sound[s], Sound[s] \cup {"malformed"}} \cup Odd[s]]
=============================================================================
