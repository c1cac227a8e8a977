---------------------------- MODULE MCSdkCommands ------------------------------
\* Small instances of SdkCommands for TLC.
EXTENDS SdkCommands

MCTypeOf == ("h" :> "HAP") @@ ("m" :> "Mid360") @@ ("p" :> "PA")
MCOffered == {"DisableLivoxLidarPointSend", "SetLivoxLidarPointDataHostIPCfg"}
MCHeld == {"PointSendEn", "LidarIpCfg", "LidarPointDataHostIpCfg", "ForceHeatEn", "Mac"}
MCHostIps == {<<192, 168, 1, 5>>, <<192, 168, 1>>}
MCNone == <<>>
================================================================================
